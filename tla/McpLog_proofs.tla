--------------------------- MODULE McpLog_proofs ---------------------------
(***************************************************************************)
(* What a subscriber's log says of the calls, for any calls and            *)
(* subscribers, although calls overlap and their events are published      *)
(* under no common lock: every call is told as one story, and what was     *)
(* read of the artifacts agrees with the log.                              *)
(***************************************************************************)
EXTENDS McpServer_proofs

USE McpAssumption DEF McpAssumption

Succeeded(c) == phase[c] = "finished" /\ answer[c] = "ok"

(***************************************************************************)
(* The three kinds of step                                                 *)
(***************************************************************************)
\* Subscribers come, go and receive, and publishers tell what has happened.
Tells ==
    /\ UNCHANGED <<request, phase, answer, artifact, found>>
    /\ \A s \in Subscribers :
          \/ log'[s] = log[s]
          \/ \E p \in Calls : Publishing(p) /\ log'[s] = Append(log[s], event[p])

\* A call arrives.
Begins(d) ==
    /\ phase[d] = "idle"
    /\ phase'[d] # "finished"
    /\ \A c \in Calls \ {d} : phase'[c] = phase[c] /\ answer'[c] = answer[c]
    /\ UNCHANGED <<request, artifact, found, log>>

\* A handler takes effect and ends.
Ends(d) ==
    /\ phase[d] = "started"
    /\ phase'[d] = "finished"
    /\ \A c \in Calls \ {d} :
          phase'[c] = phase[c] /\ answer'[c] = answer[c] /\ found'[c] = found[c]
    /\ UNCHANGED <<request, log>>
    /\ artifact' # artifact =>
          \/ Tool(d) = "artifact.set" /\ artifact' = d
          \/ Tool(d) = "artifact.delete" /\ artifact' = NoArtifact
    /\ Tool(d) = "artifact.set" /\ answer'[d] = "ok" => artifact' = d
    /\ Tool(d) = "artifact.delete" /\ answer'[d] = "ok" => artifact' = NoArtifact
    /\ Tool(d) = "artifact.get" /\ answer'[d] = "ok" =>
          artifact # NoArtifact /\ found'[d] = artifact
    /\ Tool(d) = "artifact.get" /\ answer'[d] = "handler_error" => artifact = NoArtifact

LEMMA FinishEnds ==
    ASSUME TypeOK, NEW d \in Calls, At(d, "started"), NEW a, NEW t, Finish(d, a, t)
    PROVE  /\ phase[d] = "started" /\ phase'[d] = "finished" /\ answer'[d] = a
           /\ \A c \in Calls \ {d} : phase'[c] = phase[c] /\ answer'[c] = answer[c]
           /\ UNCHANGED <<request, log>>
BY DEF At, Finish, StartPublish, TypeOK

LEMMA ServeKinds ==
    ASSUME TypeOK, NEW d \in Calls, Serve(d)
    PROVE  Tells \/ Begins(d) \/ Ends(d)
<1>1. CASE Deny(d) \/ NotFound(d) \/ Start(d)
    <2>1. Begins(d)
        BY <1>1 DEF Deny, NotFound, Start, At, StartPublish, busVars, Begins, TypeOK
    <2> QED BY <2>1
<1>2. CASE Offer(d)
    <2>1. PICK s \in Subscribers : Deliver(d, s) /\ UNCHANGED callVars
        BY <1>2 DEF Offer
    <2>2. Publishing(d)
        BY <2>1 DEF Deliver, Publishing
    <2>3. log' = log \/ log' = [log EXCEPT ![s] = Append(log[s], event[d])]
        BY <2>1 DEF Deliver, Send, Drop
    <2>4. Tells
        BY <2>1, <2>2, <2>3 DEF Tells, callVars, TypeOK, BusTypeOK
    <2> QED BY <2>4
<1>3. CASE RebuildProgress(d)
    <2>1. Tells
        BY <1>3 DEF RebuildProgress, StartPublish, Tells
    <2> QED BY <2>1
<1>4. CASE HandlerRefuses(d)
    <2>1. At(d, "started") /\ Finish(d, "invalid_argument", "failure") /\ UNCHANGED <<artifact, found>>
        BY <1>4 DEF HandlerRefuses
    <2>2. Ends(d)
        BY <2>1, FinishEnds DEF Ends
    <2> QED BY <2>2
<1>5. CASE HandlerPanics(d) \/ RebuildEnds(d)
    <2>1. /\ At(d, "started") /\ Tool(d) = "vector.rebuild"
          /\ \E a, t : Finish(d, a, t)
          /\ UNCHANGED <<artifact, found>>
        BY <1>5 DEF HandlerPanics, RebuildEnds
    <2>2. Ends(d)
        BY <2>1, FinishEnds DEF Ends
    <2> QED BY <2>2
<1>6. CASE Set(d)
    <2>1. /\ At(d, "started") /\ Tool(d) = "artifact.set" /\ Finish(d, "ok", "success")
          /\ artifact' = d /\ found' = found
        BY <1>6 DEF Set
    <2>2. Ends(d)
        BY <2>1, FinishEnds DEF Ends
    <2> QED BY <2>2
<1>7. CASE Get(d)
    <2>1. /\ At(d, "started") /\ Tool(d) = "artifact.get" /\ artifact' = artifact
          /\ found'[d] = artifact /\ \A c \in Calls \ {d} : found'[c] = found[c]
          /\ \/ artifact # NoArtifact /\ Finish(d, "ok", "success")
             \/ artifact = NoArtifact /\ Finish(d, "handler_error", "failure")
        BY <1>7 DEF Get, TypeOK
    <2>2. Ends(d)
        BY <2>1, FinishEnds DEF Ends
    <2> QED BY <2>2
<1>8. CASE Delete(d)
    <2>1. /\ At(d, "started") /\ Tool(d) = "artifact.delete" /\ artifact' = NoArtifact
          /\ found' = found
          /\ Finish(d, "ok", "success") \/ Finish(d, "handler_error", "failure")
        BY <1>8 DEF Delete
    <2>2. Ends(d)
        BY <2>1, FinishEnds DEF Ends
    <2> QED BY <2>2
<1> QED BY <1>1, <1>2, <1>3, <1>4, <1>5, <1>6, <1>7, <1>8 DEF Serve

LEMMA StepKinds ==
    ASSUME TypeOK, [Next]_vars
    PROVE  Tells \/ \E d \in Calls : Begins(d) \/ Ends(d)
<1>1. ASSUME NEW s \in Subscribers, Watch(s) PROVE Tells
    BY <1>1 DEF Watch, Subscribe, Cancel, Receive, callVars, Tells
<1>2. CASE UNCHANGED vars
    BY <1>2 DEF vars, busVars, callVars, Tells
<1> QED BY <1>1, <1>2, ServeKinds DEF Next

(***************************************************************************)
(* What is in the log has happened                                         *)
(***************************************************************************)
\* A start is published before the handler ends, a success after.
Truthful(p) ==
    Publishing(p) =>
        /\ event[p].type = "started" => event[p].call = p /\ phase[p] = "started"
        /\ event[p].type = "success" => event[p].call = p /\ Succeeded(p)

LogInv ==
    /\ \A p \in Calls : Truthful(p)
    /\ \A s \in Subscribers, c \in Calls :
          /\ Logged(s, Ev("started", c)) => phase[c] \in {"started", "finished"}
          /\ Logged(s, Ev("success", c)) => Succeeded(c)

LEMMA PublishingIsTruthful ==
    ASSUME TypeOK, NEW d \in Calls, NEW t, NEW c, StartPublish(d, Ev(t, c)),
           t = "started" => c = d /\ phase'[d] = "started",
           t = "success" => c = d /\ phase'[d] = "finished" /\ answer'[d] = "ok",
           \A p \in Calls \ {d} : phase'[p] = phase[p] /\ answer'[p] = answer[p],
           \A p \in Calls : Truthful(p)
    PROVE  \A p \in Calls : Truthful(p)'
<1>1. event'[d] = Ev(t, c)
    BY DEF StartPublish, TypeOK, BusTypeOK, Calls
<1>2. Truthful(d)'
    BY <1>1 DEF Truthful, Succeeded, Ev
<1>3. ASSUME NEW p \in Calls \ {d} PROVE Truthful(p)'
    <2>1. event'[p] = event[p] /\ todo'[p] = todo[p]
        BY DEF StartPublish, TypeOK, BusTypeOK, Calls
    <2> QED BY <2>1 DEF Truthful, Succeeded, Publishing
<1> QED BY <1>2, <1>3

LEMMA FinishingIsTruthful ==
    ASSUME TypeOK, NEW d \in Calls, At(d, "started"), NEW a, NEW t, Finish(d, a, t),
           t # "started", t = "success" => a = "ok", \A p \in Calls : Truthful(p)
    PROVE  \A p \in Calls : Truthful(p)'
BY FinishEnds, PublishingIsTruthful DEF Finish

LEMMA StepIsTruthful ==
    ASSUME TypeOK, [Next]_vars, \A p \in Calls : Truthful(p)
    PROVE  \A p \in Calls : Truthful(p)'
<1>1. ASSUME NEW d \in Calls, Deny(d) PROVE \A p \in Calls : Truthful(p)'
    <2>1. /\ StartPublish(d, Ev("denied", d))
          /\ \A p \in Calls \ {d} : phase'[p] = phase[p] /\ answer'[p] = answer[p]
        BY <1>1 DEF Deny, TypeOK
    <2> QED BY <2>1, PublishingIsTruthful
<1>2. ASSUME NEW d \in Calls, Start(d) PROVE \A p \in Calls : Truthful(p)'
    <2>1. /\ StartPublish(d, Ev("started", d)) /\ phase'[d] = "started"
          /\ \A p \in Calls \ {d} : phase'[p] = phase[p] /\ answer'[p] = answer[p]
        BY <1>2 DEF Start, TypeOK
    <2> QED BY <2>1, PublishingIsTruthful
<1>3. ASSUME NEW d \in Calls, RebuildProgress(d) PROVE \A p \in Calls : Truthful(p)'
    <2>1. StartPublish(d, Ev("progress", NoCall)) /\ UNCHANGED <<phase, answer>>
        BY <1>3 DEF RebuildProgress
    <2> QED BY <2>1, PublishingIsTruthful
<1>4. ASSUME NEW d \in Calls, NotFound(d) PROVE \A p \in Calls : Truthful(p)'
    <2>1. /\ phase[d] = "idle" /\ ~Publishing(d) /\ UNCHANGED busVars
          /\ \A p \in Calls \ {d} : phase'[p] = phase[p] /\ answer'[p] = answer[p]
        BY <1>4 DEF NotFound, At, TypeOK
    <2> QED BY <2>1 DEF Truthful, Publishing, Succeeded, busVars
<1>5. ASSUME NEW d \in Calls, Offer(d) PROVE \A p \in Calls : Truthful(p)'
    <2>1. PICK s \in Subscribers : Deliver(d, s) /\ UNCHANGED callVars
        BY <1>5 DEF Offer
    <2>2. \A p \in Calls : Publishing(p)' => Publishing(p)
        BY <2>1 DEF Deliver, Offered, Publishing, TypeOK, BusTypeOK, Calls
    <2>3. UNCHANGED <<event, phase, answer>>
        BY <2>1 DEF Deliver, callVars
    <2> QED BY <2>2, <2>3 DEF Truthful, Succeeded
<1>6. ASSUME NEW d \in Calls, At(d, "started"), NEW a, NEW t, Finish(d, a, t),
             t # "started", t = "success" => a = "ok"
      PROVE  \A p \in Calls : Truthful(p)'
    BY <1>6, FinishingIsTruthful
<1>7. ASSUME UNCHANGED <<todo, event, phase, answer>> PROVE \A p \in Calls : Truthful(p)'
    BY <1>7 DEF Truthful, Publishing, Succeeded
<1>8. ASSUME NEW s \in Subscribers, Watch(s) PROVE \A p \in Calls : Truthful(p)'
    BY <1>7, <1>8 DEF Watch, Subscribe, Cancel, Receive, callVars
<1>9. CASE UNCHANGED vars
    BY <1>7, <1>9 DEF vars, busVars, callVars
<1>10. ASSUME NEW d \in Calls, Serve(d) PROVE \A p \in Calls : Truthful(p)'
    <2>1. CASE HandlerPanics(d) \/ HandlerRefuses(d) \/ RebuildEnds(d) \/ Set(d) \/ Get(d) \/ Delete(d)
        <3>1. At(d, "started")
            BY <2>1 DEF HandlerPanics, HandlerRefuses, RebuildEnds, Set, Get, Delete
        <3>2. \/ Finish(d, "ok", "success") \/ Finish(d, "handler_error", "failure")
              \/ Finish(d, "invalid_argument", "failure")
            BY <2>1 DEF HandlerPanics, HandlerRefuses, RebuildEnds, Set, Get, Delete
        <3> QED BY <1>6, <3>1, <3>2
    <2> QED BY <1>1, <1>2, <1>3, <1>4, <1>5, <1>10, <2>1 DEF Serve
<1> QED BY <1>8, <1>9, <1>10 DEF Next

LEMMA LogOf ==
    ASSUME TypeOK, NEW s \in Subscribers
    PROVE  log[s] \in Seq(Events) /\ Len(log[s]) \in Nat
<1>1. log[s] \in Seq(Events)
    BY DEF TypeOK, BusTypeOK
<1> QED BY <1>1

LEMMA AppendedLog ==
    ASSUME NEW S, NEW L \in Seq(S), NEW e \in S, NEW i \in 1 .. Len(Append(L, e))
    PROVE  \/ i \in 1 .. Len(L) /\ Append(L, e)[i] = L[i]
           \/ i = Len(L) + 1 /\ Append(L, e)[i] = e
OBVIOUS

\* An event that comes into a log is one that a call is publishing.
LEMMA NewlyLogged ==
    ASSUME TypeOK, Tells, NEW s \in Subscribers, NEW e, Logged(s, e)', ~Logged(s, e)
    PROVE  \E p \in Calls : Publishing(p) /\ event[p] = e
<1>1. PICK i \in 1 .. Len(log'[s]) : log'[s][i] = e
    BY DEF Logged
<1>2. PICK p \in Calls : Publishing(p) /\ log'[s] = Append(log[s], event[p])
    BY DEF Tells, Logged
<1>3. event[p] \in Events
    BY DEF TypeOK, BusTypeOK, Calls
<1>4. \/ i \in 1 .. Len(log[s]) /\ log'[s][i] = log[s][i]
      \/ log'[s][i] = event[p]
    BY <1>1, <1>2, <1>3, LogOf, AppendedLog
<1> QED BY <1>1, <1>2, <1>4 DEF Logged

LEMMA BeforeIsLogged ==
    ASSUME NEW s, NEW a, NEW b, Before(s, a, b)
    PROVE  Logged(s, Ev("success", a)) /\ Logged(s, Ev("started", b))
BY DEF Before, Logged

\* One call can only come to be seen to follow another while it begins.
LEMMA NewlyBefore ==
    ASSUME TypeOK, LogInv, Tells, NEW s \in Subscribers, NEW a \in Calls, NEW b \in Calls,
           Before(s, a, b)', ~Before(s, a, b)
    PROVE  phase[b] = "started" /\ Succeeded(a)
<1>1. PICK i \in 1 .. Len(log'[s]), j \in 1 .. Len(log'[s]) :
          i < j /\ log'[s][i] = Ev("success", a) /\ log'[s][j] = Ev("started", b)
    BY DEF Before
<1>2. PICK p \in Calls : Publishing(p) /\ log'[s] = Append(log[s], event[p])
    BY DEF Tells, Before
<1>3. event[p] \in Events
    BY DEF TypeOK, BusTypeOK, Calls
<1>4. /\ \/ i \in 1 .. Len(log[s]) /\ log'[s][i] = log[s][i]
         \/ i = Len(log[s]) + 1
      /\ \/ j \in 1 .. Len(log[s]) /\ log'[s][j] = log[s][j]
         \/ j = Len(log[s]) + 1 /\ log'[s][j] = event[p]
    BY <1>2, <1>3, LogOf, AppendedLog
<1>5. Len(log[s]) \in Nat
    BY LogOf
<1>6. ~ (j \in 1 .. Len(log[s]) /\ log'[s][j] = log[s][j])
    <2> SUFFICES ASSUME j \in 1 .. Len(log[s]), log'[s][j] = log[s][j] PROVE FALSE
        OBVIOUS
    <2>1. i \in 1 .. Len(log[s]) /\ log'[s][i] = log[s][i]
        BY <1>1, <1>4, <1>5
    <2> QED BY <1>1, <2>1 DEF Before
<1>7. j = Len(log[s]) + 1 /\ event[p] = Ev("started", b)
    BY <1>1, <1>4, <1>6
<1>8. i \in 1 .. Len(log[s]) /\ log[s][i] = Ev("success", a)
    BY <1>1, <1>4, <1>5, <1>7
<1>9. Succeeded(a)
    BY <1>8 DEF LogInv, Logged
<1>10. phase[b] = "started"
    BY <1>2, <1>7 DEF LogInv, Truthful, Ev
<1> QED BY <1>9, <1>10

LEMMA LogInvStep == ASSUME TypeOK, LogInv, [Next]_vars PROVE LogInv'
<1>1. \A p \in Calls : Truthful(p)'
    BY StepIsTruthful DEF LogInv
<1>2. CASE Tells
    <2>1. ASSUME NEW s \in Subscribers, NEW c \in Calls, Logged(s, Ev("started", c))'
          PROVE  phase'[c] \in {"started", "finished"}
        <3>1. CASE Logged(s, Ev("started", c))
            BY <1>2, <3>1 DEF LogInv, Tells
        <3>2. CASE ~Logged(s, Ev("started", c))
            BY <1>2, <2>1, <3>2, NewlyLogged DEF LogInv, Truthful, Ev, Tells
        <3> QED BY <3>1, <3>2
    <2>2. ASSUME NEW s \in Subscribers, NEW c \in Calls, Logged(s, Ev("success", c))'
          PROVE  Succeeded(c)'
        <3>1. CASE Logged(s, Ev("success", c))
            BY <1>2, <3>1 DEF LogInv, Tells, Succeeded
        <3>2. CASE ~Logged(s, Ev("success", c))
            BY <1>2, <2>2, <3>2, NewlyLogged DEF LogInv, Truthful, Ev, Tells, Succeeded
        <3> QED BY <3>1, <3>2
    <2> QED BY <1>1, <2>1, <2>2 DEF LogInv
<1>3. ASSUME NEW d \in Calls, Begins(d) \/ Ends(d) PROVE LogInv'
    <2>1. /\ log' = log
          /\ \A c \in Calls : phase[c] = "finished" => phase'[c] = phase[c] /\ answer'[c] = answer[c]
          /\ \A c \in Calls : phase[c] = "started" => phase'[c] \in {"started", "finished"}
        BY <1>3 DEF Begins, Ends
    <2>2. \A s, e : Logged(s, e)' => Logged(s, e)
        BY <2>1 DEF Logged
    <2> QED BY <1>1, <2>1, <2>2 DEF LogInv, Succeeded
<1> QED BY <1>2, <1>3, StepKinds

(***************************************************************************)
(* What was read                                                           *)
(***************************************************************************)
\* A delete has ended that no log shows to have ended before w began.
Deleted(w) ==
    \E d \in Calls : /\ Tool(d) = "artifact.delete"
                     /\ phase[d] = "finished"
                     /\ \A s \in Subscribers : ~Before(s, d, w)

Writes == {"artifact.set", "artifact.delete"}

\* The first two conjuncts tell of what is stored, the last two of what was read
\* when it was.
ReadInv ==
    /\ \A s \in Subscribers, w, d \in Calls :
          Tool(d) \in Writes /\ Succeeded(d) /\ Before(s, w, d) => artifact # w
    /\ \A w \in Calls :
          Tool(w) = "artifact.set" /\ Succeeded(w) /\ artifact = NoArtifact => Deleted(w)
    /\ \A s \in Subscribers, r, d \in Calls :
          Tool(r) = "artifact.get" /\ Succeeded(r) =>
              /\ found[r] \in Calls
              /\ ~ (Tool(d) \in Writes /\ Before(s, found[r], d) /\ Before(s, d, r))
    /\ \A s \in Subscribers, r, w \in Calls :
          /\ Tool(r) = "artifact.get" /\ phase[r] = "finished" /\ answer[r] = "handler_error"
          /\ Tool(w) = "artifact.set" /\ Before(s, w, r)
          => Deleted(w)

LEMMA DeletedStays ==
    ASSUME TypeOK, LogInv, NEW w \in Calls, Deleted(w), phase[w] = "finished",
           Tells \/ \E d \in Calls : Begins(d) \/ Ends(d)
    PROVE  Deleted(w)'
<1>1. PICK d \in Calls : /\ Tool(d) = "artifact.delete"
                         /\ phase[d] = "finished"
                         /\ \A s \in Subscribers : ~Before(s, d, w)
    BY DEF Deleted
<1>2. Tool(d)' = "artifact.delete" /\ phase'[d] = "finished"
    BY <1>1 DEF Tells, Begins, Ends, Tool
<1>3. ASSUME NEW s \in Subscribers, Before(s, d, w)' PROVE FALSE
    <2>1. CASE Tells
        BY <1>1, <1>3, <2>1, NewlyBefore
    <2>2. CASE log' = log
        BY <1>1, <1>3, <2>2 DEF Before
    <2> QED BY <2>1, <2>2 DEF Begins, Ends
<1> QED BY <1>2, <1>3 DEF Deleted

\* Publishing what has happened changes no account of it.
LEMMA TellingKeeps == ASSUME TypeOK, LogInv, ReadInv, Tells PROVE ReadInv'
<1>1. /\ UNCHANGED <<phase, answer, artifact, found>>
      /\ \A c : Tool(c)' = Tool(c) /\ (Succeeded(c)' <=> Succeeded(c))
    BY DEF Tells, Tool, Succeeded
<1>2. ASSUME NEW s \in Subscribers, NEW a \in Calls, NEW b \in Calls, Before(s, a, b)',
             phase[b] = "finished"
      PROVE  Before(s, a, b)
    BY <1>2, NewlyBefore
<1>3. ASSUME NEW w \in Calls, Deleted(w), phase[w] = "finished" PROVE Deleted(w)'
    BY <1>3, DeletedStays
<1>4. ASSUME NEW s \in Subscribers, NEW w \in Calls, NEW d \in Calls,
             Tool(d) \in Writes, Succeeded(d), Before(s, w, d)'
      PROVE  artifact # w
    BY <1>2, <1>4 DEF ReadInv, Succeeded
<1>5. ASSUME NEW w \in Calls, Tool(w) = "artifact.set", Succeeded(w), artifact = NoArtifact
      PROVE  Deleted(w)'
    BY <1>3, <1>5 DEF ReadInv, Succeeded
<1>6. ASSUME NEW s \in Subscribers, NEW r \in Calls, NEW d \in Calls, NEW w \in Calls,
             Tool(r) = "artifact.get", Succeeded(r), found[r] = w,
             Tool(d) \in Writes, Before(s, w, d)', Before(s, d, r)'
      PROVE  FALSE
    <2>1. Before(s, d, r)
        BY <1>2, <1>6 DEF Succeeded
    <2>2. Succeeded(d)
        BY <2>1, BeforeIsLogged DEF LogInv
    <2>3. Before(s, w, d)
        BY <1>2, <1>6, <2>2 DEF Succeeded
    <2> QED BY <1>6, <2>1, <2>3 DEF ReadInv
<1>7. ASSUME NEW s \in Subscribers, NEW r \in Calls, NEW w \in Calls,
             Tool(r) = "artifact.get", phase[r] = "finished", answer[r] = "handler_error",
             Tool(w) = "artifact.set", Before(s, w, r)'
      PROVE  Deleted(w)'
    <2>1. Before(s, w, r)
        BY <1>2, <1>7
    <2>2. Deleted(w) /\ phase[w] = "finished"
        BY <1>7, <2>1, BeforeIsLogged DEF ReadInv, LogInv, Succeeded
    <2> QED BY <1>3, <2>2
<1>8. ASSUME NEW s \in Subscribers, NEW r \in Calls, NEW d \in Calls,
             Tool(r) = "artifact.get", Succeeded(r)
      PROVE  /\ found'[r] \in Calls
             /\ ~ (Tool(d) \in Writes /\ Before(s, found[r], d)' /\ Before(s, d, r)')
    <2> DEFINE w == found[r]
    <2>1. w \in Calls /\ found' = found
        BY <1>1, <1>8 DEF ReadInv
    <2>2. Before(s, found[r], d)' => Before(s, w, d)'
        BY <2>1 DEF Before
    <2> QED BY <1>6, <1>8, <2>1, <2>2
<1> QED BY <1>1, <1>4, <1>5, <1>7, <1>8 DEF ReadInv

LEMMA BeginningKeeps ==
    ASSUME TypeOK, LogInv, ReadInv, NEW b \in Calls, Begins(b)
    PROVE  ReadInv'
<1>1. /\ UNCHANGED <<artifact, found, log>>
      /\ \A c : Tool(c)' = Tool(c)
      /\ \A c \in Calls : phase'[c] = "finished" => phase[c] = "finished" /\ answer'[c] = answer[c]
    BY DEF Begins, Tool
<1>2. \A c \in Calls : Succeeded(c)' => Succeeded(c)
    BY <1>1 DEF Succeeded
<1>3. \A s, a, c : Before(s, a, c)' <=> Before(s, a, c)
    BY <1>1 DEF Before
<1>4. ASSUME NEW w \in Calls, Deleted(w), phase[w] = "finished" PROVE Deleted(w)'
    BY <1>4, DeletedStays
<1>5. ASSUME NEW s \in Subscribers, NEW r \in Calls, NEW w \in Calls,
             Tool(r) = "artifact.get", phase'[r] = "finished", answer'[r] = "handler_error",
             Tool(w) = "artifact.set", Before(s, w, r)
      PROVE  Deleted(w)'
    BY <1>1, <1>4, <1>5, BeforeIsLogged DEF ReadInv, LogInv, Succeeded
<1>6. ASSUME NEW w \in Calls, Tool(w) = "artifact.set", Succeeded(w), artifact = NoArtifact
      PROVE  Deleted(w)'
    BY <1>4, <1>6 DEF ReadInv, Succeeded
<1>7. \A s \in Subscribers, r, d \in Calls : Before(s, found[r], d)' <=> Before(s, found[r], d)
    BY <1>1 DEF Before
<1> QED BY <1>1, <1>2, <1>3, <1>5, <1>6, <1>7 DEF ReadInv

\* A write that ends is the last so far, and a read that ends takes what is there.
LEMMA EndingKeeps ==
    ASSUME TypeOK, LogInv, ReadInv, NEW e \in Calls, Ends(e)
    PROVE  ReadInv'
<1>1. /\ log' = log /\ phase[e] = "started" /\ phase'[e] = "finished"
      /\ \A c : Tool(c)' = Tool(c)
      /\ \A c \in Calls \ {e} :
            phase'[c] = phase[c] /\ answer'[c] = answer[c] /\ found'[c] = found[c]
    BY DEF Ends, Tool
<1>2. ~Succeeded(e) /\ \A c \in Calls \ {e} : Succeeded(c)' <=> Succeeded(c)
    BY <1>1 DEF Succeeded
<1>3. \A s, a, c : Before(s, a, c)' <=> Before(s, a, c)
    BY <1>1 DEF Before
<1>4. \A s \in Subscribers, a, c \in Calls : Before(s, a, c) => Succeeded(a) /\ a # e
    BY <1>2, BeforeIsLogged DEF LogInv
<1>5. ASSUME NEW w \in Calls, Deleted(w), w # e, phase'[w] = "finished" PROVE Deleted(w)'
    BY <1>1, <1>5, DeletedStays
<1>6. ASSUME NEW s \in Subscribers, NEW w \in Calls, NEW d \in Calls,
             Tool(d) \in Writes, Succeeded(d)', Before(s, w, d)
      PROVE  artifact' # w
    <2>1. w # e /\ Succeeded(w)
        BY <1>4, <1>6
    <2>2. CASE d # e
        <3>1. artifact # w
            BY <1>2, <1>6, <2>2 DEF ReadInv
        <3> QED BY <2>1, <3>1 DEF Ends
    <2>3. CASE d = e
        <3>1. answer'[e] = "ok"
            BY <1>6, <2>3 DEF Succeeded
        <3>2. artifact' = e \/ artifact' = NoArtifact
            BY <1>6, <2>3, <3>1 DEF Ends, Writes
        <3> QED BY <2>1, <3>2
    <2> QED BY <2>2, <2>3
<1>7. ASSUME NEW w \in Calls, Tool(w) = "artifact.set", Succeeded(w)', artifact' = NoArtifact
      PROVE  Deleted(w)'
    <2>1. w # e
        BY <1>7 DEF Ends, Succeeded
    <2>2. Succeeded(w)
        BY <1>2, <1>7, <2>1
    <2>3. CASE artifact = NoArtifact
        <3>1. Deleted(w)
            BY <1>7, <2>2, <2>3 DEF ReadInv
        <3> QED BY <1>1, <1>5, <2>1, <2>2, <3>1 DEF Succeeded
    <2>4. CASE artifact # NoArtifact
        <3>1. Tool(e) = "artifact.delete"
            BY <1>7, <2>4 DEF Ends
        <3>2. \A s \in Subscribers : ~Before(s, e, w)
            BY <1>4
        <3> QED BY <1>1, <1>3, <3>1, <3>2 DEF Deleted
    <2> QED BY <2>3, <2>4
<1>8. ASSUME NEW s \in Subscribers, NEW r \in Calls, NEW d \in Calls,
             Tool(r) = "artifact.get", Succeeded(r)'
      PROVE  /\ found'[r] \in Calls
             /\ ~ (Tool(d) \in Writes /\ Before(s, found'[r], d) /\ Before(s, d, r))
    <2>1. CASE r # e
        BY <1>1, <1>2, <1>8, <2>1 DEF ReadInv
    <2>2. CASE r = e
        <3>1. found'[r] = artifact /\ artifact \in Calls
            BY <1>8, <2>2 DEF Ends, Succeeded, TypeOK
        <3>2. ASSUME Tool(d) \in Writes, Before(s, artifact, d), Before(s, d, r) PROVE FALSE
            BY <1>4, <3>1, <3>2 DEF ReadInv
        <3> QED BY <3>1, <3>2
    <2> QED BY <2>1, <2>2
<1>9. ASSUME NEW s \in Subscribers, NEW r \in Calls, NEW w \in Calls,
             Tool(r) = "artifact.get", phase'[r] = "finished", answer'[r] = "handler_error",
             Tool(w) = "artifact.set", Before(s, w, r)
      PROVE  Deleted(w)'
    <2>1. w # e /\ Succeeded(w)
        BY <1>4, <1>9
    <2>2. Deleted(w)
        <3>1. CASE r # e
            BY <1>1, <1>9, <3>1 DEF ReadInv
        <3>2. CASE r = e
            BY <1>9, <2>1, <3>2 DEF ReadInv, Ends
        <3> QED BY <3>1, <3>2
    <2> QED BY <1>1, <1>5, <2>1, <2>2 DEF Succeeded
<1>10. \A s \in Subscribers, r, d \in Calls : Before(s, found[r], d)' <=> Before(s, found'[r], d)
    BY <1>1 DEF Before
<1> QED BY <1>1, <1>3, <1>6, <1>7, <1>8, <1>9, <1>10 DEF ReadInv

\* However calls overlap and whichever events a subscriber lost, no read returns
\* what its log shows replaced before the read began, and none misses what the log
\* shows stored unless a delete may have come between.
THEOREM LogIsAnAccount == Spec => []ReadsAgreeWithTheLog
<1>1. Init => LogInv /\ ReadInv
    <2> SUFFICES ASSUME Init PROVE LogInv /\ ReadInv
        OBVIOUS
    <2>1. \A p \in Calls : ~Publishing(p) /\ phase[p] = "idle" /\ answer[p] = "none"
        BY DEF Init, BusInit, Publishing, Calls
    <2>2. \A s \in Subscribers : \A e : ~Logged(s, e)
        BY DEF Init, BusInit, Logged
    <2>3. LogInv
        BY <2>1, <2>2 DEF LogInv, Truthful
    <2> QED BY <2>1, <2>2, <2>3, BeforeIsLogged DEF ReadInv, Succeeded
<1>2. TypeOK /\ LogInv /\ ReadInv /\ [Next]_vars => LogInv' /\ ReadInv'
    BY LogInvStep, StepKinds, TellingKeeps, BeginningKeeps, EndingKeeps
<1>3. LogInv /\ ReadInv => ReadsAgreeWithTheLog
    <2> SUFFICES ASSUME ReadInv, NEW s \in Subscribers, NEW r \in Calls,
                        Tool(r) = "artifact.get", phase[r] = "finished"
                 PROVE  /\ answer[r] = "ok" =>
                             ~ \E d \in Calls : /\ Tool(d) \in Writes
                                                /\ Before(s, found[r], d)
                                                /\ Before(s, d, r)
                        /\ answer[r] = "handler_error" =>
                             \A w \in Calls : Tool(w) = "artifact.set" /\ Before(s, w, r) =>
                                 \E d \in Calls : /\ Tool(d) = "artifact.delete"
                                                  /\ phase[d] = "finished"
                                                  /\ ~Before(s, d, w)
        BY DEF ReadsAgreeWithTheLog, At, Writes
    <2>1. \A w \in Calls : Deleted(w) => \E d \in Calls : /\ Tool(d) = "artifact.delete"
                                                       /\ phase[d] = "finished"
                                                       /\ ~Before(s, d, w)
        BY DEF Deleted
    <2> QED BY <2>1 DEF ReadInv, Succeeded
<1> QED BY <1>1, <1>2, <1>3, TypeCorrect, PTL DEF Spec

(***************************************************************************)
(* What a log tells of one call                                            *)
(***************************************************************************)
\* A call publishes the next event of its story.
Announces(d, e) ==
    /\ StartPublish(d, e)
    /\ e.call = d
    /\ Story(d)' = Append(Story(d), e)
    /\ \A a \in DOMAIN Story(d) : Story(d)[a] # e
    /\ \A c \in Calls \ {d} : Story(c)' = Story(c)

StoriesStay == \A c \in Calls : Story(c)' = Story(c)

LEMMA StoryStays ==
    ASSUME NEW c, phase'[c] = phase[c], answer'[c] = answer[c]
    PROVE  Story(c)' = Story(c)
BY DEF Story

LEMMA StoryOf ==
    ASSUME NEW c \in Calls
    PROVE  Story(c) \in Seq(Events) /\ DOMAIN Story(c) = 1 .. Len(Story(c)) /\ Len(Story(c)) \in Nat
<1>1. \A t \in EventTypes : Ev(t, c) \in Events
    BY DEF Ev, Events
<1>2. Story(c) \in Seq(Events)
    BY <1>1 DEF Story, EventTypes
<1> QED BY <1>2

LEMMA EventsDiffer == \A t, u, c, d : Ev(t, c) = Ev(u, d) => t = u /\ c = d
<1> SUFFICES ASSUME NEW t, NEW u, NEW c, NEW d, Ev(t, c) = Ev(u, d) PROVE t = u /\ c = d
    OBVIOUS
<1>1. /\ Ev(t, c).type = t /\ Ev(t, c).call = c
      /\ Ev(u, d).type = u /\ Ev(u, d).call = d
    BY DEF Ev
<1> QED BY <1>1

LEMMA FinishAnnounces ==
    ASSUME TypeOK, NEW d \in Calls, At(d, "started"), NEW a \in Answers,
           Finish(d, a, IF a = "ok" THEN "success" ELSE "failure")
    PROVE  \E e \in Events : Announces(d, e)
<1> DEFINE e == Ev(IF a = "ok" THEN "success" ELSE "failure", d)
<1>1. /\ phase[d] = "started" /\ phase'[d] = "finished" /\ answer'[d] = a
      /\ \A c \in Calls \ {d} : phase'[c] = phase[c] /\ answer'[c] = answer[c]
    BY FinishEnds
<1>2. StartPublish(d, e)
    BY DEF Finish
<1>3. Story(d) = <<Ev("started", d)>> /\ Story(d)' = <<Ev("started", d), e>>
    BY <1>1 DEF Story
<1>4. e \in Events /\ e.call = d
    BY DEF Ev, Events, EventTypes
<1>5. Ev("started", d) # e
    BY EventsDiffer
<1> HIDE DEF e
<1>6. Story(d)' = Append(Story(d), e) /\ \A i \in DOMAIN Story(d) : Story(d)[i] # e
    BY <1>3, <1>5
<1> QED BY <1>1, <1>2, <1>4, <1>6, StoryStays DEF Announces

LEMMA BeginningAnnounces ==
    ASSUME TypeOK, NEW d \in Calls, Deny(d) \/ Start(d)
    PROVE  \E e \in Events : Announces(d, e)
<1>1. PICK t \in {"denied", "started"} :
          /\ phase[d] = "idle" /\ phase'[d] = t
          /\ \A c \in Calls \ {d} : phase'[c] = phase[c] /\ answer'[c] = answer[c]
          /\ StartPublish(d, Ev(t, d))
    BY DEF Deny, Start, At, TypeOK
<1>2. Story(d) = << >> /\ Story(d)' = <<Ev(t, d)>>
    BY <1>1 DEF Story
<1>3. Ev(t, d) \in Events /\ Ev(t, d).call = d
    BY DEF Ev, Events, EventTypes
<1> QED BY <1>1, <1>2, <1>3, StoryStays DEF Announces

LEMMA StepTells ==
    ASSUME TypeOK, [Next]_vars
    PROVE  \/ \E d \in Calls, e \in Events : Announces(d, e)
           \/ StoriesStay /\ \E d \in Calls : StartPublish(d, Ev("progress", NoCall))
           \/ StoriesStay /\ \E d \in Calls, s \in Subscribers : Deliver(d, s)
           \/ StoriesStay /\ UNCHANGED <<log, todo, event>>
<1> DEFINE Goal == \/ \E d \in Calls, e \in Events : Announces(d, e)
                   \/ StoriesStay /\ \E d \in Calls : StartPublish(d, Ev("progress", NoCall))
                   \/ StoriesStay /\ \E d \in Calls, s \in Subscribers : Deliver(d, s)
                   \/ StoriesStay /\ UNCHANGED <<log, todo, event>>
<1>1. ASSUME NEW d \in Calls, Deny(d) \/ Start(d) PROVE Goal
    BY <1>1, BeginningAnnounces
<1>2. ASSUME NEW d \in Calls, NotFound(d) PROVE Goal
    <2>1. /\ phase[d] = "idle" /\ phase'[d] = "unknown"
          /\ \A c \in Calls \ {d} : phase'[c] = phase[c] /\ answer'[c] = answer[c]
          /\ UNCHANGED <<log, todo, event>>
        BY <1>2 DEF NotFound, At, busVars, TypeOK
    <2>2. Story(d) = << >> /\ Story(d)' = << >>
        BY <2>1 DEF Story
    <2>3. StoriesStay
        BY <2>1, <2>2, StoryStays DEF StoriesStay
    <2> QED BY <2>1, <2>3
<1>3. ASSUME UNCHANGED <<phase, answer>> PROVE StoriesStay
    BY <1>3, StoryStays DEF StoriesStay
<1>4. ASSUME NEW d \in Calls, Offer(d) PROVE Goal
    BY <1>3, <1>4 DEF Offer, callVars
<1>5. ASSUME NEW d \in Calls, RebuildProgress(d) PROVE Goal
    BY <1>3, <1>5 DEF RebuildProgress
<1>6. ASSUME NEW d \in Calls,
             HandlerPanics(d) \/ HandlerRefuses(d) \/ RebuildEnds(d) \/ Set(d) \/ Get(d) \/ Delete(d)
      PROVE  Goal
    <2>1. PICK a \in {"ok", "invalid_argument", "handler_error"} :
              At(d, "started") /\ Finish(d, a, IF a = "ok" THEN "success" ELSE "failure")
        BY <1>6 DEF HandlerPanics, HandlerRefuses, RebuildEnds, Set, Get, Delete
    <2>2. a \in Answers
        BY DEF Answers
    <2> QED BY <2>1, <2>2, FinishAnnounces
<1>7. ASSUME NEW s \in Subscribers, Watch(s) PROVE Goal
    BY <1>3, <1>7 DEF Watch, Subscribe, Cancel, Receive, callVars
<1>8. ASSUME UNCHANGED vars PROVE Goal
    BY <1>3, <1>8 DEF vars, busVars, callVars
<1> HIDE DEF Goal
<1>9. ASSUME NEW d \in Calls, Serve(d) PROVE Goal
    BY <1>1, <1>2, <1>4, <1>5, <1>6, <1>9 DEF Serve
<1>10. Goal
    BY <1>7, <1>8, <1>9 DEF Next
<1> QED BY <1>10 DEF Goal

\* What subscriber s was sent about call c is a piece of the call's story.
TellsOneStory(s, c) ==
    \E place \in [About(s, c) -> DOMAIN Story(c)] :
        /\ \A i \in About(s, c) : log[s][i] = Story(c)[place[i]]
        /\ \A i, j \in About(s, c) : i < j => place[i] < place[j]

\* What a call is publishing is the last event of its story, and the channels it
\* has yet to offer it to have not been sent it.
TellsTheLatest(p) ==
    Publishing(p) /\ event[p].call # NoCall =>
        /\ event[p].call = p
        /\ Story(p) # << >>
        /\ event[p] = Story(p)[Len(Story(p))]
        /\ \A s \in todo[p] : ~Logged(s, event[p])

StoryInv ==
    /\ \A s \in Subscribers, c \in Calls : TellsOneStory(s, c)
    /\ \A p \in Calls : TellsTheLatest(p)

\* What is logged of a call is part of its story.
LEMMA LoggedIsTold ==
    ASSUME NEW s \in Subscribers, NEW c \in Calls, TellsOneStory(s, c),
           NEW e, e.call = c, Logged(s, e)
    PROVE  \E a \in DOMAIN Story(c) : Story(c)[a] = e
<1>1. PICK i \in 1 .. Len(log[s]) : log[s][i] = e
    BY DEF Logged
<1>2. i \in About(s, c)
    BY <1>1 DEF About
<1> QED BY <1>1, <1>2 DEF TellsOneStory

\* A story that goes on still tells what is in the logs.
LEMMA LongerStoryTells ==
    ASSUME NEW s \in Subscribers, NEW c \in Calls, TellsOneStory(s, c), log' = log,
           NEW e \in Events, Story(c)' = Append(Story(c), e)
    PROVE  TellsOneStory(s, c)'
<1>1. PICK place \in [About(s, c) -> DOMAIN Story(c)] :
          /\ \A i \in About(s, c) : log[s][i] = Story(c)[place[i]]
          /\ \A i, j \in About(s, c) : i < j => place[i] < place[j]
    BY DEF TellsOneStory
<1>2. About(s, c)' = About(s, c)
    BY DEF About
<1>3. /\ DOMAIN Story(c) \subseteq DOMAIN Append(Story(c), e)
      /\ \A a \in DOMAIN Story(c) : Append(Story(c), e)[a] = Story(c)[a]
    BY StoryOf
<1>4. place \in [About(s, c) -> DOMAIN Append(Story(c), e)]
    BY <1>1, <1>3
<1>5. \A i \in About(s, c) : log[s][i] = Append(Story(c), e)[place[i]]
    BY <1>1, <1>3
<1> QED BY <1>1, <1>2, <1>4, <1>5 DEF TellsOneStory

LEMMA AnnouncingTells ==
    ASSUME TypeOK, StoryInv, NEW d \in Calls, NEW e \in Events, Announces(d, e)
    PROVE  StoryInv'
<1>1. /\ ~Publishing(d) /\ log' = log /\ event'[d] = e
      /\ \A p \in Calls \ {d} : event'[p] = event[p] /\ todo'[p] = todo[p]
      /\ todo' \in [Calls -> SUBSET Subscribers]
    <2>1. open \in SUBSET Subscribers
        BY DEF TypeOK, BusTypeOK
    <2> QED BY <2>1 DEF Announces, StartPublish, TypeOK, BusTypeOK, Calls
<1>2. ASSUME NEW s \in Subscribers, NEW c \in Calls PROVE TellsOneStory(s, c)'
    <2>1. TellsOneStory(s, c)
        BY DEF StoryInv
    <2>2. CASE c = d
        BY <1>1, <2>1, <2>2, LongerStoryTells DEF Announces
    <2>3. CASE c # d
        <3>1. Story(c)' = Story(c) /\ About(s, c)' = About(s, c)
            BY <1>1, <2>3 DEF Announces, About
        <3> QED BY <1>1, <2>1, <3>1 DEF TellsOneStory
    <2> QED BY <2>2, <2>3
<1>3. TellsTheLatest(d)'
    <2>1. /\ Story(d)' = Append(Story(d), e)
          /\ Append(Story(d), e) # << >>
          /\ e = Append(Story(d), e)[Len(Append(Story(d), e))]
        BY StoryOf DEF Announces
    <2>2. \A s \in Subscribers : ~Logged(s, e)
        BY LoggedIsTold DEF StoryInv, Announces
    <2>3. \A s \in todo'[d] : ~Logged(s, e)'
        BY <1>1, <2>2 DEF Logged
    <2>4. e.call = d
        BY DEF Announces
    <2>5. Story(d)'[Len(Story(d)')] = e
        BY <2>1
    <2> QED BY <1>1, <2>1, <2>3, <2>4, <2>5 DEF TellsTheLatest
<1>4. ASSUME NEW p \in Calls \ {d} PROVE TellsTheLatest(p)'
    <2>1. Story(p)' = Story(p)
        BY DEF Announces
    <2>2. \A s \in Subscribers : Logged(s, event[p])' <=> Logged(s, event[p])
        BY <1>1 DEF Logged
    <2>3. todo[p] \subseteq Subscribers
        BY DEF TypeOK, BusTypeOK, Calls
    <2>4. TellsTheLatest(p)
        BY DEF StoryInv
    <2> QED BY <1>1, <2>1, <2>2, <2>3, <2>4 DEF TellsTheLatest, Publishing
<1> QED BY <1>2, <1>3, <1>4 DEF StoryInv

\* A progress event is about no call.
LEMMA ProgressTells ==
    ASSUME TypeOK, StoryInv, StoriesStay, NEW d \in Calls, StartPublish(d, Ev("progress", NoCall))
    PROVE  StoryInv'
<1>1. /\ log' = log /\ event'[d] = Ev("progress", NoCall)
      /\ \A p \in Calls \ {d} : event'[p] = event[p] /\ todo'[p] = todo[p]
    BY DEF StartPublish, TypeOK, BusTypeOK, Calls
<1>2. ASSUME NEW s \in Subscribers, NEW c \in Calls PROVE TellsOneStory(s, c)'
    <2>1. Story(c)' = Story(c) /\ About(s, c)' = About(s, c)
        BY <1>1 DEF StoriesStay, About
    <2> QED BY <1>1, <2>1 DEF TellsOneStory, StoryInv
<1>3. TellsTheLatest(d)'
    BY <1>1 DEF TellsTheLatest, Ev
<1>4. ASSUME NEW p \in Calls \ {d} PROVE TellsTheLatest(p)'
    <2>1. Story(p)' = Story(p)
        BY DEF StoriesStay
    <2>2. \A s : Logged(s, event[p])' <=> Logged(s, event[p])
        BY <1>1 DEF Logged
    <2>3. TellsTheLatest(p)
        BY DEF StoryInv
    <2> QED BY <1>1, <2>1, <2>2, <2>3 DEF TellsTheLatest, Publishing
<1> QED BY <1>2, <1>3, <1>4 DEF StoryInv

\* The last event of a story joins a log that has it not.
LEMMA TellingTheLatest ==
    ASSUME TypeOK, StoryInv, StoriesStay, NEW d \in Calls, NEW s \in Subscribers,
           s \in todo[d], log'[s] = Append(log[s], event[d]), event[d].call = d
    PROVE  TellsOneStory(s, d)'
<1> DEFINE n == Len(Story(d))
           k == Len(log[s]) + 1
<1>1. /\ d # NoCall /\ Publishing(d)
      /\ log[s] \in Seq(Events) /\ Len(log[s]) \in Nat /\ event[d] \in Events
    BY LogOf DEF Publishing, TypeOK, BusTypeOK, Calls
<1>2. /\ Story(d) # << >> /\ event[d] = Story(d)[n] /\ ~Logged(s, event[d])
      /\ TellsOneStory(s, d)
    BY <1>1 DEF StoryInv, TellsTheLatest
<1>3. n \in DOMAIN Story(d) /\ DOMAIN Story(d) = 1 .. n /\ n \in Nat
    BY <1>2, StoryOf
<1>4. PICK place \in [About(s, d) -> DOMAIN Story(d)] :
          /\ \A i \in About(s, d) : log[s][i] = Story(d)[place[i]]
          /\ \A i, j \in About(s, d) : i < j => place[i] < place[j]
    BY <1>2 DEF TellsOneStory
<1>5. \A i \in About(s, d) : i \in 1 .. Len(log[s]) /\ i < k /\ place[i] \in 1 .. n /\ place[i] < n
    <2> SUFFICES ASSUME NEW i \in About(s, d)
                 PROVE  i \in 1 .. Len(log[s]) /\ i < k /\ place[i] \in 1 .. n /\ place[i] < n
        OBVIOUS
    <2>1. i \in 1 .. Len(log[s]) /\ place[i] \in 1 .. n
        BY <1>3, <1>4 DEF About
    <2>2. log[s][i] # event[d]
        BY <1>2, <2>1 DEF Logged
    <2>3. place[i] # n
        BY <1>2, <1>4, <2>2
    <2> QED BY <1>1, <1>3, <2>1, <2>3
<1>6. /\ Len(log'[s]) = k /\ log'[s][k] = event[d]
      /\ \A i \in 1 .. Len(log[s]) : log'[s][i] = log[s][i]
    BY <1>1
<1>7. About(s, d)' = About(s, d) \cup {k}
    <2>1. 1 .. Len(log'[s]) = (1 .. Len(log[s])) \cup {k}
        BY <1>1, <1>6
    <2> QED BY <1>6, <2>1 DEF About
<1> DEFINE further == [i \in About(s, d) \cup {k} |-> IF i = k THEN n ELSE place[i]]
<1>8. further \in [About(s, d) \cup {k} -> DOMAIN Story(d)]
    BY <1>3, <1>4
<1>9. k \in Nat /\ \A i \in About(s, d) : i # k /\ ~(k < i)
    BY <1>1, <1>5
<1>10. \A i \in About(s, d) \cup {k} : log'[s][i] = Story(d)[further[i]]
    BY <1>2, <1>4, <1>5, <1>6, <1>9
<1>11. \A i, j \in About(s, d) \cup {k} : i < j => further[i] < further[j]
    BY <1>4, <1>5, <1>9
<1>12. Story(d)' = Story(d)
    BY DEF StoriesStay
<1> HIDE DEF n, k, further
<1> QED BY <1>7, <1>8, <1>10, <1>11, <1>12 DEF TellsOneStory

LEMMA DeliveringTells ==
    ASSUME TypeOK, StoryInv, StoriesStay, NEW d \in Calls, NEW s \in Subscribers, Deliver(d, s)
    PROVE  StoryInv'
<1>1. /\ s \in todo[d] /\ event' = event
      /\ todo'[d] = todo[d] \ {s} /\ \A p \in Calls \ {d} : todo'[p] = todo[p]
      /\ \A t \in Subscribers \ {s} : log'[t] = log[t]
      /\ log'[s] = log[s] \/ log'[s] = Append(log[s], event[d])
    BY DEF Deliver, Offered, Send, Drop, TypeOK, BusTypeOK, Calls
<1>2. /\ event[d] \in Events /\ log[s] \in Seq(Events) /\ Len(log[s]) \in Nat
      /\ \A p \in Calls : todo[p] \subseteq Subscribers
    BY LogOf DEF TypeOK, BusTypeOK, Calls
<1>3. event[d].call = NoCall \/ event[d].call = d
    BY <1>1 DEF StoryInv, TellsTheLatest, Publishing
<1>4. ASSUME NEW t \in Subscribers, NEW c \in Calls PROVE TellsOneStory(t, c)'
    <2>1. TellsOneStory(t, c) /\ Story(c)' = Story(c)
        BY DEF StoryInv, StoriesStay
    <2>2. CASE log'[t] = log[t]
        <3>1. About(t, c)' = About(t, c)
            BY <2>2 DEF About
        <3> QED BY <2>1, <2>2, <3>1 DEF TellsOneStory
    <2>3. CASE t = s /\ log'[s] = Append(log[s], event[d]) /\ event[d].call # c
        <3>1. /\ Len(log'[s]) = Len(log[s]) + 1
              /\ log'[s][Len(log[s]) + 1] = event[d]
              /\ \A i \in 1 .. Len(log[s]) : log'[s][i] = log[s][i]
            BY <1>2, <2>3
        <3>2. 1 .. Len(log'[s]) = (1 .. Len(log[s])) \cup {Len(log[s]) + 1}
            BY <1>2, <3>1
        <3>3. About(s, c)' = About(s, c)
            BY <2>3, <3>1, <3>2 DEF About
        <3>4. \A i \in About(s, c) : log'[s][i] = log[s][i]
            BY <3>1 DEF About
        <3>5. PICK place \in [About(s, c) -> DOMAIN Story(c)] :
                  /\ \A i \in About(s, c) : log[s][i] = Story(c)[place[i]]
                  /\ \A i, j \in About(s, c) : i < j => place[i] < place[j]
            BY <2>1, <2>3 DEF TellsOneStory
        <3>6. TellsOneStory(s, c)'
            BY <2>1, <3>3, <3>4, <3>5 DEF TellsOneStory
        <3> QED BY <2>3, <3>6
    <2>4. CASE t = s /\ log'[s] = Append(log[s], event[d]) /\ event[d].call = c
        BY <1>1, <1>3, <2>4, TellingTheLatest DEF Calls
    <2> QED BY <1>1, <2>2, <2>3, <2>4
<1>5. ASSUME NEW p \in Calls PROVE TellsTheLatest(p)'
    <2> SUFFICES ASSUME todo'[p] # {}, event[p].call # NoCall
                 PROVE  TellsTheLatest(p)'
        BY <1>1 DEF TellsTheLatest, Publishing
    <2>1. /\ event[p].call = p /\ Story(p) # << >> /\ event[p] = Story(p)[Len(Story(p))]
          /\ \A t \in todo[p] : ~Logged(t, event[p])
        BY <1>1 DEF StoryInv, TellsTheLatest, Publishing
    <2>2. ASSUME NEW t \in todo'[p], Logged(t, event[p])' PROVE FALSE
        <3>1. t \in todo[p] /\ t \in Subscribers /\ ~Logged(t, event[p])
            BY <1>1, <1>2, <2>1
        <3>2. t = s /\ log'[s] = Append(log[s], event[d])
            BY <1>1, <2>2, <3>1 DEF Logged
        <3>3. PICK i \in 1 .. Len(log'[s]) : log'[s][i] = event[p]
            BY <2>2, <3>2, <1>1 DEF Logged
        <3>4. log'[s][i] = event[d]
            BY <1>2, <3>1, <3>2, <3>3, AppendedLog DEF Logged
        <3>5. p = d
            BY <1>3, <2>1, <3>3, <3>4
        <3> QED BY <1>1, <3>2, <3>5
    <2>3. Story(p)' = Story(p)
        BY DEF StoriesStay
    <2> QED BY <1>1, <2>1, <2>2, <2>3 DEF TellsTheLatest
<1> QED BY <1>4, <1>5 DEF StoryInv

\* What a subscriber was sent about one call is a piece of the call's story, for
\* any calls and subscribers: a denial and nothing else, or a start followed by one
\* outcome, the one its caller gets.  CallTool publishes an event only when the one
\* before has been offered to every channel, so none is overtaken.
THEOREM LogsTellOneStory == Spec => []EachCallTellsOneStory
<1>1. Init => StoryInv
    <2> SUFFICES ASSUME Init PROVE StoryInv
        OBVIOUS
    <2>1. \A p \in Calls : ~Publishing(p)
        BY DEF Init, BusInit, Publishing, Calls
    <2>2. ASSUME NEW s \in Subscribers, NEW c \in Calls PROVE TellsOneStory(s, c)
        <3>1. About(s, c) = {}
            BY DEF Init, BusInit, About
        <3>2. [i \in {} |-> 1] \in [{} -> DOMAIN Story(c)]
            OBVIOUS
        <3> QED BY <3>1, <3>2 DEF TellsOneStory
    <2> QED BY <2>1, <2>2 DEF StoryInv, TellsTheLatest
<1>2. TypeOK /\ StoryInv /\ [Next]_vars => StoryInv'
    <2> SUFFICES ASSUME TypeOK, StoryInv, [Next]_vars PROVE StoryInv'
        OBVIOUS
    <2>1. CASE StoriesStay /\ UNCHANGED <<log, todo, event>>
        <3>1. \A s \in Subscribers, c \in Calls : About(s, c)' = About(s, c)
            BY <2>1 DEF About
        <3>2. \A s \in Subscribers, c \in Calls : TellsOneStory(s, c)'
            BY <2>1, <3>1 DEF StoriesStay, StoryInv, TellsOneStory
        <3>3. \A p \in Calls : TellsTheLatest(p)'
            BY <2>1 DEF StoriesStay, StoryInv, TellsTheLatest, Publishing, Logged
        <3> QED BY <3>2, <3>3 DEF StoryInv
    <2> QED BY <2>1, StepTells, AnnouncingTells, ProgressTells, DeliveringTells
<1>3. StoryInv => EachCallTellsOneStory
    BY DEF StoryInv, TellsOneStory, EachCallTellsOneStory
<1> QED BY <1>1, <1>2, <1>3, TypeCorrect, PTL DEF Spec

=============================================================================
