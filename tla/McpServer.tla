----------------------------- MODULE McpServer -----------------------------
(***************************************************************************)
(* The MCP server: CallTool (internal/mcp/server.go) with its authorizer   *)
(* (authz.go), the tool handlers that change or read shared state          *)
(* (tools.go, store.go) and the events a call publishes on the bus.        *)
(*                                                                         *)
(* Each request is served by a goroutine of its own.  A call publishes its *)
(* start before the handler runs and its outcome after, and between these  *)
(* it may be overtaken anywhere by other calls and by subscribers who come *)
(* and go.  The artifact tools work on one artifact id: handlers of        *)
(* different ids do not touch each other.                                  *)
(*                                                                         *)
(* An event names its call, as it does for a client that gives its         *)
(* requests distinct ids; a progress event names none (tools.go:460).      *)
(***************************************************************************)
EXTENDS EventBus

CONSTANTS
    Principals,
    Granted,        \* Granted[p]: the tools p may call, by its own or a wildcard rule
    Batches,        \* most progress events one rebuild publishes
    Arrivals,       \* the requests the calls may bring
    NoArtifact,     \* nothing is stored under the artifact id
    NoCall          \* no request id

Calls == Publishers
Tools == {"artifact.set", "artifact.get", "artifact.delete", "vector.rebuild"}
Requests == [tool : Tools \cup {"no.such.tool"}, principal : Principals]
Answers == {"none", "ok", "invalid_argument", "handler_error", "unauthorized", "unknown_tool"}

ASSUME McpAssumption ==
    /\ Granted \in [Principals -> SUBSET (Tools \cup {"no.such.tool"})]
    /\ Batches \in Nat
    /\ Arrivals \subseteq [Calls -> Requests]
    /\ NoArtifact \notin Calls
    /\ NoCall \notin Calls

EventTypes == {"started", "success", "failure", "denied", "progress"}
Events == [type : EventTypes, call : Calls \cup {NoCall}]
Ev(type, c) == [type |-> type, call |-> c]

VARIABLES
    request,        \* what each call asks for
    phase,          \* where its goroutine is
    answer,         \* the result it will return
    progress,       \* progress events its handler has published
    audience,       \* history: the channels open when the call was announced
    artifact,       \* the call whose payload is stored, or NoArtifact
    found           \* the payload a call of artifact.get returned

callVars == <<request, phase, answer, progress, audience, artifact, found>>
vars == <<busVars, callVars>>

Phases == {"idle", "started", "denied", "finished", "unknown"}

TypeOK ==
    /\ BusTypeOK(Events)
    /\ request \in [Calls -> Requests]
    /\ phase \in [Calls -> Phases]
    /\ answer \in [Calls -> Answers]
    /\ progress \in [Calls -> 0 .. Batches]
    /\ audience \in [Calls -> SUBSET Subscribers]
    /\ artifact \in Calls \cup {NoArtifact}
    /\ found \in [Calls -> Calls \cup {NoArtifact}]

Init ==
    /\ BusInit(Ev("started", NoCall))
    /\ request \in Arrivals
    /\ phase = [c \in Calls |-> "idle"]
    /\ answer = [c \in Calls |-> "none"]
    /\ progress = [c \in Calls |-> 0]
    /\ audience = [c \in Calls |-> {}]
    /\ artifact = NoArtifact
    /\ found = [c \in Calls |-> NoArtifact]

Tool(c) == request[c].tool

CanAccess(c) == Tool(c) \in Granted[request[c].principal]

\* What the goroutine does next waits for the publication under way.
At(c, ph) == phase[c] = ph /\ ~Publishing(c)

Returned(c) == At(c, "denied") \/ At(c, "finished") \/ At(c, "unknown")

(***************************************************************************)
(* CallTool                                                                *)
(***************************************************************************)
\* Mutant: a denied call is reported and then served.
DenyFallsThrough(c) ==
    /\ At(c, "idle")
    /\ ~CanAccess(c)
    /\ phase' = [phase EXCEPT ![c] = "started"]
    /\ answer' = [answer EXCEPT ![c] = "unauthorized"]
    /\ StartPublish(c, Ev("denied", c))
    /\ UNCHANGED <<request, progress, audience, artifact, found>>

Deny(c) ==
    /\ At(c, "idle")
    /\ ~CanAccess(c)
    /\ phase' = [phase EXCEPT ![c] = "denied"]
    /\ answer' = [answer EXCEPT ![c] = "unauthorized"]
    /\ StartPublish(c, Ev("denied", c))
    /\ UNCHANGED <<request, progress, audience, artifact, found>>

\* An unknown tool is answered without an event.
NotFound(c) ==
    /\ At(c, "idle")
    /\ CanAccess(c)
    /\ Tool(c) \notin Tools
    /\ phase' = [phase EXCEPT ![c] = "unknown"]
    /\ answer' = [answer EXCEPT ![c] = "unknown_tool"]
    /\ UNCHANGED <<busVars, request, progress, audience, artifact, found>>

Start(c) ==
    /\ At(c, "idle")
    /\ CanAccess(c)
    /\ Tool(c) \in Tools
    /\ phase' = [phase EXCEPT ![c] = "started"]
    /\ audience' = [audience EXCEPT ![c] = open]
    /\ StartPublish(c, Ev("started", c))
    /\ UNCHANGED <<request, answer, progress, artifact, found>>

\* The deferred function: the event after the handler has ended.
Finish(c, a, type) ==
    /\ phase' = [phase EXCEPT ![c] = "finished"]
    /\ answer' = [answer EXCEPT ![c] = a]
    /\ StartPublish(c, Ev(type, c))
    /\ UNCHANGED <<request, progress, audience>>

\* Mutant: the recovered panic becomes the answer, the event stays a success.
HandlerPanicsUntold(c) ==
    /\ At(c, "started")
    /\ Tool(c) = "vector.rebuild"
    /\ Finish(c, "handler_error", "success")
    /\ UNCHANGED <<artifact, found>>

\* The deferred function recovers whatever the handler panics with.  The
\* artifact handlers run no code that could panic.
HandlerPanics(c) ==
    /\ At(c, "started")
    /\ Tool(c) = "vector.rebuild"
    /\ Finish(c, "handler_error", "failure")
    /\ UNCHANGED <<artifact, found>>

\* The handler refuses its arguments.
HandlerRefuses(c) ==
    /\ At(c, "started")
    /\ Finish(c, "invalid_argument", "failure")
    /\ UNCHANGED <<artifact, found>>

(***************************************************************************)
(* The handlers.  A store operation holds the store's own lock throughout. *)
(***************************************************************************)
\* Mutant: the handler reports an update it does not make.
SetForgets(c) ==
    /\ At(c, "started")
    /\ Tool(c) = "artifact.set"
    /\ Finish(c, "ok", "success")
    /\ UNCHANGED <<artifact, found>>

Set(c) ==
    /\ At(c, "started")
    /\ Tool(c) = "artifact.set"
    /\ artifact' = c
    /\ Finish(c, "ok", "success")
    /\ UNCHANGED found

Get(c) ==
    /\ At(c, "started")
    /\ Tool(c) = "artifact.get"
    /\ found' = [found EXCEPT ![c] = artifact]
    /\ \/ artifact # NoArtifact /\ Finish(c, "ok", "success")
       \/ artifact = NoArtifact /\ Finish(c, "handler_error", "failure")
    /\ UNCHANGED artifact

Delete(c) ==
    /\ At(c, "started")
    /\ Tool(c) = "artifact.delete"
    /\ artifact' = NoArtifact
    /\ \/ artifact # NoArtifact /\ Finish(c, "ok", "success")
       \/ artifact = NoArtifact /\ Finish(c, "handler_error", "failure")
    /\ UNCHANGED found

\* A rebuild reports a batch.
RebuildProgress(c) ==
    /\ At(c, "started")
    /\ Tool(c) = "vector.rebuild"
    /\ progress[c] < Batches
    /\ progress' = [progress EXCEPT ![c] = @ + 1]
    /\ StartPublish(c, Ev("progress", NoCall))
    /\ UNCHANGED <<request, phase, answer, audience, artifact, found>>

RebuildEnds(c) ==
    /\ At(c, "started")
    /\ Tool(c) = "vector.rebuild"
    /\ Finish(c, "ok", "success") \/ Finish(c, "handler_error", "failure")
    /\ UNCHANGED <<artifact, found>>

Offer(c) == (\E s \in Subscribers : Deliver(c, s)) /\ UNCHANGED callVars

\* What the goroutine of a call does once the request has arrived.
Serve(c) ==
    \/ Deny(c) \/ NotFound(c) \/ Start(c)
    \/ Offer(c)
    \/ HandlerPanics(c) \/ HandlerRefuses(c)
    \/ Set(c) \/ Get(c) \/ Delete(c)
    \/ RebuildProgress(c) \/ RebuildEnds(c)

Watch(s) == (Subscribe(s) \/ Cancel(s) \/ Receive(s)) /\ UNCHANGED callVars

Next == (\E c \in Calls : Serve(c)) \/ (\E s \in Subscribers : Watch(s))

Spec == Init /\ [][Next]_vars

\* A goroutine that can run does, and a handler ends: the database answers and
\* the embedding provider has a timeout.  Nobody need read a channel.
Fairness == \A c \in Calls : WF_vars(Serve(c))

FairSpec == Spec /\ Fairness

(***************************************************************************)
(* Properties                                                              *)
(***************************************************************************)
\* No publisher is on its way to a channel that has been closed, whatever
\* subscribers do meanwhile: a send on a closed channel would panic, and in
\* CallTool's deferred function that panic would end the server.
NeverSendsOnClosed == \A c \in Calls : todo[c] \cap closed = {}

\* What a call has to tell so far: its denial, or its start and then an outcome that
\* fits the answer its caller gets.
Story(c) ==
    LET outcome == Ev(IF answer[c] = "ok" THEN "success" ELSE "failure", c)
    IN  CASE phase[c] = "denied" -> <<Ev("denied", c)>>
          [] phase[c] = "started" -> <<Ev("started", c)>>
          [] phase[c] = "finished" -> <<Ev("started", c), outcome>>
          [] OTHER -> << >>

\* The places of a log at which an event of call c is.
About(s, c) == {i \in 1 .. Len(log[s]) : log[s][i].call = c}

\* Whenever a subscriber came and whatever it lost, what it was sent about one
\* call is a piece of that call's story, told in order and no event of it twice.
EachCallTellsOneStory ==
    \A s \in Subscribers, c \in Calls :
        \E place \in [About(s, c) -> DOMAIN Story(c)] :
            /\ \A i \in About(s, c) : log[s][i] = Story(c)[place[i]]
            /\ \A i, j \in About(s, c) : i < j => place[i] < place[j]

Logged(s, e) == \E i \in 1 .. Len(log[s]) : log[s][i] = e

\* A slow subscriber hurts only itself: one that was there when a call was
\* announced, has not left and never let its own buffer overflow was sent the
\* start of the call before its handler did anything, and its outcome before
\* the call returned.
AttentiveSubscribersMissNothing ==
    \A c \in Calls : \A s \in (audience[c] \cap open) \ missed :
        /\ At(c, "started") \/ phase[c] = "finished" => Logged(s, Ev("started", c))
        /\ At(c, "finished") => Logged(s, Ev("success", c)) \/ Logged(s, Ev("failure", c))

\* In the log of subscriber s, call a had succeeded before call b began.
Before(s, a, b) ==
    \E i, j \in 1 .. Len(log[s]) :
        i < j /\ log[s][i] = Ev("success", a) /\ log[s][j] = Ev("started", b)

\* The event log can be trusted as an account of the artifacts although
\* deliveries of different calls interleave: no read returns a payload that the
\* log shows overwritten or deleted before the read began, and none fails to
\* find one that the log shows stored before it and no delete may have removed.
ReadsAgreeWithTheLog ==
    \A s \in Subscribers, r \in Calls :
        Tool(r) = "artifact.get" /\ At(r, "finished") =>
            /\ answer[r] = "ok" =>
                 ~ \E d \in Calls : /\ Tool(d) \in {"artifact.set", "artifact.delete"}
                                    /\ Before(s, found[r], d)
                                    /\ Before(s, d, r)
            /\ answer[r] = "handler_error" =>
                 \A w \in Calls : Tool(w) = "artifact.set" /\ Before(s, w, r) =>
                     \E d \in Calls : /\ Tool(d) = "artifact.delete"
                                     /\ phase[d] = "finished"
                                     /\ ~Before(s, d, w)

\* Every call that arrives is answered, even if no subscriber ever reads.
EveryCallReturns == \A c \in Calls : <>Returned(c)

=============================================================================
