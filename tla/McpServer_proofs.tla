-------------------------- MODULE McpServer_proofs --------------------------
(***************************************************************************)
(* Theorems about the MCP server and its event bus, for any calls,         *)
(* subscribers, buffer size and permissions.                               *)
(***************************************************************************)
EXTENDS McpServer, TLAPS

USE BusAssumption, McpAssumption DEF BusAssumption, McpAssumption

(***************************************************************************)
(* The bus                                                                 *)
(***************************************************************************)
LEMMA PublishIsTyped ==
    ASSUME BusTypeOK(Events), NEW p \in Publishers, NEW e \in Events, StartPublish(p, e)
    PROVE  BusTypeOK(Events)'
BY DEF BusTypeOK, StartPublish

\* The bound of the buffer is the one thing Deliver has to look after.
LEMMA DeliverIsTyped ==
    ASSUME BusTypeOK(Events), NEW p \in Publishers, NEW s \in Subscribers, Deliver(p, s)
    PROVE  BusTypeOK(Events)'
<1> DEFINE L == log[s]
<1>1. L \in Seq(Events) /\ event[p] \in Events /\ taken[s] \in Nat
    BY DEF BusTypeOK
<1>2. CASE HasRoom(s)
    <2>1. /\ log' = [log EXCEPT ![s] = Append(L, event[p])]
          /\ UNCHANGED <<open, closed, taken, event, missed>>
        BY <1>2 DEF Deliver, Send
    <2>2. Append(L, event[p]) \in Seq(Events) /\ Len(Append(L, event[p])) = Len(L) + 1
        BY <1>1
    <2>3. log' \in [Subscribers -> Seq(Events)]
        BY <2>1, <2>2 DEF BusTypeOK
    <2>4. \A t \in Subscribers : Len(log'[t]) - taken'[t] \in 0 .. Capacity
        <3> TAKE t \in Subscribers
        <3>1. CASE t = s
            <4>1. Len(L) \in Nat
                BY <1>1
            <4>2. Len(log'[t]) = Len(L) + 1
                BY <2>1, <2>2, <3>1 DEF BusTypeOK
            <4>3. Len(L) - taken[s] \in 0 .. Capacity /\ Len(L) - taken[s] < Capacity
                BY <1>2 DEF HasRoom, BusTypeOK
            <4> QED BY <1>1, <4>1, <4>2, <4>3, <2>1, <3>1
        <3>2. CASE t # s
            BY <2>1, <3>2 DEF BusTypeOK
        <3> QED BY <3>1, <3>2
    <2>5. todo' \in [Publishers -> SUBSET Subscribers]
        BY DEF Deliver, Offered, BusTypeOK
    <2> QED BY <2>1, <2>3, <2>4, <2>5 DEF BusTypeOK
<1>3. CASE ~HasRoom(s)
    BY <1>3 DEF Deliver, Drop, Offered, BusTypeOK
<1> QED BY <1>2, <1>3

LEMMA WatchIsTyped ==
    ASSUME BusTypeOK(Events), NEW s \in Subscribers, Watch(s)
    PROVE  BusTypeOK(Events)'
<1>1. CASE Subscribe(s)
    BY <1>1 DEF Subscribe, BusTypeOK
<1>2. CASE Cancel(s)
    BY <1>2 DEF Cancel, BusTypeOK
<1>3. CASE Receive(s)
    <2>1. log[s] \in Seq(Events) /\ taken[s] \in Nat /\ Len(log[s]) - taken[s] \in 0 .. Capacity
        BY DEF BusTypeOK
    <2>2. Len(log[s]) \in Nat
        BY <2>1
    <2>3. Len(log[s]) - (taken[s] + 1) \in 0 .. Capacity
        BY <2>1, <2>2, <1>3 DEF Receive
    <2> QED BY <1>3, <2>1, <2>3 DEF Receive, BusTypeOK
<1> QED BY <1>1, <1>2, <1>3 DEF Watch

(***************************************************************************)
(* Types                                                                   *)
(***************************************************************************)
\* Everything but the bus.
CallTypeOK ==
    /\ request \in [Calls -> Requests]
    /\ phase \in [Calls -> Phases]
    /\ answer \in [Calls -> Answers]
    /\ progress \in [Calls -> 0 .. Batches]
    /\ audience \in [Calls -> SUBSET Subscribers]
    /\ artifact \in Calls \cup {NoArtifact}
    /\ found \in [Calls -> Calls \cup {NoArtifact}]

LEMMA EventIsTyped ==
    ASSUME NEW t \in EventTypes, NEW c \in Calls \cup {NoCall}
    PROVE  Ev(t, c) \in Events
BY DEF Ev, Events

LEMMA FinishIsTyped ==
    ASSUME TypeOK, NEW c \in Calls, NEW a \in Answers, NEW t \in EventTypes, Finish(c, a, t)
    PROVE  /\ BusTypeOK(Events)'
           /\ phase' \in [Calls -> Phases]
           /\ answer' \in [Calls -> Answers]
           /\ UNCHANGED <<request, progress, audience>>
<1>1. BusTypeOK(Events)'
    BY EventIsTyped, PublishIsTyped DEF Finish, TypeOK, Calls
<1> QED BY <1>1 DEF Finish, TypeOK, Phases

LEMMA ServeIsTyped ==
    ASSUME TypeOK, NEW c \in Calls, Serve(c)
    PROVE  TypeOK'
<1> USE DEF Calls
<1>1. CASE Deny(c)
    <2>1. BusTypeOK(Events)'
        BY <1>1, EventIsTyped, PublishIsTyped DEF Deny, TypeOK, EventTypes
    <2> QED BY <1>1, <2>1 DEF Deny, TypeOK, Phases, Answers
<1>2. CASE NotFound(c)
    <2>1. BusTypeOK(Events)'
        BY <1>2 DEF NotFound, TypeOK, BusTypeOK, busVars
    <2> QED BY <1>2, <2>1 DEF NotFound, TypeOK, Phases, Answers
<1>3. CASE Start(c)
    <2>1. BusTypeOK(Events)'
        BY <1>3, EventIsTyped, PublishIsTyped DEF Start, TypeOK, EventTypes
    <2>2. open \subseteq Subscribers
        BY DEF TypeOK, BusTypeOK
    <2> QED BY <1>3, <2>1, <2>2 DEF Start, TypeOK, Phases
<1>4. CASE Offer(c)
    <2>1. BusTypeOK(Events)'
        BY <1>4, DeliverIsTyped DEF Offer, TypeOK
    <2> QED BY <1>4, <2>1 DEF Offer, TypeOK, callVars
<1>5. CASE HandlerPanics(c) \/ HandlerRefuses(c)
    <2>1. Finish(c, "handler_error", "failure") \/ Finish(c, "invalid_argument", "failure")
        BY <1>5 DEF HandlerPanics, HandlerRefuses
    <2>2. UNCHANGED <<artifact, found>>
        BY <1>5 DEF HandlerPanics, HandlerRefuses
    <2> QED BY <2>1, <2>2, FinishIsTyped DEF TypeOK, Answers, EventTypes
<1>6. CASE Set(c) \/ Get(c) \/ Delete(c)
    <2>1. Finish(c, "ok", "success") \/ Finish(c, "handler_error", "failure")
        BY <1>6 DEF Set, Get, Delete
    <2>2. artifact' \in Calls \cup {NoArtifact} /\ found' \in [Calls -> Calls \cup {NoArtifact}]
        BY <1>6 DEF Set, Get, Delete, TypeOK
    <2> QED BY <2>1, <2>2, FinishIsTyped DEF TypeOK, Answers, EventTypes
<1>7. CASE RebuildProgress(c)
    <2>1. BusTypeOK(Events)'
        BY <1>7, EventIsTyped, PublishIsTyped DEF RebuildProgress, TypeOK, EventTypes
    <2>2. progress' \in [Calls -> 0 .. Batches]
        BY <1>7 DEF RebuildProgress, TypeOK
    <2> QED BY <1>7, <2>1, <2>2 DEF RebuildProgress, TypeOK
<1>8. CASE RebuildEnds(c)
    <2>1. Finish(c, "ok", "success") \/ Finish(c, "handler_error", "failure")
        BY <1>8 DEF RebuildEnds
    <2>2. UNCHANGED <<artifact, found>>
        BY <1>8 DEF RebuildEnds
    <2> QED BY <2>1, <2>2, FinishIsTyped DEF TypeOK, Answers, EventTypes
<1> QED BY <1>1, <1>2, <1>3, <1>4, <1>5, <1>6, <1>7, <1>8 DEF Serve

LEMMA InitIsTyped == Init => TypeOK
<1> SUFFICES ASSUME Init PROVE TypeOK
    OBVIOUS
<1>1. Ev("started", NoCall) \in Events
    BY EventIsTyped DEF EventTypes
<1>2. BusTypeOK(Events)
    BY <1>1 DEF Init, BusInit, BusTypeOK
<1> QED BY <1>2 DEF Init, TypeOK, Phases, Answers, Calls

\* Every reachable state is well typed; in particular no buffer ever holds more
\* events than it has room for.
THEOREM TypeCorrect == Spec => []TypeOK
<1>1. TypeOK /\ [Next]_vars => TypeOK'
    <2> SUFFICES ASSUME TypeOK, [Next]_vars PROVE TypeOK'
        OBVIOUS
    <2>1. CASE \E c \in Calls : Serve(c)
        BY <2>1, ServeIsTyped
    <2>2. CASE \E s \in Subscribers : Watch(s)
        BY <2>2, WatchIsTyped DEF Watch, TypeOK, callVars
    <2>3. CASE UNCHANGED vars
        BY <2>3 DEF vars, busVars, callVars, TypeOK, BusTypeOK
    <2> QED BY <2>1, <2>2, <2>3 DEF Next
<1> QED BY InitIsTyped, <1>1, PTL DEF Spec

(***************************************************************************)
(* Closed channels                                                         *)
(***************************************************************************)
\* What the read-write lock gives: a publisher is only ever on its way to
\* channels that are in the map, and a closed channel is not.
LockInv ==
    /\ open \cap closed = {}
    /\ \A p \in Publishers : todo[p] \subseteq open

LEMMA PublishKeepsLock ==
    ASSUME TypeOK, LockInv, NEW p \in Publishers, NEW e, StartPublish(p, e)
    PROVE  LockInv'
BY DEF LockInv, StartPublish, TypeOK, BusTypeOK

LEMMA ServeKeepsLock ==
    ASSUME TypeOK, LockInv, NEW c \in Calls, Serve(c)
    PROVE  LockInv'
<1>1. CASE \E e : StartPublish(c, e)
    BY <1>1, PublishKeepsLock DEF Calls
<1>2. CASE UNCHANGED busVars
    BY <1>2 DEF busVars, LockInv
<1>3. CASE \E s \in Subscribers : Deliver(c, s)
    BY <1>3 DEF Deliver, Offered, LockInv, TypeOK, BusTypeOK, Calls
<1> QED BY <1>1, <1>2, <1>3
        DEF Serve, Deny, NotFound, Start, Offer, HandlerPanics, HandlerRefuses,
            Set, Get, Delete, RebuildProgress, RebuildEnds, Finish

LEMMA WatchKeepsLock ==
    ASSUME TypeOK, LockInv, NEW s \in Subscribers, Watch(s)
    PROVE  LockInv'
BY DEF Watch, Subscribe, Cancel, Receive, Unlocked, Publishing, LockInv

LEMMA LockInvariant == Spec => []LockInv
<1>1. Init => LockInv
    BY DEF Init, BusInit, LockInv
<1>2. TypeOK /\ LockInv /\ [Next]_vars => LockInv'
    <2> SUFFICES ASSUME TypeOK, LockInv, [Next]_vars PROVE LockInv'
        OBVIOUS
    <2>1. CASE UNCHANGED vars
        BY <2>1 DEF vars, busVars, LockInv
    <2> QED BY <2>1, ServeKeepsLock, WatchKeepsLock DEF Next
<1> QED BY <1>1, <1>2, TypeCorrect, PTL DEF Spec

\* No event is ever sent on a channel that has been closed.
THEOREM ClosedStaysSilent == Spec => []NeverSendsOnClosed
<1>1. LockInv => NeverSendsOnClosed
    BY DEF LockInv, NeverSendsOnClosed, Calls
<1> QED BY <1>1, LockInvariant, PTL

(***************************************************************************)
(* Attentive subscribers                                                   *)
(***************************************************************************)
\* Call c is still on its way to tell s that it has ended one of these ways.
Pending(c, s, types) == s \in todo[c] /\ \E t \in types : event[c] = Ev(t, c)

\* A start has been told, or is being told; so has the start once the outcome is.
Follows(c, s) ==
    /\ phase[c] = "started" => Logged(s, Ev("started", c)) \/ Pending(c, s, {"started"})
    /\ phase[c] = "finished" =>
        /\ Logged(s, Ev("started", c))
        /\ \/ Logged(s, Ev("success", c)) \/ Logged(s, Ev("failure", c))
           \/ Pending(c, s, {"success", "failure"})

\* The audience of a call never comes back once it has left.
Informed(c) ==
    /\ audience[c] \subseteq open \cup closed
    /\ phase[c] \notin {"started", "finished"} => audience[c] = {}
    /\ \A s \in (audience[c] \cap open) \ missed : Follows(c, s)

\* What a step of another call leaves.
LEMMA OthersStayInformed ==
    ASSUME NEW c \in Calls, Informed(c),
           todo'[c] = todo[c], event'[c] = event[c], phase'[c] = phase[c],
           audience'[c] = audience[c], UNCHANGED <<open, closed, log, missed>>
    PROVE  Informed(c)'
BY DEF Informed, Follows, Pending, Logged

\* Of a call that is not publishing, everything has been told.
LEMMA NothingPending ==
    ASSUME NEW c \in Calls, NEW s, NEW types, ~Publishing(c)
    PROVE  ~Pending(c, s, types)
BY DEF Publishing, Pending

LEMMA PublishingInforms ==
    ASSUME TypeOK, LockInv, NEW d \in Calls, NEW e, StartPublish(d, e),
           \A c \in Calls \ {d} : phase'[c] = phase[c] /\ audience'[c] = audience[c],
           Informed(d)', \A c \in Calls : Informed(c),
           NEW c \in Calls
    PROVE  Informed(c)'
<1>1. CASE c = d
    BY <1>1
<1>2. CASE c # d
    <2>1. /\ todo'[c] = todo[c] /\ event'[c] = event[c]
          /\ UNCHANGED <<open, closed, log, missed>>
        BY <1>2 DEF StartPublish, TypeOK, BusTypeOK, Calls
    <2> QED BY <1>2, <2>1, OthersStayInformed
<1> QED BY <1>1, <1>2

LEMMA FinishingInforms ==
    ASSUME TypeOK, LockInv, NEW d \in Calls, At(d, "started"), NEW a,
           NEW t \in {"success", "failure"}, Finish(d, a, t), Informed(d)
    PROVE  Informed(d)'
<1>1. /\ phase[d] = "started" /\ phase'[d] = "finished"
      /\ todo'[d] = open /\ event'[d] = Ev(t, d)
      /\ UNCHANGED <<audience, open, closed, log, missed>>
    BY DEF At, Finish, StartPublish, TypeOK, BusTypeOK, Calls
<1>2. ASSUME NEW s \in (audience[d] \cap open) \ missed PROVE Logged(s, Ev("started", d))
    BY <1>1, <1>2, NothingPending DEF Informed, Follows, At
<1>3. ASSUME NEW s \in (audience[d] \cap open) \ missed PROVE Follows(d, s)'
    BY <1>1, <1>2 DEF Follows, Pending, Logged
<1> QED BY <1>1, <1>3 DEF Informed

LEMMA LoggedStays ==
    ASSUME TypeOK, NEW p \in Publishers, NEW t \in Subscribers, Deliver(p, t),
           NEW s \in Subscribers, NEW e, Logged(s, e)
    PROVE  Logged(s, e)'
<1> DEFINE L == Append(log[t], event[p])
<1>1. CASE log' = log
    BY <1>1 DEF Logged
<1>2. CASE log' = [log EXCEPT ![t] = L]
    <2>1. log[t] \in Seq(Events) /\ event[p] \in Events /\ log \in [Subscribers -> Seq(Events)]
        BY DEF TypeOK, BusTypeOK
    <2>2. Len(L) = Len(log[t]) + 1 /\ \A i \in 1 .. Len(log[t]) : L[i] = log[t][i]
        BY <2>1
    <2>3. Len(log[t]) \in Nat
        BY <2>1
    <2>4. CASE s = t
        BY <1>2, <2>1, <2>2, <2>3, <2>4 DEF Logged
    <2>5. CASE s # t
        BY <1>2, <2>1, <2>5 DEF Logged
    <2> QED BY <2>4, <2>5
<1> QED BY <1>1, <1>2 DEF Deliver, Send, Drop

\* What was on its way to s is now in its log, or lost to its own full buffer.
LEMMA DeliveredIsLogged ==
    ASSUME TypeOK, NEW p \in Publishers, NEW s \in Subscribers, Deliver(p, s)
    PROVE  Logged(s, event[p])' \/ s \in missed'
<1> DEFINE L == Append(log[s], event[p])
<1>1. CASE HasRoom(s)
    <2>1. log[s] \in Seq(Events) /\ event[p] \in Events /\ log \in [Subscribers -> Seq(Events)]
        BY DEF TypeOK, BusTypeOK
    <2>2. Len(L) = Len(log[s]) + 1 /\ L[Len(L)] = event[p] /\ Len(L) \in 1 .. Len(L)
        BY <2>1
    <2>3. log'[s] = L /\ event' = event
        BY <1>1, <2>1 DEF Deliver, Send
    <2> QED BY <2>2, <2>3 DEF Logged
<1>2. CASE ~HasRoom(s)
    BY <1>2 DEF Deliver, Drop
<1> QED BY <1>1, <1>2

LEMMA DeliveringInforms ==
    ASSUME TypeOK, LockInv, NEW p \in Publishers, NEW t \in Subscribers, Deliver(p, t),
           UNCHANGED callVars, NEW c \in Calls, Informed(c)
    PROVE  Informed(c)'
<1>1. /\ UNCHANGED <<open, closed, event, phase, audience>>
      /\ missed \subseteq missed'
      /\ \A s : s \in todo[c] => s \in todo'[c] \/ (c = p /\ s = t)
    BY DEF Deliver, Send, Drop, Offered, callVars, TypeOK, BusTypeOK, Calls
<1>2. ASSUME NEW s \in (audience[c] \cap open) \ missed' PROVE Follows(c, s)'
    <2>1. s \in Subscribers /\ Follows(c, s)
        BY <1>1, <1>2 DEF Informed, TypeOK, BusTypeOK
    <2>2. ASSUME NEW types, Pending(c, s, types)
          PROVE  Pending(c, s, types)' \/ \E k \in types : Logged(s, Ev(k, c))'
        <3>1. CASE c = p /\ s = t
            <4>1. Logged(s, event[p])'
                BY <1>2, <3>1, DeliveredIsLogged
            <4> QED BY <1>1, <2>2, <3>1, <4>1 DEF Pending, Logged
        <3>2. CASE ~(c = p /\ s = t)
            BY <1>1, <2>2, <3>2 DEF Pending
        <3> QED BY <3>1, <3>2
    <2>3. ASSUME NEW e, Logged(s, e) PROVE Logged(s, e)'
        BY <2>1, <2>3, LoggedStays
    <2>4. phase[c] = "started" =>
              Logged(s, Ev("started", c))' \/ Pending(c, s, {"started"})'
        BY <2>1, <2>2, <2>3 DEF Follows
    <2>5. phase[c] = "finished" =>
              /\ Logged(s, Ev("started", c))'
              /\ \/ Logged(s, Ev("success", c))' \/ Logged(s, Ev("failure", c))'
                 \/ Pending(c, s, {"success", "failure"})'
        BY <2>1, <2>2, <2>3 DEF Follows
    <2> QED BY <1>1, <2>4, <2>5 DEF Follows, Logged
<1> QED BY <1>1, <1>2 DEF Informed

LEMMA ServeInforms ==
    ASSUME TypeOK, LockInv, \A c \in Calls : Informed(c), NEW d \in Calls, Serve(d)
    PROVE  \A c \in Calls : Informed(c)'
<1>1. CASE Deny(d)
    <2>1. /\ phase[d] = "idle" /\ phase'[d] = "denied" /\ audience' = audience
          /\ \A c \in Calls \ {d} : phase'[c] = phase[c]
          /\ StartPublish(d, Ev("denied", d))
        BY <1>1 DEF Deny, At, TypeOK
    <2>2. Informed(d)'
        BY <2>1 DEF Informed
    <2> QED BY <2>1, <2>2, PublishingInforms
<1>2. CASE NotFound(d)
    <2>1. /\ phase[d] = "idle" /\ phase'[d] = "unknown" /\ UNCHANGED <<busVars, audience>>
          /\ \A c \in Calls \ {d} : phase'[c] = phase[c]
        BY <1>2 DEF NotFound, At, TypeOK
    <2>2. Informed(d)'
        BY <2>1 DEF Informed
    <2> QED BY <2>1, <2>2, OthersStayInformed DEF busVars
<1>3. CASE Start(d)
    <2>1. /\ phase'[d] = "started" /\ audience'[d] = open
          /\ \A c \in Calls \ {d} : phase'[c] = phase[c] /\ audience'[c] = audience[c]
          /\ StartPublish(d, Ev("started", d))
        BY <1>3 DEF Start, TypeOK
    <2>2. todo'[d] = open /\ event'[d] = Ev("started", d) /\ open' = open
        BY <2>1 DEF StartPublish, TypeOK, BusTypeOK, Calls
    <2>3. Informed(d)'
        BY <2>1, <2>2 DEF Informed, Follows, Pending
    <2> QED BY <2>1, <2>3, PublishingInforms
<1>4. CASE Offer(d)
    BY <1>4, DeliveringInforms DEF Offer, Calls
<1>5. CASE RebuildProgress(d)
    <2>1. /\ At(d, "started") /\ UNCHANGED <<phase, audience>>
          /\ StartPublish(d, Ev("progress", NoCall))
        BY <1>5 DEF RebuildProgress
    <2>2. UNCHANGED <<open, closed, log, missed>>
        BY <2>1 DEF StartPublish
    <2>3. Informed(d)'
        BY <2>1, <2>2, NothingPending DEF Informed, Follows, At, Logged
    <2> QED BY <2>1, <2>3, PublishingInforms
<1>6. ASSUME At(d, "started"), NEW a, NEW t \in {"success", "failure"}, Finish(d, a, t)
      PROVE  \A c \in Calls : Informed(c)'
    <2>1. /\ StartPublish(d, Ev(t, d)) /\ audience' = audience
          /\ \A c \in Calls \ {d} : phase'[c] = phase[c]
        BY <1>6 DEF Finish, TypeOK
    <2>2. Informed(d)'
        BY <1>6, FinishingInforms
    <2> QED BY <2>1, <2>2, PublishingInforms
<1> QED BY <1>1, <1>2, <1>3, <1>4, <1>5, <1>6
        DEF Serve, HandlerPanics, HandlerRefuses, Set, Get, Delete, RebuildEnds

LEMMA WatchInforms ==
    ASSUME TypeOK, LockInv, NEW s \in Subscribers, Watch(s), NEW c \in Calls, Informed(c)
    PROVE  Informed(c)'
<1>1. UNCHANGED <<log, missed, event, todo, phase, audience>>
    BY DEF Watch, Subscribe, Cancel, Receive, callVars
<1>2. /\ open \cup closed \subseteq (open \cup closed)'
      /\ audience[c] \subseteq open \cup closed => audience[c] \cap open' \subseteq open
    BY DEF Watch, Subscribe, Cancel, Receive
<1> QED BY <1>1, <1>2 DEF Informed, Follows, Pending, Logged

\* A subscriber that was there when a call began, stays and never overflows is told
\* of its start before its handler does anything and of its end before it returns,
\* however slow all the others are.
THEOREM AttentiveAreTold == Spec => []AttentiveSubscribersMissNothing
<1> DEFINE AllInformed == \A c \in Calls : Informed(c)
<1>1. Init => AllInformed
    BY DEF Init, BusInit, Informed
<1>2. TypeOK /\ LockInv /\ AllInformed /\ [Next]_vars => AllInformed'
    <2> SUFFICES ASSUME TypeOK, LockInv, AllInformed, [Next]_vars PROVE AllInformed'
        OBVIOUS
    <2>1. CASE UNCHANGED vars
        BY <2>1, OthersStayInformed DEF vars, busVars, callVars
    <2> QED BY <2>1, ServeInforms, WatchInforms DEF Next
<1>3. AllInformed => AttentiveSubscribersMissNothing
    BY NothingPending DEF AttentiveSubscribersMissNothing, Informed, Follows, At, Pending,
        Publishing
<1> HIDE DEF AllInformed
<1> QED BY <1>1, <1>2, <1>3, LockInvariant, TypeCorrect, PTL DEF Spec

(***************************************************************************)
(* The work of a call                                                      *)
(***************************************************************************)
\* The stages a call has before it: its start, its batches and its outcome.
Stages(c) ==
    CASE phase[c] = "idle" -> Batches + 2
      [] phase[c] = "started" -> Batches - progress[c] + 1
      [] OTHER -> 0

Stands(c) == Stages(c)' = Stages(c) /\ todo'[c] = todo[c]

Advances(c) ==
    \/ Stages(c)' < Stages(c)
    \/ Stages(c)' = Stages(c) /\ todo'[c] \subseteq todo[c] /\ todo'[c] # todo[c]

\* The work of a call is bounded from its arrival: each step it takes ends a stage,
\* or within a stage leaves fewer channels to visit, and nothing other calls do and
\* no subscriber who comes or goes ever gives it more.
CallsRunDown == [][\A c \in Calls : IF Serve(c) THEN Advances(c) ELSE Stands(c)]_vars

LEMMA EndingAdvances ==
    ASSUME TypeOK, NEW c \in Calls, phase[c] \in {"idle", "started"},
           phase'[c] \notin {"idle", "started"}
    PROVE  Advances(c)
<1>1. progress[c] \in 0 .. Batches
    BY DEF TypeOK
<1>2. Stages(c) > 0 /\ Stages(c)' = 0
    BY <1>1 DEF Stages
<1> QED BY <1>2 DEF Advances

LEMMA ServingAdvances ==
    ASSUME TypeOK, NEW c \in Calls, Serve(c)
    PROVE  Advances(c)
<1>1. progress[c] \in 0 .. Batches /\ phase \in [Calls -> Phases]
    BY DEF TypeOK
<1>2. CASE Deny(c) \/ NotFound(c)
    <2>1. phase[c] = "idle" /\ phase'[c] \in {"denied", "unknown"}
        BY <1>1, <1>2 DEF Deny, NotFound, At
    <2> QED BY <2>1, EndingAdvances
<1>3. CASE Start(c)
    <2>1. phase[c] = "idle" /\ phase'[c] = "started" /\ progress' = progress
        BY <1>1, <1>3 DEF Start, At
    <2>2. Stages(c) = Batches + 2 /\ Stages(c)' = Batches - progress[c] + 1
        BY <2>1 DEF Stages
    <2> QED BY <1>1, <2>2 DEF Advances
<1>4. CASE Offer(c)
    <2>1. PICK s \in Subscribers : Deliver(c, s)
        BY <1>4 DEF Offer
    <2>2. s \in todo[c] /\ todo'[c] = todo[c] \ {s}
        BY <2>1 DEF Deliver, Offered, TypeOK, BusTypeOK, Calls
    <2>3. Stages(c)' = Stages(c)
        BY <1>4 DEF Offer, callVars, Stages
    <2> QED BY <2>2, <2>3 DEF Advances
<1>5. ASSUME At(c, "started"), NEW a, NEW t, Finish(c, a, t) PROVE Advances(c)
    <2>1. phase[c] = "started" /\ phase'[c] = "finished"
        BY <1>1, <1>5 DEF At, Finish
    <2> QED BY <2>1, EndingAdvances
<1>6. CASE RebuildProgress(c)
    <2>1. phase[c] = "started" /\ phase' = phase /\ progress'[c] = progress[c] + 1
        BY <1>6 DEF RebuildProgress, At, TypeOK
    <2>2. Stages(c) = Batches - progress[c] + 1 /\ Stages(c)' = Batches - (progress[c] + 1) + 1
        BY <2>1 DEF Stages
    <2> QED BY <1>1, <2>2 DEF Advances
<1> QED BY <1>2, <1>3, <1>4, <1>5, <1>6
        DEF Serve, HandlerPanics, HandlerRefuses, Set, Get, Delete, RebuildEnds

LEMMA OthersDoNotDelay ==
    ASSUME TypeOK, NEW c \in Calls, NEW d \in Calls \ {c}, Serve(d)
    PROVE  Stands(c)
<1>1. /\ todo \in [Calls -> SUBSET Subscribers]
      /\ phase \in [Calls -> Phases] /\ progress \in [Calls -> 0 .. Batches]
    BY DEF TypeOK, BusTypeOK, Calls
<1>2. todo'[c] = todo[c]
    BY <1>1 DEF Serve, Deny, NotFound, Start, Offer, HandlerPanics, HandlerRefuses, Set, Get,
        Delete, RebuildProgress, RebuildEnds, Finish, StartPublish, Deliver, Offered, busVars
<1>3. phase'[c] = phase[c] /\ progress'[c] = progress[c]
    BY <1>1 DEF Serve, Deny, NotFound, Start, Offer, HandlerPanics, HandlerRefuses, Set, Get,
        Delete, RebuildProgress, RebuildEnds, Finish, callVars
<1> QED BY <1>2, <1>3 DEF Stands, Stages

\* Every call ends after a number of steps of its own that is settled when it
\* arrives, whatever the others do: the server's fairness is all its return needs.
THEOREM CallsAreBounded == Spec => CallsRunDown
<1>1. TypeOK /\ [Next]_vars
          => [\A c \in Calls : IF Serve(c) THEN Advances(c) ELSE Stands(c)]_vars
    <2> SUFFICES ASSUME TypeOK, [Next]_vars, vars' # vars, NEW c \in Calls, ~Serve(c)
                 PROVE  Stands(c)
        BY ServingAdvances
    <2>1. CASE \E d \in Calls : Serve(d)
        BY <2>1, OthersDoNotDelay
    <2>2. CASE \E s \in Subscribers : Watch(s)
        BY <2>2 DEF Watch, Subscribe, Cancel, Receive, callVars, Stands, Stages
    <2> QED BY <2>1, <2>2 DEF Next
<1> QED BY <1>1, TypeCorrect, PTL DEF Spec, CallsRunDown

=============================================================================
