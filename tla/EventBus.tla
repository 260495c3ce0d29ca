------------------------------ MODULE EventBus ------------------------------
(***************************************************************************)
(* The event bus of the MCP server (internal/mcp/events.go): channels with *)
(* a bounded buffer, one per subscriber, in a map guarded by a read-write  *)
(* lock.  Publish holds the read lock while it offers the event to every   *)
(* channel in turn, so publishers run side by side and their deliveries    *)
(* interleave; Subscribe and cancel need the write lock.                   *)
(*                                                                         *)
(* What a subscriber was sent is kept as its whole log with the number of  *)
(* events it has taken: the buffer is the part of the log not yet taken.   *)
(***************************************************************************)
EXTENDS Naturals, Sequences

CONSTANTS
    Publishers,     \* goroutines that publish: one per tool call
    Subscribers,
    Capacity        \* the buffer of a channel (16 unless asked otherwise)

ASSUME BusAssumption == Capacity \in Nat \ {0}

VARIABLES
    open,           \* the channels in the map
    closed,         \* channels closed by cancel
    log,            \* the events sent to each channel
    taken,          \* how many of them the subscriber has received
    missed,         \* history: channels an event was dropped for
    event,          \* the event each publisher is offering, or offered last
    todo            \* the channels it has yet to offer it to

busVars == <<open, closed, log, taken, missed, event, todo>>

BusTypeOK(Events) ==
    /\ open \subseteq Subscribers
    /\ closed \subseteq Subscribers
    /\ log \in [Subscribers -> Seq(Events)]
    /\ taken \in [Subscribers -> Nat]
    /\ \A s \in Subscribers : Len(log[s]) - taken[s] \in 0 .. Capacity
    /\ missed \subseteq Subscribers
    /\ event \in [Publishers -> Events]
    /\ todo \in [Publishers -> SUBSET Subscribers]

BusInit(noEvent) ==
    /\ open = {}
    /\ closed = {}
    /\ log = [s \in Subscribers |-> << >>]
    /\ taken = [s \in Subscribers |-> 0]
    /\ missed = {}
    /\ event = [p \in Publishers |-> noEvent]
    /\ todo = [p \in Publishers |-> {}]

\* A publisher holds the read lock as long as it has channels left.
Publishing(p) == todo[p] # {}

Unlocked == \A p \in Publishers : ~Publishing(p)

\* Publish takes the read lock: the map stands still until it is released.
StartPublish(p, e) ==
    /\ ~Publishing(p)
    /\ event' = [event EXCEPT ![p] = e]
    /\ todo' = [todo EXCEPT ![p] = open]
    /\ UNCHANGED <<open, closed, log, taken, missed>>

HasRoom(s) == Len(log[s]) - taken[s] < Capacity

Send(p, s) == log' = [log EXCEPT ![s] = Append(@, event[p])] /\ UNCHANGED missed

Drop(s) == missed' = missed \cup {s} /\ UNCHANGED log

Offered(p, s) == todo' = [todo EXCEPT ![p] = @ \ {s}]

\* Mutant: the channel takes one event more than it has room for.
DeliverOverfills(p, s) ==
    /\ s \in todo[p]
    /\ IF Len(log[s]) - taken[s] <= Capacity THEN Send(p, s) ELSE Drop(s)
    /\ Offered(p, s)
    /\ UNCHANGED <<open, closed, taken, event>>

\* Mutant: a plain send, which waits for room.
DeliverBlocks(p, s) ==
    /\ s \in todo[p]
    /\ HasRoom(s)
    /\ Send(p, s)
    /\ Offered(p, s)
    /\ UNCHANGED <<open, closed, taken, event>>

\* Mutant: the first full channel ends the round.
DeliverGivesUp(p, s) ==
    /\ s \in todo[p]
    /\ IF HasRoom(s)
       THEN Send(p, s) /\ Offered(p, s)
       ELSE Drop(s) /\ todo' = [todo EXCEPT ![p] = {}]
    /\ UNCHANGED <<open, closed, taken, event>>

\* One round of Publish's loop, in the map's arbitrary order: a send that does
\* not wait.
Deliver(p, s) ==
    /\ s \in todo[p]
    /\ IF HasRoom(s) THEN Send(p, s) ELSE Drop(s)
    /\ Offered(p, s)
    /\ UNCHANGED <<open, closed, taken, event>>

Subscribe(s) ==
    /\ Unlocked
    /\ s \notin open \cup closed
    /\ open' = open \cup {s}
    /\ UNCHANGED <<closed, log, taken, missed, event, todo>>

\* Mutant: the channel is closed under no lock.
CancelUnlocked(s) ==
    /\ s \in open
    /\ open' = open \ {s}
    /\ closed' = closed \cup {s}
    /\ UNCHANGED <<log, taken, missed, event, todo>>

\* The function Subscribe returns; calling it again does nothing.
Cancel(s) ==
    /\ Unlocked
    /\ s \in open
    /\ open' = open \ {s}
    /\ closed' = closed \cup {s}
    /\ UNCHANGED <<log, taken, missed, event, todo>>

\* A subscriber receives the oldest buffered event, also after its cancel.
Receive(s) ==
    /\ taken[s] < Len(log[s])
    /\ taken' = [taken EXCEPT ![s] = @ + 1]
    /\ UNCHANGED <<open, closed, log, missed, event, todo>>

=============================================================================
