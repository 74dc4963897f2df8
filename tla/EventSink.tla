----------------------------- MODULE EventSink -----------------------------
(***************************************************************************)
(* Best-effort emission of events by the activities (pkg/activity/base.go) *)
(* into a sink that keeps one event per idempotency key                    *)
(* (pkg/events/envelope.go).  Each attempt of an activity has an outbox of *)
(* events [key, body] it emits one after the other at its end; each event  *)
(* is offered at most twice.                                               *)
(***************************************************************************)
EXTENDS Naturals, Sequences

CONSTANT MaxAttempts    \* RetryPolicy.MaximumAttempts of the workflow

ASSUME MaxAttemptsAssumption == MaxAttempts \in Nat \ {0}

VARIABLES
    sink,       \* what the sink has recorded: idempotency key -> body
    outbox,     \* per attempt: events still to be emitted
    tries,      \* per attempt: how often the first of them was offered in vain
    cancelled   \* per attempt: ctx.Done() is closed

sinkVars == <<sink, outbox, tries, cancelled>>

Attempts == 1..MaxAttempts

SinkInit ==
    /\ sink = <<>>
    /\ outbox = [a \in Attempts |-> <<>>]
    /\ tries = [a \in Attempts |-> 0]
    /\ cancelled = [a \in Attempts |-> FALSE]

Event(key, body) == [key |-> key, body |-> body]

\* EventSink.Append: a second event with the same key is a no-op.
Recorded(e) ==
    [key \in DOMAIN sink \cup {e.key} |->
        IF key \in DOMAIN sink THEN sink[key] ELSE e.body]

\* EmitEventSafe is done with the first event, delivered or not.
NextEvent(a) ==
    /\ outbox' = [outbox EXCEPT ![a] = Tail(@)]
    /\ tries' = [tries EXCEPT ![a] = 0]

Appended(a) ==
    /\ outbox[a] # <<>>
    /\ sink' = Recorded(Head(outbox[a]))
    /\ NextEvent(a)
    /\ UNCHANGED cancelled

\* Append returns an error, whether or not the sink has the event by then; after
\* the second one the event is given up.
AppendFails(a) ==
    /\ outbox[a] # <<>>
    /\ sink' \in {sink, Recorded(Head(outbox[a]))}
    /\ IF tries[a] = 0
       THEN tries' = [tries EXCEPT ![a] = 1] /\ UNCHANGED outbox
       ELSE NextEvent(a)
    /\ UNCHANGED cancelled

\* The context ends during the wait before the second try: the event is given
\* up, and so are, after one try each, those behind it.
EmissionCancelled(a) ==
    /\ outbox[a] # <<>> /\ tries[a] = 1 /\ cancelled[a]
    /\ NextEvent(a)
    /\ UNCHANGED <<sink, cancelled>>

Emit(a) == Appended(a) \/ AppendFails(a) \/ EmissionCancelled(a)

\* The deadline of the activity passes, or its workflow or worker is stopped.
Cancel(a) ==
    /\ ~cancelled[a]
    /\ cancelled' = [cancelled EXCEPT ![a] = TRUE]
    /\ UNCHANGED <<sink, outbox, tries>>
=============================================================================
