--------------------------- MODULE Notifications ---------------------------
(***************************************************************************)
(* NotificationService: rows of notifications that create inserts and      *)
(* push_pending sends to Telegram.  create pushes at once, in whatever     *)
(* task it was called, and a job pushes every 30 seconds, so several calls *)
(* of push_pending go over the same rows.  A step is one session or one    *)
(* request; the three attempts of a request are one step.                  *)
(***************************************************************************)
EXTENDS Integers, Sequences, FiniteSetsExt, Functions, SequencesExt

CONSTANTS
    Pushers,      \* tasks that call push_pending
    Limit,        \* its limit (50)
    AbandonAfter  \* _ABANDON_AFTER, in ticks

VARIABLES
    clock, \* ticks since the day began
    notes, \* notifications, in order of created_at
    push   \* local state of each call of push_pending

outbox == <<notes, push>>

\* pending: the rows read, in the order of created_at
Resting == [pc |-> "off", pending |-> {}]

NotesInit ==
    /\ notes = <<>>
    /\ push = [p \in Pushers |-> Resting]

is_pushed(n) == notes[n].channel # "none"
Stale(n) == ~is_pushed(n) /\ notes[n].born + AbandonAfter < clock

\* the insert; push_pending is called by the same task
create(p) ==
    /\ notes' = Append(notes, [born |-> clock, channel |-> "none"])
    /\ push' = [push EXCEPT ![p].pc = "select"]

\* defect: a row that cannot be sent is tried for ever
AbandonOld_never == {}

AbandonOld == {n \in DOMAIN notes : Stale(n)}

\* the two sessions a push begins with: rows too old are given up, then the
\* oldest that are left are read, once
SelectPending(p) ==
    LET rows == [n \in DOMAIN notes |->
                   IF n \in AbandonOld THEN [notes[n] EXCEPT !.channel = "abandoned"]
                                       ELSE notes[n]]
        open == {n \in DOMAIN rows : rows[n].channel = "none"}
        some == {n \in open : Quantify(open, LAMBDA m : m < n) < Limit}
    IN  /\ push[p].pc = "select"
        /\ notes' = rows
        /\ push' = [push EXCEPT ![p] =
                      IF some = {} THEN Resting
                      ELSE [pc |-> "send", pending |-> some]]

Oldest(p) == Min(push[p].pending)

\* what comes after the oldest of the rows
Onward(p) ==
    LET rest == push[p].pending \ {Oldest(p)}
    IN  IF rest = {} THEN Resting ELSE [pc |-> "send", pending |-> rest]

\* a refusal, a timeout or a lost answer leaves the row for the next call
_send_telegram(p) ==
    /\ push[p].pc = "send"
    /\ \/ push' = [push EXCEPT ![p].pc = "mark"]
       \/ push' = [push EXCEPT ![p] = Onward(p)]
    /\ UNCHANGED notes

\* the row is updated by its id, whatever it says meanwhile
MarkPushed(p) ==
    /\ push[p].pc = "mark"
    /\ notes' = [notes EXCEPT ![Oldest(p)].channel = "telegram"]
    /\ push' = [push EXCEPT ![p] = Onward(p)]

push_pending(p) ==
    \/ SelectPending(p)
    \/ _send_telegram(p)
    \/ MarkPushed(p)

\* a session raises: push_pending ends with the exception
PushFails(p) ==
    /\ push[p].pc \in {"select", "mark"}
    /\ push' = [push EXCEPT ![p] = [pc |-> "raised", pending |-> {}]]
    /\ UNCHANGED notes

PushOver(p) == push' = [push EXCEPT ![p] = Resting]

NotesType ==
    /\ notes \in Seq([born : Nat, channel : {"none", "telegram", "abandoned"}])
    /\ \A p \in Pushers :
          /\ push[p].pc \in {"off", "select", "send", "mark", "raised"}
          /\ push[p].pending \subseteq DOMAIN notes
          /\ push[p].pc \in {"send", "mark"} => push[p].pending # {}

=============================================================================
