----------------------------- MODULE DeadlineMap -----------------------------
(***************************************************************************)
(* What a TimerManager promises its users: one deadline per id, the last   *)
(* one set; a deadline fires only when it has been reached, the earliest   *)
(* first, and a repeating one is set again from the moment it fired.       *)
(***************************************************************************)
EXTENDS Integers

CONSTANTS
  Ids,          \* timer ids (descriptors, sessions or tokens)
  Timeouts,     \* timeouts in use
  NoTimer       \* no deadline for this id

VARIABLES
  now,          \* the clock
  deadline,     \* deadline[id]: [expire, interval, repeat] or NoTimer
  last          \* the last firing: [id, due, at] or NoTimer

dvars == <<now, deadline, last>>

Deadline(t, r) == [expire |-> now + t, interval |-> t, repeat |-> r]

DInit ==
  /\ now = 0
  /\ deadline = [id \in Ids |-> NoTimer]
  /\ last = NoTimer

Pass ==
  /\ now' = now + 1
  /\ UNCHANGED <<deadline, last>>

Set(id, t, r) ==
  /\ deadline' = [deadline EXCEPT ![id] = Deadline(t, r)]
  /\ UNCHANGED <<now, last>>

Fire(id) ==
  /\ deadline[id] # NoTimer
  /\ deadline[id].expire <= now
  /\ \A j \in Ids : deadline[j] # NoTimer => deadline[id].expire <= deadline[j].expire
  /\ last' = [id |-> id, due |-> deadline[id].expire, at |-> now]
  /\ deadline' = [deadline EXCEPT ![id] =
                    IF deadline[id].repeat THEN Deadline(deadline[id].interval, TRUE)
                    ELSE NoTimer]
  /\ UNCHANGED now

DNext ==
  \/ Pass
  \/ \E id \in Ids : Fire(id)
  \/ \E id \in Ids, t \in Timeouts, r \in BOOLEAN : Set(id, t, r)

DSpec == DInit /\ [][DNext]_dvars
==============================================================================
