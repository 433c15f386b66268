-------------------------- MODULE CommandLifecycle --------------------------
(***************************************************************************)
(* What the Codec 12 path promises for the commands of one device: they    *)
(* are sent one at a time, in the order they were queued, each is settled  *)
(* at most once, and what PostgreSQL records is never taken back.  A       *)
(* command may be lost on the way, but only where one process alone holds  *)
(* it: between two stores.                                                 *)
(***************************************************************************)
EXTENDS Naturals, Sequences, FiniteSets

CONSTANT Commands

VARIABLES
    phase,  \* phase[c]: how far command c has come
    queue   \* the queued commands, oldest first

vars == <<phase, queue>>

Phases == {"new", "accepted", "queued", "current", "settled", "recorded", "lost"}

Move(S, from, to) ==
    /\ S # {}
    /\ \A c \in S : phase[c] = from
    /\ phase' = [c \in Commands |-> IF c \in S THEN to ELSE phase[c]]

Init ==
    /\ phase = [c \in Commands |-> "new"]
    /\ queue = <<>>

Accept(S) == Move(S, "new", "accepted") /\ UNCHANGED queue

(* In any order, each once.                                                *)
Enqueue(S) ==
    /\ Move(S, "accepted", "queued")
    /\ \E q \in [1 .. Cardinality(S) -> S] :
          /\ \A i, j \in DOMAIN q : q[i] = q[j] => i = j
          /\ queue' = queue \o q

(* Only the oldest command starts, and only when no other is under way.    *)
Start ==
    /\ queue # <<>>
    /\ \A c \in Commands : phase[c] # "current"
    /\ Move({Head(queue)}, "queued", "current")
    /\ queue' = Tail(queue)

Settle(c) == Move({c}, "current", "settled") /\ UNCHANGED queue

Record(S) == Move(S, "settled", "recorded") /\ UNCHANGED queue

Lose(S) == /\ \E p \in {"accepted", "current", "settled"} : Move(S, p, "lost")
           /\ UNCHANGED queue

Next ==
    \/ \E S \in SUBSET Commands : Accept(S) \/ Enqueue(S) \/ Record(S) \/ Lose(S)
    \/ Start
    \/ \E c \in Commands : Settle(c)

Spec == Init /\ [][Next]_vars
=============================================================================
