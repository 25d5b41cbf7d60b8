------------------------------- MODULE Delivery -------------------------------
(***************************************************************************)
(* What the outbox promises of each row, whoever sweeps it: every copy the *)
(* recipient gets beyond the recorded one is a lost acknowledgement, an    *)
(* attempt is recorded at most MaxAttempts times, a row that was sent or   *)
(* has used up its attempts is not attempted again.  Outbox implements it. *)
(* Revive, and Deliver or Refuse of a cancelled row, are part of what the  *)
(* program does: startup cancels rows that running workers already hold.   *)
(***************************************************************************)
EXTENDS Integers

CONSTANTS Rows, MaxAttempts

VARIABLES state,   \* what is still to happen to the row
          tries,   \* recorded attempts
          copies   \* copies the recipient has, a copy awaiting its record left out

vars == <<state, tries, copies>>

States == {"none", "owed", "sent", "exhausted", "cancelled"}

TypeOK ==
  /\ state \in [Rows -> States]
  /\ tries \in [Rows -> 0..MaxAttempts]
  /\ copies \in [Rows -> Nat]

Init ==
  /\ state = [i \in Rows |-> "none"]
  /\ tries = [i \in Rows |-> 0]
  /\ copies = [i \in Rows |-> 0]

Accept(i) ==
  /\ state[i] = "none"
  /\ state' = [state EXCEPT ![i] = "owed"]
  /\ UNCHANGED <<tries, copies>>

Attempt(i) ==
  /\ state[i] \in {"owed", "cancelled"}
  /\ tries[i] < MaxAttempts
  /\ tries' = [tries EXCEPT ![i] = @ + 1]

Deliver(i) ==
  /\ Attempt(i)
  /\ state' = [state EXCEPT ![i] = "sent"]
  /\ copies' = [copies EXCEPT ![i] = @ + 1]

Refuse(i) ==
  /\ Attempt(i)
  /\ state' = [state EXCEPT ![i] =
                 IF tries[i] + 1 < MaxAttempts THEN "owed" ELSE "exhausted"]
  /\ UNCHANGED copies

\* The recipient got a copy and the program does not know.
LoseAck(i) ==
  /\ state[i] \in {"owed", "cancelled"}
  /\ copies' = [copies EXCEPT ![i] = @ + 1]
  /\ UNCHANGED <<state, tries>>

Expire(S) ==
  /\ \A i \in S : state[i] \in {"owed", "exhausted"}
  /\ state' = [i \in Rows |-> IF i \in S THEN "cancelled" ELSE state[i]]
  /\ UNCHANGED <<tries, copies>>

Revive(i) ==
  /\ state[i] = "cancelled"
  /\ tries[i] < MaxAttempts
  /\ state' = [state EXCEPT ![i] = "owed"]
  /\ UNCHANGED <<tries, copies>>

Next ==
  \/ \E i \in Rows : \/ Accept(i) \/ Deliver(i) \/ Refuse(i)
                     \/ LoseAck(i) \/ Revive(i)
  \/ \E S \in SUBSET Rows : Expire(S)

Spec == Init /\ [][Next]_vars
==============================================================================
