------------------------------- MODULE Mailbox -------------------------------
(***************************************************************************)
(* What a modem worker promises of each SMS segment (modem.Handler's       *)
(* comment: deleted from the modem only after it was stored): a segment is *)
(* on the SIM, then on the SIM and in a saved message, then only there.    *)
(* The network may store a segment again that it has stored before.        *)
(* ModemWorker implements it as long as no answer of the modem is late.    *)
(***************************************************************************)
CONSTANTS
  Segments,  \* the segments the network may store
  Dropped    \* those that are deleted unsaved: status reports

VARIABLE where

Places == {"coming", "stored", "saved", "gone"}

TypeOK == where \in [Segments -> Places]

Init == where = [g \in Segments |-> "coming"]

Store(g) ==
  /\ \/ where[g] = "coming"
     \/ where[g] = "gone" /\ g \in Dropped
  /\ where' = [where EXCEPT ![g] = "stored"]

\* Stored once more after it was deleted; its message is saved already.
StoreAgain(g) ==
  /\ where[g] = "gone" /\ g \notin Dropped
  /\ where' = [where EXCEPT ![g] = "saved"]

\* The segments of one message are saved together.
Save(G) ==
  /\ \A g \in G : where[g] \in {"stored", "saved"} /\ g \notin Dropped
  /\ where' = [g \in Segments |-> IF g \in G THEN "saved" ELSE where[g]]

Delete(g) ==
  /\ where[g] = IF g \in Dropped THEN "stored" ELSE "saved"
  /\ where' = [where EXCEPT ![g] = "gone"]

Next ==
  \/ \E g \in Segments : Store(g) \/ StoreAgain(g) \/ Delete(g)
  \/ \E G \in SUBSET Segments : Save(G)

Spec == Init /\ [][Next]_where
==============================================================================
