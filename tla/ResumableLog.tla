---------------------------- MODULE ResumableLog ----------------------------
(***************************************************************************)
(* What a layer's output promises to whoever resumes or reads it, in row   *)
(* counts: rows are recorded as computed, reach durable storage, are       *)
(* confirmed there, and are published to readers.  Work that is not        *)
(* confirmed may be lost and redone; confirmed rows never are.             *)
(***************************************************************************)
EXTENDS Naturals

VARIABLES
  recorded,   \* rows a resumed run skips
  durable,    \* the recorded rows in front of the first one not in storage
  confirmed,  \* the recorded rows in front of the first one not confirmed
  published   \* rows the last finished run announced

vars == <<recorded, durable, confirmed, published>>

Init == recorded = 0 /\ durable = 0 /\ confirmed = 0 /\ published = 0

(* A recomputed row may still be in storage from an earlier attempt.       *)
Record ==
  /\ recorded' > recorded
  /\ durable' >= durable /\ durable' <= recorded'
  /\ UNCHANGED <<confirmed, published>>

Store ==
  /\ durable' > durable /\ durable' <= recorded
  /\ UNCHANGED <<recorded, confirmed, published>>

Confirm ==
  /\ confirmed' > confirmed /\ confirmed' <= durable
  /\ UNCHANGED <<recorded, durable, published>>

Lose ==
  /\ recorded' >= confirmed /\ recorded' < recorded
  /\ durable' = IF durable <= recorded' THEN durable ELSE recorded'
  /\ UNCHANGED <<confirmed, published>>

Publish ==
  /\ published' = recorded
  /\ UNCHANGED <<recorded, durable, confirmed>>

Next == Record \/ Store \/ Confirm \/ Lose \/ Publish

Spec == Init /\ [][Next]_vars
=============================================================================
