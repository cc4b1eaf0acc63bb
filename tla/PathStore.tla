----------------------------- MODULE PathStore -----------------------------
(***************************************************************************)
(* What the remote store promises: every path has the content last put at  *)
(* it, and loses it only when somebody asked for that path to be deleted.  *)
(***************************************************************************)
CONSTANTS Paths, Nothing

VARIABLES
  store,   \* store[p] : the content that can be fetched for path p
  asked    \* paths somebody is deleting

vars == <<store, asked>>

Init == store = [p \in Paths |-> Nothing] /\ asked = {}

Put == \E p \in Paths :
  /\ store'[p] # Nothing
  /\ store' = [store EXCEPT ![p] = store'[p]]
  /\ UNCHANGED asked

Remove == \E gone \in SUBSET asked :
  /\ store' = [p \in Paths |-> IF p \in gone THEN Nothing ELSE store[p]]
  /\ UNCHANGED asked

Ask == asked' \subseteq Paths /\ UNCHANGED store

Next == Put \/ Remove \/ Ask

Spec == Init /\ [][Next]_vars
=============================================================================
