----------------------------- MODULE BoundedGate -----------------------------
(***************************************************************************)
(* What the optimization gate promises, with no condition variable, no     *)
(* counters and no event loop: a set of running requests of at most        *)
(* MaxActive members, a set of queued ones of at most MaxQueued, and a     *)
(* queue that only receives a request while every slot is taken.           *)
(***************************************************************************)
EXTENDS Naturals, FiniteSets

CONSTANTS Requests, MaxActive, MaxQueued

VARIABLES running, queued

vars == <<running, queued>>

Outside(r) == r \notin running \cup queued

SlotFree == Cardinality(running) < MaxActive

Init == running = {} /\ queued = {}

Start(r) ==
  /\ Outside(r) /\ SlotFree
  /\ running' = running \cup {r}
  /\ UNCHANGED queued

Queue(r) ==
  /\ Outside(r) /\ ~SlotFree
  /\ Cardinality(queued) < MaxQueued
  /\ queued' = queued \cup {r}
  /\ UNCHANGED running

Promote(r) ==
  /\ r \in queued /\ SlotFree
  /\ queued' = queued \ {r}
  /\ running' = running \cup {r}

Finish(r) ==
  /\ r \in running
  /\ running' = running \ {r}
  /\ UNCHANGED queued

Leave(r) ==
  /\ r \in queued
  /\ queued' = queued \ {r}
  /\ UNCHANGED running

Next == \E r \in Requests : Start(r) \/ Queue(r) \/ Promote(r) \/ Finish(r) \/ Leave(r)

Spec == Init /\ [][Next]_vars
=============================================================================
