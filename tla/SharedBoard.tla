----------------------------- MODULE SharedBoard -----------------------------
(***************************************************************************)
(* What the replication promises, with no network in it: every client has  *)
(* a view of one shared board, and so has the server (the hub).  A client  *)
(* edits its own view at once; what others see of the edit comes later, in *)
(* any order and grouping, but no view ever shows anything that was not    *)
(* issued, and no view ever goes back.                                     *)
(***************************************************************************)
EXTENDS Lww

VARIABLES
  view,  \* view[c]: what client c sees
  hub,   \* what the server holds
  log    \* every edit so far

bvars == <<view, hub, log>>

Init ==
  /\ view = [c \in Clients |-> Empty]
  /\ hub = Empty
  /\ log = {}

\* An edit is stamped by its client, like no other, and newer than all the
\* client can see.
Edit(c, op) ==
  /\ op.ts.client = c
  /\ \A other \in log : other.ts # op.ts
  /\ \A x \in Slots : Before(view[c][x], op.ts)
  /\ log' = log \cup {op}
  /\ view' = [view EXCEPT ![c] = ApplyTo(@, op)]
  /\ hub' = hub

\* A view moves from a to b.
Learns(a, b) == b \in Board /\ Below(a, b) /\ Genuine(b, log)

Learn(c) ==
  /\ view' \in [Clients -> Board]
  /\ Learns(view[c], view'[c])
  /\ \A d \in Clients \ {c} : view'[d] = view[d]
  /\ UNCHANGED <<hub, log>>

LearnHub == Learns(hub, hub') /\ UNCHANGED <<view, log>>

Next ==
  \/ \E c \in Clients : (\E op \in log' : Edit(c, op)) \/ Learn(c)
  \/ LearnHub

Spec == Init /\ [][Next]_bvars
=============================================================================
