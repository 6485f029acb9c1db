------------------------------- MODULE UndoLog -------------------------------
(***************************************************************************)
(* What undo and redo promise: a log of the pictures a user can go back    *)
(* and forward to.  History implements it with groups of inverted ops.     *)
(*                                                                         *)
(* A gesture in progress lies on top of the log: it lifts strokes off the  *)
(* picture and becomes an entry when it settles.  Strokes on which somebody *)
(* else, or an undo pressed in mid-gesture, has overridden an entry are     *)
(* foreign: the log promises nothing about them any more.                  *)
(***************************************************************************)
EXTENDS Naturals, Sequences, SequencesExt

CONSTANTS Strokes, MaxHistory

VARIABLES
  now,      \* the picture, without the gesture in progress
  lifted,   \* strokes the gesture in progress has taken off it
  past,     \* pictures undo goes back to, the newest last
  future,   \* pictures redo goes forward to, the next one last
  foreign   \* strokes the log no longer speaks of

vars == <<now, lifted, past, future, foreign>>

Tracked == Strokes \ foreign
Newest(log) == IF Len(log) > MaxHistory THEN Tail(log) ELSE log
Without(log, gone) == [i \in DOMAIN log |-> log[i] \ gone]

\* Every picture of the log with s where it was not, and without s where it was.
Flipped(picture, s) == IF s \in picture THEN picture \ {s} ELSE picture \cup {s}
AllFlipped(log, s)  == [i \in DOMAIN log |-> Flipped(log[i], s)]

Init ==
  /\ now = {} /\ lifted = {} /\ past = <<>> /\ future = <<>> /\ foreign = {}

\* An edit makes a new picture and ends what could be redone.
Do ==
  /\ \E new \in SUBSET Tracked :
       /\ lifted \subseteq new
       /\ now' = new
  /\ past' = Newest(Append(past, now))
  /\ future' = <<>>
  /\ UNCHANGED <<lifted, foreign>>

Lift ==
  /\ \E s \in now \ lifted : lifted' = lifted \cup {s}
  /\ UNCHANGED <<now, past, future, foreign>>

Settle ==
  /\ now' = now \ lifted
  /\ lifted' = {}
  /\ past' = Newest(Append(past, now))
  /\ future' = <<>>
  /\ UNCHANGED foreign

\* From picture now to picture, a step back or forward in the log, keeping what
\* the gesture in progress and that step do not both touch.
Step(picture, from, to) ==
  LET clash == lifted \cap ((picture \ now) \cup (now \ picture)) IN
    /\ foreign' = foreign \cup clash
    /\ now' = picture \ clash
    /\ lifted' = lifted \ clash
    /\ past' = Without(from, clash)
    /\ future' = Without(to, clash)

Undo == past # <<>>   /\ Step(Last(past), Front(past), Append(future, now))
Redo == future # <<>> /\ Step(Last(future), Append(past, now), Front(future))

\* Somebody else draws or erases a stroke the log has no entry for ...
Outside ==
  \E s \in Tracked \ lifted :
    /\ \A i \in DOMAIN past   : s \in past[i]   <=> s \in now
    /\ \A i \in DOMAIN future : s \in future[i] <=> s \in now
    /\ now' = Flipped(now, s)
    /\ past' = AllFlipped(past, s)
    /\ future' = AllFlipped(future, s)
    /\ UNCHANGED <<lifted, foreign>>

\* ... or one it has.
Override ==
  \E s \in Tracked :
    /\ foreign' = foreign \cup {s}
    /\ now' = now \ {s}
    /\ lifted' = lifted \ {s}
    /\ past' = Without(past, {s})
    /\ future' = Without(future, {s})

Next == Do \/ Lift \/ Settle \/ Undo \/ Redo \/ Outside \/ Override

Spec == Init /\ [][Next]_vars
=============================================================================
