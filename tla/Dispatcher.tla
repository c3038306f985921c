----------------------------- MODULE Dispatcher -----------------------------
(***************************************************************************)
(* What the server's request pool promises the peers that connect to it,   *)
(* without threads, mutexes, wake-ups, counters or descriptors: first come *)
(* first served, each connection once; after Shut nothing more is taken,   *)
(* what is being served is finished, and only then the rest is discarded.  *)
(***************************************************************************)
EXTENDS Sequences

CONSTANT Conns

VARIABLES
  arriving,     (* connections that have not been submitted                *)
  queue,        (* those that wait, the oldest first                       *)
  serving,
  finished,
  phase         (* "open", "closing" or "closed"                           *)

vars == <<arriving, queue, serving, finished, phase>>

Init ==
  /\ arriving = Conns /\ queue = <<>>
  /\ serving = {} /\ finished = {}
  /\ phase = "open"

Submit(c) ==
  /\ phase = "open" /\ c \in arriving
  /\ arriving' = arriving \ {c}
  /\ queue' = Append(queue, c)
  /\ UNCHANGED <<serving, finished, phase>>

Take ==
  /\ phase = "open" /\ queue # <<>>
  /\ queue' = Tail(queue)
  /\ serving' = serving \cup {Head(queue)}
  /\ UNCHANGED <<arriving, finished, phase>>

Finish(c) ==
  /\ phase # "closed" /\ c \in serving
  /\ serving' = serving \ {c}
  /\ finished' = finished \cup {c}
  /\ UNCHANGED <<arriving, queue, phase>>

Shut ==
  /\ phase = "open" /\ phase' = "closing"
  /\ UNCHANGED <<arriving, queue, serving, finished>>

Discard ==
  /\ phase = "closing" /\ serving = {}
  /\ phase' = "closed" /\ queue' = <<>>
  /\ UNCHANGED <<arriving, serving, finished>>

Next ==
  \/ \E c \in Conns : Submit(c) \/ Finish(c)
  \/ Take \/ Shut \/ Discard

Spec == Init /\ [][Next]_vars
=============================================================================
