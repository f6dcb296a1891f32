----------------------------- MODULE DurableLog -----------------------------
(***************************************************************************)
(* What enqueueBatch promises to the committers that share a manifest: a   *)
(* log that only grows, by whole groups, numbered without gaps.  An        *)
(* attempt to append a group adds it at most once.  It is reported a       *)
(* success only when it has; an attempt that was reported a failure may    *)
(* have added the group, or may still do so.                               *)
(***************************************************************************)
EXTENDS Integers, Sequences

CONSTANTS
  Producers,
  Groups, Size,   \* groups a producer commits, one after the other; entries of each
  Redelivers      \* the store's client may send a request again by itself

VARIABLES
  log,       \* the queue entries ever committed
  tries,     \* attempts made at each group
  landed,    \* attempts that have added their group
  acked      \* groups reported committed

vars == <<log, tries, landed, acked>>

\* The entries of group g of p, numbered from n on.
Numbered(p, g, n) ==
  [i \in 1 .. Size[p][g] |-> [sequence |-> n + i - 1, location |-> <<p, g, i>>]]

Init ==
  /\ log = <<>>
  /\ tries = [p \in Producers |-> [g \in 1 .. Groups |-> 0]]
  /\ landed = {} /\ acked = {}

\* A group is tried once the one before it is committed.
Try(p, g) ==
  /\ <<p, g>> \notin acked
  /\ g > 1 => <<p, g - 1>> \in acked
  /\ tries' = [tries EXCEPT ![p][g] = @ + 1]
  /\ UNCHANGED <<log, landed, acked>>

Add(p, g, a) ==
  /\ Redelivers \/ <<p, g, a>> \notin landed
  /\ log' = log \o Numbered(p, g, Len(log))
  /\ landed' = landed \cup {<<p, g, a>>}
  /\ UNCHANGED <<tries, acked>>

Ack(p, g) ==
  /\ <<p, g, tries[p][g]>> \in landed
  /\ acked' = acked \cup {<<p, g>>}
  /\ UNCHANGED <<log, tries, landed>>

Next ==
  \E p \in Producers, g \in 1 .. Groups :
    Try(p, g) \/ Ack(p, g) \/ \E a \in 1 .. tries[p][g] : Add(p, g, a)

Spec == Init /\ [][Next]_vars
=============================================================================
