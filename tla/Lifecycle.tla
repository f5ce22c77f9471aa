----------------------------- MODULE Lifecycle ------------------------------
(***************************************************************************)
(* What an application is promised about the controllers it sees, with no  *)
(* packets and no threads: every controller is plugged in once, shown at   *)
(* most once, in the order of plugging in, and taken away again only after *)
(* it was unplugged and never to come back.                                *)
(***************************************************************************)
EXTENDS Naturals

CONSTANT Handle     \* controllers, numbered in the order they are plugged in

VARIABLES plug, view

vars == <<plug, view>>

TypeOK ==
    /\ plug \in [Handle -> {"unused", "in", "out"}]
    /\ view \in [Handle -> {"unseen", "shown", "gone"}]

Init ==
    /\ plug = [h \in Handle |-> "unused"]
    /\ view = [h \in Handle |-> "unseen"]

PlugIn(h) ==
    /\ plug[h] = "unused"
    /\ \A g \in Handle : g < h => plug[g] # "unused"
    /\ plug' = [plug EXCEPT ![h] = "in"]
    /\ UNCHANGED view

Unplug(h) ==
    /\ plug[h] = "in"
    /\ plug' = [plug EXCEPT ![h] = "out"]
    /\ UNCHANGED view

\* A controller may never be shown (its packet was lost), but not late.
Show(h) ==
    /\ plug[h] # "unused"
    /\ \A g \in Handle : g >= h => view[g] = "unseen"
    /\ view' = [view EXCEPT ![h] = "shown"]
    /\ UNCHANGED plug

Hide(h) ==
    /\ plug[h] = "out" /\ view[h] = "shown"
    /\ view' = [view EXCEPT ![h] = "gone"]
    /\ UNCHANGED plug

Next == \E h \in Handle : PlugIn(h) \/ Unplug(h) \/ Show(h) \/ Hide(h)

Spec == Init /\ [][Next]_vars
=============================================================================
