--------------------------- MODULE PageAllocator ----------------------------
(***************************************************************************)
(* What libs/mm/buddy.c promises its callers.  A caller asks for a run of   *)
(* contiguous pages of some order and gets one that nobody holds; it is     *)
(* refused only when the held pages leave no run of that order; and what it *)
(* gives back can be handed out again.                                      *)
(***************************************************************************)
EXTENDS Naturals

CONSTANT Runs          \* Runs[k]: the sets of pages that are a run of order k

VARIABLES held,        \* the runs in the hands of callers
          answer       \* the last request since a release, and what it was told

vars == <<held, answer>>

Init == held = {} /\ answer = <<0, "none">>

Fits(r) == \A h \in held : r \cap h = {}

Grant(k)  == \E r \in Runs[k] : /\ Fits(r)
                                /\ held' = held \cup {r}
                                /\ answer' = <<k, "granted">>
Refuse(k) == /\ \A r \in Runs[k] : ~Fits(r)
             /\ answer' = <<k, "refused">>
             /\ UNCHANGED held
Release   == \E r \in held : held' = held \ {r} /\ answer' = <<0, "none">>

Next == Release \/ \E k \in DOMAIN Runs : Grant(k) \/ Refuse(k)

Spec == Init /\ [][Next]_vars
=============================================================================
