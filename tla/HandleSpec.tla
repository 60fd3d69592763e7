----------------------------- MODULE HandleSpec -----------------------------
(***************************************************************************)
(* What the handle table promises to the rest of bio (bio.h, group         *)
(* "handle"): bio_make_handle returns a handle that was never returned      *)
(* before, the handle stands for its object until bio_close_handle is       *)
(* called with it and the right tag, and stands for nothing ever after.     *)
(* Slots, generations and the free list do not appear here.                 *)
(***************************************************************************)
CONSTANTS Handle, Obj, Tag

VARIABLES
    bound,   \* function: each open handle -> the object and tag it stands for
    used     \* every handle ever returned by bio_make_handle

vars == <<bound, used>>

Init ==
    /\ bound = [h \in {} |-> [obj |-> 0, tag |-> 0]]
    /\ used = {}

Make(obj, tag) ==
    \E h \in Handle \ used :
        /\ used' = used \cup {h}
        /\ bound' = [g \in DOMAIN bound \cup {h} |->
                        IF g = h THEN [obj |-> obj, tag |-> tag] ELSE bound[g]]

\* Closing a stale handle, or with another tag, is a no-op: a stuttering step.
Close(h, tag) ==
    /\ h \in DOMAIN bound
    /\ bound[h].tag = tag
    /\ bound' = [g \in DOMAIN bound \ {h} |-> bound[g]]
    /\ UNCHANGED used

Next ==
    \/ \E obj \in Obj, tag \in Tag : Make(obj, tag)
    \/ \E h \in Handle, tag \in Tag : Close(h, tag)

Spec == Init /\ [][Next]_vars
=============================================================================
