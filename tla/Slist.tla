------------------------------- MODULE Slist -------------------------------
(***************************************************************************)
(* The singly linked list of libraries/liblist, which every registry of    *)
(* the kernel (processes, devices, TTYs, block devices, buses, file        *)
(* systems, mount points, modules) is built on.  A list is the sequence of *)
(* its elements from slh_first on; an element is linked into one list at   *)
(* most once, so an element names its link.                                *)
(*                                                                         *)
(* The operators are total functions on intervals rather than recursive    *)
(* walks, so that the proof modules can reason about them.                 *)
(***************************************************************************)
EXTENDS Integers, Sequences

\* The elements SLIST_FOREACH visits.
SlistElems(s) == {s[i] : i \in 1..Len(s)}

\* Every element is linked once.
SlistNoDup(s) == \A i, j \in 1..Len(s) : s[i] = s[j] => i = j

\* Where the walk that looks for the element e stops.
SlistFind(s, e) == CHOOSE i \in 1..Len(s) : s[i] = e

\* SLIST_INSERT_HEAD: e points at the old first element and becomes the first.
SlistInsertHead(s, e) == [i \in 1..(Len(s) + 1) |-> IF i = 1 THEN e ELSE s[i - 1]]

\* SLIST_REMOVE of an element that is in the list (the macro runs off the end
\* of the list when it is not, so every caller has e \in SlistElems(s)).
SlistRemove(s, e) ==
    LET k == SlistFind(s, e)
    IN  [i \in 1..(Len(s) - 1) |-> IF i < k THEN s[i] ELSE s[i + 1]]

\* SLIST_NEXT of the element e, which is in the list, or null at the end.
SlistNext(s, e, null) ==
    LET k == SlistFind(s, e) IN IF k < Len(s) THEN s[k + 1] ELSE null

\* The i-th element counted from zero, or null: the xxx_get(i) walks.
SlistGet(s, i, null) == IF i \in 0..(Len(s) - 1) THEN s[i + 1] ELSE null

\* The list of values kept on top of it: a value is in it once.
liblist_indexof(s, e) == IF e \in SlistElems(s) THEN SlistFind(s, e) - 1 ELSE -1
liblist_add(s, e) == IF liblist_indexof(s, e) = -1 THEN SlistInsertHead(s, e) ELSE s
liblist_remove(s, e) == IF liblist_indexof(s, e) # -1 THEN SlistRemove(s, e) ELSE s
liblist_get(s, i, null) == SlistGet(s, i, null)
=============================================================================
