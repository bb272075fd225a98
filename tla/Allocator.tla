----------------------------- MODULE Allocator -----------------------------
(* What the users of kmalloc and kfree rely on. Memory is Size units of 16   *)
(* bytes. An extent <<lo, hi>> is the units lo .. hi - 1, a header first.    *)
(* Extents never overlap, a request is turned down only if no run of units   *)
(* outside every extent could hold it, and a free gives back just its own.   *)
EXTENDS Integers

CONSTANTS Size, Header, Requests

VARIABLES taken,  \* the extents in use
          last    \* the last request, and the extent or <<>> it was answered with

Extents == {e \in (0..Size) \X (0..Size) : e[1] < e[2]}
Apart(d, e) == d[2] <= e[1] \/ e[2] <= d[1]
Unowned(e) == \A d \in taken : Apart(d, e)

(* An extent with room for n bytes behind its header.                        *)
Holds(e, n) == 16 * (e[2] - e[1] - Header) >= n

Init == taken = {} /\ last = [want |-> 0, got |-> <<>>]

Alloc(n) ==
    \E e \in Extents :
        /\ n > 0 /\ Unowned(e) /\ Holds(e, n)
        /\ taken' = taken \cup {e}
        /\ last' = [want |-> n, got |-> e]

Refuse(n) ==
    /\ n > 0 => \A e \in Extents : Unowned(e) => ~Holds(e, n)
    /\ last' = [want |-> n, got |-> <<>>]
    /\ UNCHANGED taken

Release == \E e \in taken : taken' = taken \ {e} /\ UNCHANGED last

Next == (\E n \in Requests : Alloc(n) \/ Refuse(n)) \/ Release

Spec == Init /\ [][Next]_<<taken, last>>
=============================================================================
