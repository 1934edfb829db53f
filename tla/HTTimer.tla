------------------------------- MODULE HTTimer -------------------------------
(***************************************************************************)
(* The list of timers (HTTimer.c): sorted by the time they expire, with a  *)
(* repetitive timer put back when it is dispatched.                        *)
(*                                                                         *)
(* Time is relative: `left' is what `expires - now' is in the code, 0 or   *)
(* less for a timer that has expired.                                      *)
(***************************************************************************)
EXTENDS HTList, SequencesExt, Integers

Millis == Nat \ {0}     \* a timer of 0 ms is dispatched where it is made

\* struct _HTTimer: who it is for, when it expires and the period it has.
NewTimer(id, millis) == [id |-> id, left |-> millis, millis |-> millis]

\* The element of a list that is the timer `id' (HTList_elementOf).
PlaceOf(ts, id) == {i \in DOMAIN ts : ts[i].id = id}
HasTimer(ts, id) == PlaceOf(ts, id) # {}

\* Mutant: new timers go to the head of the list.
InsertAfterAtHead(ts, p, t) == InsertAt(ts, 1, t)

\* HTTimer_new, "Sort new element into list": the search starts behind element
\* p and stops at the first timer that does not expire before the new one.
NotBefore(ts, p, t) == {i \in DOMAIN ts : i > p /\ ts[i].left >= t.left}
InsertAfter(ts, p, t) ==
    IF NotBefore(ts, p, t) = {} THEN Append(ts, t)
    ELSE InsertAt(ts, Min(NotBefore(ts, p, t)), t)

\* HTTimer_new for a timer that exists: out of the list, and the search goes on
\* from where it was.
Restart(ts, i, millis) ==
    InsertAfter(RemoveAt(ts, i), i - 1, NewTimer(ts[i].id, millis))

\* HTTimer_new.
SetTimer(ts, id, millis) ==
    IF HasTimer(ts, id)
    THEN Restart(ts, CHOOSE i \in PlaceOf(ts, id) : TRUE, millis)
    ELSE InsertAfter(ts, 0, NewTimer(id, millis))

\* HTTimer_refresh: a repetitive timer starts its period again.
Refresh(ts, id) ==
    IF HasTimer(ts, id)
    THEN LET i == CHOOSE i \in PlaceOf(ts, id) : TRUE IN Restart(ts, i, ts[i].millis)
    ELSE ts

\* HTTimer_delete.
DeleteTimer(ts, id) == Sublist(ts, {i \in DOMAIN ts : ts[i].id # id})

\* Timers that had expired `behind' ago, when HTTimer_next took the time: it
\* dispatches the first of them.
Expired(ts, behind) == {i \in DOMAIN ts : ts[i].left + behind <= 0}

Elapse(ts) == [i \in DOMAIN ts |-> [ts[i] EXCEPT !.left = @ - 1]]

\* "First element in Timers is the next to expire."
Sorted(ts) == \A i, j \in DOMAIN ts : i < j => ts[i].left <= ts[j].left
==============================================================================
