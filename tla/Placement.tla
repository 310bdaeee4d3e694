----------------------------- MODULE Placement ------------------------------
(***************************************************************************)
(* What laying out a section promises: items are put into a container one  *)
(* after the other, each behind all that are already there, an item stays  *)
(* where it was put, and the container ends where its last item ends.      *)
(* Alignment decides how much room is left between two items; it is not    *)
(* said here.                                                              *)
(***************************************************************************)
EXTENDS Integers

CONSTANTS
    Containers,     \* what is laid out, each by itself
    Items,          \* what may be put into a container
    Size            \* Size[i]: the room item i takes

Unplaced == -1      \* the offset of an item that is not in the container
Open == -1          \* the end of a container that may still grow

VARIABLES
    start,          \* start[c][i]: the offset of item i in container c
    end             \* the size of the containers

Placed(c) == {i \in Items : start[c][i] # Unplaced}

\* Offset n of container c is behind everything that was put into it.
Behind(c, n) == \A i \in Placed(c) : start[c][i] + Size[i] <= n

Init ==
    /\ start = [c \in Containers |-> [i \in Items |-> Unplaced]]
    /\ end = [c \in Containers |-> Open]

Place(c, i) ==
    /\ end[c] = Open
    /\ i \notin Placed(c)
    /\ start'[c][i] \in Nat
    /\ Behind(c, start'[c][i])
    /\ start' = [start EXCEPT ![c][i] = start'[c][i]]
    /\ UNCHANGED end

\* The container is closed, without room behind its last item.
Close(c) ==
    /\ end[c] = Open
    /\ end'[c] \in Nat
    /\ Behind(c, end'[c])
    /\ end'[c] = 0 \/ \E i \in Placed(c) : end'[c] = start[c][i] + Size[i]
    /\ end' = [end EXCEPT ![c] = end'[c]]
    /\ UNCHANGED start

Next == \E c \in Containers : Close(c) \/ \E i \in Items : Place(c, i)

Spec == Init /\ [][Next]_<<start, end>>
=============================================================================
