------------------------------- MODULE Deques -------------------------------
(* The contents of a std::deque, and what is left when some are erased.    *)
EXTENDS Integers, Sequences

\* The elements of q.
Entries(q) == {q[i] : i \in 1..Len(q)}

\* The elements of q that are not in gone, in their order.
Erase(q, gone) ==
    LET F[i \in 0..Len(q)] ==
            IF i = 0 THEN <<>>
            ELSE IF q[i] \in gone THEN F[i - 1] ELSE Append(F[i - 1], q[i])
    IN  F[Len(q)]

\* The ways to list the indices in stay, which are 1..n at most, in their order: there
\* is one.
Listings(stay, n) ==
    {f \in UNION {[1..k -> stay] : k \in 0..n} :
        /\ \A i, j \in DOMAIN f : i < j => f[i] < f[j]
        /\ \A m \in stay : \E i \in DOMAIN f : f[i] = m}

\* What is at the listed indices of q.
Picked(q, f) == [i \in 1..Len(f) |-> q[f[i]]]
=============================================================================
