---------------------------- MODULE MCIoService ----------------------------
(* Instances of IoService for TLC. *)
EXTENDS IoService, TLC, FiniteSetsExt

CONSTANTS p1, p2, w1, w2

Posters1 == {p1}
Posters2 == {p1, p2}
Workers1 == {w1}
Workers2 == {w1, w2}

StopAndJoin == {"none", "join"}
NeverStops == {}

\* pendingCount is the number of tasks posted and not finished, up to the
\* posters between their push and their fetch_add: a worker that finishes
\* first makes it wrap, and the late fetch_add repairs it.
PendingCountExact ==
    LET uncounted == Cardinality({p \in Poster : pc[p] \in {"link", "count"}})
        unfinished == MapThenSumSet(LAMBDA w : Len(batch[w]), Worker)
    IN  pendingCount =
          (Len(mailbox) + Len(local) + Len(Unread) + unfinished - uncounted) % SizeMod
=============================================================================
