----------------------------- MODULE MCLibrary ------------------------------
(***************************************************************************)
(* Library with a careless caller and with lazy users, or, in the other    *)
(* behaviours, with callers that only clean up what they hold, and no lazy *)
(* users; they ask for the default number of threads or for too many.      *)
(***************************************************************************)
EXTENDS Library, TLC

CONSTANTS p1, p2, p3

ThreeCallers == {p1, p2, p3}
OneCareless == {p3}
TwoCounts == {2, 5}

VARIABLE balanced

\* The default, and a number beyond kMaxThreadPoolSize.
Balanced == INSTANCE Library WITH Careless <- {}, ThreadCount <- {0, 5}, Lazy <- FALSE

\* A step inside a call does not depend on what the two differ in.
AllSpec ==
    /\ balanced \in BOOLEAN /\ Init
    /\ [][/\ UNCHANGED balanced
          /\ IF balanced THEN Balanced!Next ELSE Next]_<<vars, balanced>>
    /\ \A p \in Caller : WF_vars(Continue(p))

\* When all callers clean up only what they initialized, g_initializeRefCount is exact,
\* who holds the library finds it running whatever the others do, and with the number of
\* threads it asked for.
HoldersServed ==
    balanced => Balanced!RefCountExact /\ Balanced!HeldIsReady /\ Balanced!ThreadsAsAsked
=============================================================================
