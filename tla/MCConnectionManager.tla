------------------------ MODULE MCConnectionManager ------------------------
(* One backend behind a breaker; or two backends and no breaker, so that a *)
(* service goes on with the backend that is left.  A behaviour is one.     *)
EXTENDS ConnectionManager, TLC

CONSTANTS s1, b1, b2

OneService == {s1}
OneBackend == {b1}
TwoBackends == {b1, b2}

VARIABLE spread

Spread == INSTANCE ConnectionManager
    WITH Backend <- TwoBackends, CircuitBreakerEnabled <- FALSE,
         MaxPoolSize <- 2, MaxConnectionId <- 2

BothInit == spread \in BOOLEAN /\ IF spread THEN Spread!Init ELSE Init
BothNext == spread' = spread /\ IF spread THEN Spread!Next ELSE Next
Maintenance == spread' = spread /\ IF spread THEN Spread!Maintain ELSE Maintain

bothVars == <<vars, spread>>

BothSpec == BothInit /\ [][BothNext]_bothVars /\ WF_bothVars(Maintenance)
=============================================================================
