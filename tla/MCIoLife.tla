------------------------------ MODULE MCIoLife ------------------------------
(* Two services, one or the other: one that is started, stopped and        *)
(* started again, and one that nobody stops, with more workers and tasks.  *)
EXTENDS MCIoService

VARIABLE which

Live == INSTANCE IoService
    WITH Poster <- Posters1, Worker <- Workers2, MaxPosts <- 2, MaxStarts <- 1,
         OwnerCalls <- NeverStops, SpawnFails <- FALSE, Budget <- 2, MaxSpin <- 1

Lived == which = "live"

LifeInit == which \in {"restarted", "live"} /\ IF Lived THEN Live!Init ELSE Init

LifeNext == which' = which /\ IF Lived THEN Live!Next ELSE Next

PollerRuns == which' = which /\ IF Lived THEN Live!PollerStep ELSE PollerStep
BufferRuns == which' = which /\ IF Lived THEN Live!FlushBuffer ELSE FlushBuffer
OwnerRuns == which' = which /\ IF Lived THEN Live!OwnerStep ELSE OwnerStep
WorkerRuns(w) == which' = which /\ IF Lived THEN Live!WorkerStep(w) ELSE w \in Worker /\ WorkerStep(w)
PosterRuns(p) == which' = which /\ IF Lived THEN Live!PosterStep(p) ELSE PosterStep(p)

lifeVars == <<vars, which>>

LifeSpec ==
    /\ LifeInit /\ [][LifeNext]_lifeVars
    /\ WF_lifeVars(PollerRuns) /\ WF_lifeVars(BufferRuns) /\ WF_lifeVars(OwnerRuns)
    /\ \A w \in Workers2 : WF_lifeVars(WorkerRuns(w))
    /\ \A p \in Posters1 : WF_lifeVars(PosterRuns(p))

\* No task is lost, duplicated or overtaken on its way to the workers, and each
\* runs once, also when it waits in a container or in a worker's batch while the
\* service is stopped and started again.
TasksSurvive ==
    /\ HandOverInOrder
    /\ IF Lived THEN Live!RunsOnce ELSE RunsOnce

\* Once stop() or join() has cleared running, the poller thread leaves its loop, also
\* when it was blocked in epoll_wait; and with two workers all posted tasks are executed
\* while the service runs: the poller does not sleep on a mailbox it could drain, however
\* the coalesced wakeups, the eventfd and its notifications interleave.
AllRun == \A t \in SeqRange(order) : runs[t] > 0
PollerWorks ==
    (IF Lived THEN ~AllRun ELSE pc[Poller] # "off" /\ ~running)
        ~> (IF Lived THEN ~running \/ AllRun ELSE pc[Poller] \in {"exited", "off"})

\* Nothing else than the lost notification keeps anybody waiting: the poller ends after
\* stop(), join() returns, and posted tasks are executed.
ThreadsServe == PollerWorks /\ JoinReturns
=============================================================================
