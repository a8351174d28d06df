-------------------------- MODULE WebServerProofs --------------------------
(***************************************************************************)
(* The web process is safe for any number of items, requests and refresh   *)
(* goroutines.                                                             *)
(*                                                                         *)
(* The three properties are not inductive.  They rest on what the mutex    *)
(* protects - `refreshing` holds the items that some goroutine has yet to  *)
(* forget, and `closed` tells whether Close was called - and on the order  *)
(* in which the goroutines of serve give way to each other.                *)
(***************************************************************************)
EXTENDS WebServer, TLAPS

\* The set under the mutex names the goroutines that have not forgotten.
RefreshingIsTrue ==
    \A r \in Registrations :
        r \in refreshing <=> \E g \in Goroutines : Refreshes(g, r)

\* Close is the only one to set closed.
ClosedByClose ==
    closed <=> main \in {"waiting", "returned", "flushing", "exited"}

\* Who has done what in serve.
Handover ==
    /\ stopper = "watching" => server \in {"up", "failed"}
    /\ stopper = "draining" => server = "stopping"
    /\ stopper = "done" => server \in {"failed", "drained", "cut"}
    /\ main # "serving" => server # "up"
    /\ main \notin {"serving", "joining"} => stopper = "done"
    /\ server = "drained" => ~Busy

Refreshing == RefreshingIsTrue /\ OneRefreshPerItem

IInv == TypeOK /\ Refreshing /\ ClosedByClose /\ QuietAfterClose /\ Handover

-----------------------------------------------------------------------------
\* Where At, Idle and None stand in the types.
LEMMA States ==
    ASSUME NEW r \in Registrations
    PROVE  /\ \A p \in {"loading", "fetching", "saving", "triggering", "replying"} :
                 At(p, r) \in HandlerStates /\ At(p, r) # Idle
           /\ \A p \in {"fetching", "saving", "forgetting", "leaving"} :
                 At(p, r) \in WorkerStates /\ At(p, r) # None
           /\ Idle \in HandlerStates
           /\ None \in WorkerStates
BY DEF At, Idle, None, HandlerStates, WorkerStates

\* The invariant holds at first.
LEMMA InitiallySafe == Init => IInv
<1> SUFFICES ASSUME Init PROVE IInv OBVIOUS
<1>1. TypeOK
  <2>1. closed \in BOOLEAN /\ signalled \in BOOLEAN BY Zenon DEF Init
  <2>2. Idle \in HandlerStates /\ None \in WorkerStates
      BY DEF HandlerStates, WorkerStates
  <2> QED BY <2>1, <2>2 DEF Init, TypeOK
<1>2. \A g \in Goroutines, r \in Registrations : ~Refreshes(g, r)
    BY DEF Init, Refreshes, None
<1>3. Refreshing BY <1>2 DEF Init, Refreshing, RefreshingIsTrue, OneRefreshPerItem
<1>4. ClosedByClose /\ QuietAfterClose /\ Handover
    BY DEF Init, ClosedByClose, QuietAfterClose, Handover
<1> QED BY <1>1, <1>3, <1>4 DEF IInv

-----------------------------------------------------------------------------
\* The item a handler or a goroutine works on.
LEMMA HandlerItem ==
    ASSUME TypeOK, NEW h \in Handlers, NEW p, handler[h].phase = p, p # "idle"
    PROVE  handler[h].item \in Registrations
BY DEF TypeOK, HandlerStates, Idle

\* The item of a worker in a phase.
LEMMA WorkerItem ==
    ASSUME TypeOK, NEW g \in Goroutines, NEW p, worker[g].phase = p, p # "none"
    PROVE  /\ worker[g].item \in Registrations
           /\ worker[g] = At(p, worker[g].item)
BY DEF TypeOK, WorkerStates, None, At

\* The steps of a handler keep the invariant.
LEMMA HandlerSteps ==
    ASSUME IInv, NEW h \in Handlers, Handle(h)
    PROVE  IInv'
<1> USE DEF items, process
<1>1. ASSUME NEW state \in HandlerStates, handler' = [handler EXCEPT ![h] = state],
             UNCHANGED <<worker, refreshing, closed, signalled, process>>,
             store' \in [Registrations -> {"unknown", "fresh", "stale"}],
             state # Idle => server # "drained"
      PROVE  IInv'
  <2>1. TypeOK' BY <1>1 DEF IInv, TypeOK
  <2>2. Refreshing'
      BY <1>1 DEF IInv, Refreshing, RefreshingIsTrue, OneRefreshPerItem, Refreshes
  <2>3. (ClosedByClose /\ QuietAfterClose)'
      BY <1>1 DEF IInv, ClosedByClose, QuietAfterClose
  <2>4. Handover' BY <1>1 DEF IInv, Handover, Busy, TypeOK
  <2> QED BY <2>1, <2>2, <2>3, <2>4 DEF IInv
<1>2. ASSUME handler[h] # Idle PROVE server # "drained"
    BY <1>2 DEF IInv, Handover, Busy
<1>3. store \in [Registrations -> {"unknown", "fresh", "stale"}]
    BY DEF IInv, TypeOK
<1>4. ASSUME NEW r \in Registrations, Request(h, r) PROVE IInv'
  <2>1. At("loading", r) \in HandlerStates BY States
  <2> QED BY <1>1, <1>3, <1>4, <2>1 DEF Request, Goto
<1>5. CASE Load(h)
  <2> DEFINE r == handler[h].item
             p == CASE store[r] = "unknown" -> "fetching"
                    [] store[r] = "stale" -> "triggering"
                    [] store[r] = "fresh" -> "replying"
  <2>1. r \in Registrations BY <1>5, HandlerItem DEF IInv, Load
  <2>2. p \in {"fetching", "triggering", "replying"} BY <1>3, <2>1
  <2>3. At(p, r) \in HandlerStates BY <2>1, <2>2, States
  <2>4. handler[h] # Idle BY <1>5 DEF Load, Idle
  <2>5. handler' = [handler EXCEPT ![h] = At(p, r)] BY <1>5 DEF Load, Goto
  <2> QED BY <1>1, <1>2, <1>3, <1>5, <2>3, <2>4, <2>5 DEF Load
<1>6. CASE Fetch(h)
  <2>1. At("saving", handler[h].item) \in HandlerStates
      BY <1>6, HandlerItem, States DEF IInv, Fetch
  <2>2. handler[h] # Idle BY <1>6 DEF Fetch, Idle
  <2> QED BY <1>1, <1>2, <1>3, <1>6, <2>1, <2>2 DEF Fetch, Goto
<1>7. CASE Save(h)
  <2>1. handler[h].item \in Registrations BY <1>7, HandlerItem DEF IInv, Save
  <2>2. At("replying", handler[h].item) \in HandlerStates BY <2>1, States
  <2>3. handler[h] # Idle BY <1>7 DEF Save, Idle
  <2>4. store' \in [Registrations -> {"unknown", "fresh", "stale"}]
      BY <1>3, <1>7, <2>1 DEF Save
  <2> QED BY <1>1, <1>2, <1>7, <2>2, <2>3, <2>4 DEF Save, Goto
<1>8. ASSUME NEW g \in Goroutines, Refresh(h, g) PROVE IInv'
  <2> DEFINE r == handler[h].item
  <2>1. r \in Registrations BY <1>8, HandlerItem DEF IInv, Refresh
  <2>2. /\ At("replying", r) \in HandlerStates
        /\ At("fetching", r) \in WorkerStates
      BY <2>1, States
  <2>3. handler[h] # Idle /\ server # "drained"
      BY <1>2, <1>8 DEF Refresh, Idle
  <2>4. TypeOK' BY <1>8, <2>1, <2>2 DEF IInv, TypeOK, Refresh, Goto
  <2>5. worker[g] = None /\ worker' = [worker EXCEPT ![g] = At("fetching", r)]
        /\ refreshing' = refreshing \cup {r} /\ r \notin refreshing
      BY <1>8 DEF Refresh
  <2>6. \A r2 \in Registrations : ~Refreshes(g, r2) BY <2>5 DEF Refreshes, None
  <2>7. \A r2 \in Registrations : Refreshes(g, r2)' <=> r2 = r
      BY <2>5 DEF IInv, TypeOK, Refreshes, At
  <2>8. \A g2 \in Goroutines \ {g}, r2 \in Registrations :
            Refreshes(g2, r2)' <=> Refreshes(g2, r2)
      BY <2>5 DEF IInv, TypeOK, Refreshes
  <2>9. \A g2 \in Goroutines : ~Refreshes(g2, r)
      BY <2>1, <2>5 DEF IInv, Refreshing, RefreshingIsTrue
  <2>10. RefreshingIsTrue'
      BY <2>1, <2>5, <2>6, <2>7, <2>8 DEF IInv, Refreshing, RefreshingIsTrue
  <2>11. OneRefreshPerItem'
      BY <2>1, <2>7, <2>8, <2>9 DEF IInv, Refreshing, OneRefreshPerItem
  <2>12. main \notin {"waiting", "returned", "flushing", "exited"}
      BY <1>8 DEF IInv, ClosedByClose, Refresh
  <2>13. (ClosedByClose /\ QuietAfterClose)'
      BY <1>8, <2>12 DEF IInv, ClosedByClose, QuietAfterClose, Refresh
  <2>14. Handover' BY <1>8, <2>3 DEF IInv, Handover, Busy, TypeOK, Refresh
  <2> QED BY <2>4, <2>13, <2>14, <2>10, <2>11 DEF IInv, Refreshing
<1>9. CASE SkipRefresh(h)
  <2>1. At("replying", handler[h].item) \in HandlerStates
      BY <1>9, HandlerItem, States DEF IInv, SkipRefresh
  <2>2. handler[h] # Idle BY <1>9 DEF SkipRefresh, Idle
  <2> QED BY <1>1, <1>2, <1>3, <1>9, <2>1, <2>2 DEF SkipRefresh, Goto
<1>10. CASE Reply(h)
  <2>1. Idle \in HandlerStates BY DEF HandlerStates
  <2> QED BY <1>1, <1>3, <1>10, <2>1 DEF Reply, Goto
<1> QED BY <1>4, <1>5, <1>6, <1>7, <1>8, <1>9, <1>10 DEF Handle

-----------------------------------------------------------------------------
\* So do those of a worker.
LEMMA WorkerSteps ==
    ASSUME IInv, NEW g \in Goroutines, Work(g)
    PROVE  IInv'
<1> USE DEF items, process
<1>1. ASSUME NEW state \in WorkerStates, worker[g] # None,
             worker' = [worker EXCEPT ![g] = state],
             UNCHANGED <<handler, closed, signalled, process>>,
             refreshing' \subseteq Registrations,
             store' \in [Registrations -> {"unknown", "fresh", "stale"}],
             Refreshing'
      PROVE  IInv'
  <2>1. TypeOK' BY <1>1 DEF IInv, TypeOK
  <2>2. (ClosedByClose /\ QuietAfterClose)'
      BY <1>1 DEF IInv, ClosedByClose, QuietAfterClose
  <2>3. Handover' BY <1>1 DEF IInv, Handover, Busy
  <2> QED BY <1>1, <2>1, <2>2, <2>3 DEF IInv
<1>2. /\ store \in [Registrations -> {"unknown", "fresh", "stale"}]
      /\ refreshing \subseteq Registrations
    BY DEF IInv, TypeOK
<1>3. ASSUME NEW p \in {"fetching", "saving"},
             NEW q \in {"saving", "forgetting"},
             worker[g].phase = p, worker' = [worker EXCEPT ![g] = At(q, @.item)],
             UNCHANGED refreshing
      PROVE  Refreshing'
  <2>1. worker[g].item \in Registrations /\ worker[g] = At(p, worker[g].item)
      BY <1>3, WorkerItem DEF IInv
  <2>2. \A g2 \in Goroutines, r \in Registrations :
            Refreshes(g2, r)' <=> Refreshes(g2, r)
      BY <1>3, <2>1 DEF IInv, TypeOK, Refreshes, At
  <2> QED BY <1>3, <2>2
          DEF IInv, Refreshing, RefreshingIsTrue, OneRefreshPerItem
<1>4. CASE FetchPage(g)
  <2>1. worker[g].item \in Registrations /\ worker[g] # None
      BY <1>4, WorkerItem DEF IInv, FetchPage, None
  <2>2. At("saving", worker[g].item) \in WorkerStates BY <2>1, States
  <2>3. Refreshing' BY <1>3, <1>4 DEF FetchPage, Proceed
  <2> QED BY <1>1, <1>2, <1>4, <2>1, <2>2, <2>3 DEF FetchPage, Proceed
<1>5. CASE SavePage(g)
  <2>1. worker[g].item \in Registrations /\ worker[g] # None
      BY <1>5, WorkerItem DEF IInv, SavePage, None
  <2>2. At("forgetting", worker[g].item) \in WorkerStates BY <2>1, States
  <2>3. Refreshing' BY <1>3, <1>5 DEF SavePage, Proceed
  <2>4. store' \in [Registrations -> {"unknown", "fresh", "stale"}]
      BY <1>2, <1>5, <2>1 DEF SavePage
  <2> QED BY <1>1, <1>2, <1>5, <2>1, <2>2, <2>3, <2>4 DEF SavePage, Proceed
<1>6. CASE GiveUp(g)
  <2>1. worker[g].item \in Registrations /\ worker[g] # None
      BY <1>6, WorkerItem DEF IInv, GiveUp, None
  <2>2. At("forgetting", worker[g].item) \in WorkerStates BY <2>1, States
  <2>3. Refreshing' BY <1>3, <1>6 DEF GiveUp, Proceed
  <2> QED BY <1>1, <1>2, <1>6, <2>1, <2>2, <2>3 DEF GiveUp, Proceed
<1>7. CASE Forget(g)
  <2> DEFINE r == worker[g].item
  <2>1. r \in Registrations /\ worker[g] # None /\ worker[g] = At("forgetting", r)
      BY <1>7, WorkerItem DEF IInv, Forget, None
  <2>2. At("leaving", r) \in WorkerStates BY <2>1, States
  <2>3. Refreshes(g, r) BY <2>1 DEF Refreshes, At
  <2>4. \A g2 \in Goroutines, r2 \in Registrations :
            Refreshes(g2, r2)' <=> g2 # g /\ Refreshes(g2, r2)
      BY <1>7, <2>1 DEF IInv, TypeOK, Forget, Proceed, Refreshes, At
  <2>5. \A r2 \in Registrations : Refreshes(g, r2) => r2 = r
      BY <2>1 DEF Refreshes, At
  <2>6. Refreshing'
      BY <1>7, <2>1, <2>3, <2>4, <2>5
         DEF IInv, Refreshing, RefreshingIsTrue, OneRefreshPerItem, Forget
  <2> QED BY <1>1, <1>2, <1>7, <2>1, <2>2, <2>6 DEF Forget, Proceed
<1>8. CASE Leave(g)
  <2>1. worker[g] # None /\ worker[g] = At("leaving", worker[g].item)
      BY <1>8, WorkerItem DEF IInv, Leave, None
  <2>2. \A g2 \in Goroutines, r \in Registrations :
            Refreshes(g2, r)' <=> Refreshes(g2, r)
      BY <1>8, <2>1 DEF IInv, TypeOK, Leave, Refreshes, At, None
  <2>3. Refreshing'
      BY <1>8, <2>2
         DEF IInv, Refreshing, RefreshingIsTrue, OneRefreshPerItem, Leave
  <2>4. None \in WorkerStates BY DEF WorkerStates
  <2> QED BY <1>1, <1>2, <1>8, <2>1, <2>3, <2>4 DEF Leave
<1> QED BY <1>4, <1>5, <1>6, <1>7, <1>8 DEF Work

-----------------------------------------------------------------------------
\* Every other step leaves the items alone, but for their age.
LEMMA ProcessSteps ==
    ASSUME IInv, [Stop \/ Return \/ ListenFails \/ Signal
                    \/ \E r \in Registrations : Age(r)]_vars
    PROVE  IInv'
<1> USE DEF items, process
<1>1. UNCHANGED <<handler, worker, refreshing>>
    BY DEF Stop, SeeSignal, SeeReturn, Drained, ShutdownTimesOut, Return, ServeReturns,
           Join, CloseApp, Waited, CloseStore, Exit, ListenFails, Signal, Age, vars
<1>2. Refreshing'
    BY <1>1 DEF IInv, Refreshing, RefreshingIsTrue, OneRefreshPerItem, Refreshes
<1>3. /\ closed' \in {closed, TRUE}
      /\ signalled' \in {signalled, TRUE}
    BY Zenon
       DEF Stop, SeeSignal, SeeReturn, Drained, ShutdownTimesOut, Return, ServeReturns,
           Join, CloseApp, Waited, CloseStore, Exit, ListenFails, Signal, Age, vars
<1>4. closed' \in BOOLEAN /\ signalled' \in BOOLEAN
    BY <1>3, Zenon DEF IInv, TypeOK
<1>5. store' \in [Registrations -> {"unknown", "fresh", "stale"}]
    BY DEF IInv, TypeOK, Stop, SeeSignal, SeeReturn, Drained, ShutdownTimesOut, Return,
           ServeReturns, Join, CloseApp, Waited, CloseStore, Exit, ListenFails, Signal,
           Age, vars
<1>6. Busy' <=> Busy BY <1>1 DEF Busy
<1>7. CASE Stop
  <2> USE <1>7 DEF Stop, SeeSignal, SeeReturn, Drained, ShutdownTimesOut
  <2>1. TypeOK' BY <1>1, <1>4, <1>5 DEF IInv, TypeOK
  <2>2. (ClosedByClose /\ QuietAfterClose)'
      BY <1>1 DEF IInv, ClosedByClose, QuietAfterClose
  <2>3. Handover' BY <1>6 DEF IInv, Handover
  <2> QED BY <1>2, <2>1, <2>2, <2>3 DEF IInv
<1>8. CASE Return
  <2> USE <1>8 DEF Return, ServeReturns, Join, CloseApp, Waited, CloseStore, Exit
  <2>1. TypeOK' BY <1>1, <1>4, <1>5 DEF IInv, TypeOK
  <2>2. ClosedByClose' BY DEF IInv, TypeOK, ClosedByClose
  <2>3. QuietAfterClose' BY <1>1 DEF IInv, QuietAfterClose
  <2>4. Handover' BY <1>6 DEF IInv, TypeOK, Handover
  <2> QED BY <1>2, <2>1, <2>2, <2>3, <2>4 DEF IInv
<1>9. CASE ListenFails \/ Signal \/ (\E r \in Registrations : Age(r)) \/ UNCHANGED vars
  <2> USE <1>9 DEF ListenFails, Signal, Age, vars
  <2>1. TypeOK' BY <1>1, <1>4, <1>5 DEF IInv, TypeOK
  <2>2. (ClosedByClose /\ QuietAfterClose)'
      BY <1>1 DEF IInv, ClosedByClose, QuietAfterClose
  <2>3. Handover' BY <1>6 DEF IInv, Handover
  <2> QED BY <1>2, <2>1, <2>2, <2>3 DEF IInv
<1> QED BY <1>7, <1>8, <1>9

\* The mutex and the hand-over of the goroutines hold together, whatever
\* requests, refreshes and signals do.
THEOREM Invariance == Spec => []IInv
<1>1. IInv /\ [Next]_vars => IInv'
    BY HandlerSteps, WorkerSteps, ProcessSteps DEF Next
<1> QED BY InitiallySafe, <1>1, PTL DEF Spec

-----------------------------------------------------------------------------
\* Every variable keeps its type; an item is marked as being refreshed only if
\* it is one.
THEOREM TypeCorrect == Spec => []TypeOK
<1>1. IInv => TypeOK BY DEF IInv
<1> QED BY Invariance, <1>1, PTL

\* No item is refreshed twice at the same time (server.go:248-260).
THEOREM OneRefreshAtATime == Spec => []OneRefreshPerItem
<1>1. IInv => OneRefreshPerItem BY DEF IInv, Refreshing
<1> QED BY Invariance, <1>1, PTL

\* No refresh outlives Close (server.go:98-104).
THEOREM AlwaysQuietAfterClose == Spec => []QuietAfterClose
<1>1. IInv => QuietAfterClose BY DEF IInv
<1> QED BY Invariance, <1>1, PTL

\* Requests are cut off only by the deadline of the shutdown, or by a listener
\* that failed (serve.go:35-49).
THEOREM AlwaysDrainedBeforeClose == Spec => []DrainedBeforeClose
<1>1. IInv => DrainedBeforeClose BY DEF IInv, Handover, DrainedBeforeClose
<1> QED BY Invariance, <1>1, PTL
=============================================================================
