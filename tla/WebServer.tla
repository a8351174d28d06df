----------------------------- MODULE WebServer -----------------------------
(***************************************************************************)
(* The web process: item pages and their background refreshes (item,       *)
(* refresh and Close in internal/web/server.go) and the life of the server *)
(* (cmd/bsmiweb/serve.go, with the deferred calls of main.go).             *)
(*                                                                         *)
(* Request handlers, refresh goroutines, the goroutine that serves, the    *)
(* one that shuts the server down and the signal are interleaved.  A       *)
(* handler and a refresh share the mutex, under which `refreshing` and     *)
(* `closed` change; what it protects is one step here.  The wait group     *)
(* counts the goroutines that are not "none".  Only the item handler has a *)
(* part in this: the others read the database and reply.                   *)
(***************************************************************************)
CONSTANTS
    Registrations, \* registration numbers
    Handlers,      \* requests served at the same time
    Goroutines     \* background refreshes at the same time

VARIABLES
    store,      \* store[r]: "unknown", "fresh", or "stale": older than a day
    handler,    \* handler[h]: where the handler of a request is, and its item
    worker,     \* worker[g]: where a refresh goroutine is, and its item
    refreshing, \* the items of s.refreshing
    closed,     \* s.closed; s.cancel() is called in the same critical section
    signalled,  \* SIGINT or SIGTERM came
    server,     \* the http.Server
    stopper,    \* the goroutine that waits for the signal and shuts down
    main        \* the goroutine of serve and main

items == <<store, handler, worker, refreshing>>
process == <<server, stopper, main>>
vars == <<items, closed, signalled, process>>

Idle == [phase |-> "idle"]
None == [phase |-> "none"]
At(phase, r) == [phase |-> phase, item |-> r]

Init ==
    /\ store \in [Registrations -> {"unknown", "fresh", "stale"}]
    /\ handler = [h \in Handlers |-> Idle]
    /\ worker = [g \in Goroutines |-> None]
    /\ refreshing = {}
    /\ closed = FALSE
    /\ signalled = FALSE
    /\ server = "up"
    /\ stopper = "watching"
    /\ main = "serving"

\* After the exit of the process nothing moves.
Alive == main # "exited"

\* main has closed the database.
StoreClosed == main \in {"flushing", "exited"}

Busy == \E h \in Handlers : handler[h] # Idle

-----------------------------------------------------------------------------
(* The world *)

\* A day passes.
Age(r) ==
    /\ Alive
    /\ store[r] = "fresh"
    /\ store' = [store EXCEPT ![r] = "stale"]
    /\ UNCHANGED <<handler, worker, refreshing, closed, signalled, process>>

Signal ==
    /\ Alive
    /\ ~signalled
    /\ signalled' = TRUE
    /\ UNCHANGED <<items, closed, process>>

-----------------------------------------------------------------------------
(* The handler of an item page *)

Goto(h, state) == handler' = [handler EXCEPT ![h] = state]

\* A request arrives.  Shutdown closes the listener, but a connection accepted
\* before may still send its request; a listener that failed leaves its
\* connections open.
Request(h, r) ==
    /\ Alive
    /\ server \in {"up", "failed", "stopping"}
    /\ handler[h] = Idle
    /\ Goto(h, At("loading", r))
    /\ UNCHANGED <<store, worker, refreshing, closed, signalled, process>>

\* s.Store.Registration
Load(h) ==
    /\ Alive
    /\ handler[h].phase = "loading"
    /\ ~StoreClosed
    /\ LET r == handler[h].item IN
       Goto(h, At(CASE store[r] = "unknown" -> "fetching"
                    [] store[r] = "stale" -> "triggering"
                    [] store[r] = "fresh" -> "replying", r))
    /\ UNCHANGED <<store, worker, refreshing, closed, signalled, process>>

\* s.fetch finds a page.
Fetch(h) ==
    /\ Alive
    /\ handler[h].phase = "fetching"
    /\ Goto(h, At("saving", handler[h].item))
    /\ UNCHANGED <<store, worker, refreshing, closed, signalled, process>>

\* s.Store.SaveRegistration
Save(h) ==
    /\ Alive
    /\ handler[h].phase = "saving"
    /\ ~StoreClosed
    /\ store' = [store EXCEPT ![handler[h].item] = "fresh"]
    /\ Goto(h, At("replying", handler[h].item))
    /\ UNCHANGED <<worker, refreshing, closed, signalled, process>>

\* Mutant of Refresh: closed is not tested.
RefreshAlways(h, g) ==
    LET r == handler[h].item IN
    /\ Alive
    /\ handler[h].phase = "triggering"
    /\ r \notin refreshing
    /\ worker[g] = None
    /\ refreshing' = refreshing \cup {r}
    /\ worker' = [worker EXCEPT ![g] = At("fetching", r)]
    /\ Goto(h, At("replying", r))
    /\ UNCHANGED <<store, closed, signalled, process>>

\* Mutant of Refresh: refreshing is not tested.
RefreshAgain(h, g) ==
    LET r == handler[h].item IN
    /\ Alive
    /\ handler[h].phase = "triggering"
    /\ ~closed
    /\ worker[g] = None
    /\ refreshing' = refreshing \cup {r}
    /\ worker' = [worker EXCEPT ![g] = At("fetching", r)]
    /\ Goto(h, At("replying", r))
    /\ UNCHANGED <<store, closed, signalled, process>>

\* s.refresh, starting a goroutine.
Refresh(h, g) ==
    LET r == handler[h].item IN
    /\ Alive
    /\ handler[h].phase = "triggering"
    /\ ~closed
    /\ r \notin refreshing
    /\ worker[g] = None
    /\ refreshing' = refreshing \cup {r}
    /\ worker' = [worker EXCEPT ![g] = At("fetching", r)]
    /\ Goto(h, At("replying", r))
    /\ UNCHANGED <<store, closed, signalled, process>>

\* s.refresh, returning at once.
SkipRefresh(h) ==
    /\ Alive
    /\ handler[h].phase = "triggering"
    /\ closed \/ handler[h].item \in refreshing
    /\ Goto(h, At("replying", handler[h].item))
    /\ UNCHANGED <<store, worker, refreshing, closed, signalled, process>>

\* The page, or a failure on the way to it: no such item, an error of the
\* database or of BSMI, a client that went away, a database that is closed.
Reply(h) ==
    /\ Alive
    /\ handler[h].phase \in {"loading", "fetching", "saving", "replying"}
    /\ Goto(h, Idle)
    /\ UNCHANGED <<store, worker, refreshing, closed, signalled, process>>

-----------------------------------------------------------------------------
(* The goroutine of a refresh *)

Proceed(g, phase) == worker' = [worker EXCEPT ![g] = At(phase, @.item)]

FetchPage(g) ==
    /\ Alive
    /\ worker[g].phase = "fetching"
    /\ Proceed(g, "saving")
    /\ UNCHANGED <<store, handler, refreshing, closed, signalled, process>>

\* The context of the goroutine is that of the server: once it is cancelled
\* nothing is committed.
SavePage(g) ==
    /\ Alive
    /\ worker[g].phase = "saving"
    /\ ~closed
    /\ store' = [store EXCEPT ![worker[g].item] = "fresh"]
    /\ Proceed(g, "forgetting")
    /\ UNCHANGED <<handler, refreshing, closed, signalled, process>>

\* Mutant of GiveUp: an error path that skips the clean-up of refreshing.
GiveUpAtOnce(g) ==
    /\ Alive
    /\ worker[g].phase \in {"fetching", "saving"}
    /\ Proceed(g, "leaving")
    /\ UNCHANGED <<store, handler, refreshing, closed, signalled, process>>

\* An error, an empty page, the two minutes are over, or the context is
\* cancelled.
GiveUp(g) ==
    /\ Alive
    /\ worker[g].phase \in {"fetching", "saving"}
    /\ Proceed(g, "forgetting")
    /\ UNCHANGED <<store, handler, refreshing, closed, signalled, process>>

\* The deferred delete(s.refreshing, id).
Forget(g) ==
    /\ Alive
    /\ worker[g].phase = "forgetting"
    /\ refreshing' = refreshing \ {worker[g].item}
    /\ Proceed(g, "leaving")
    /\ UNCHANGED <<store, handler, closed, signalled, process>>

\* The deferred s.wg.Done().
Leave(g) ==
    /\ Alive
    /\ worker[g].phase = "leaving"
    /\ worker' = [worker EXCEPT ![g] = None]
    /\ UNCHANGED <<store, handler, refreshing, closed, signalled, process>>

-----------------------------------------------------------------------------
(* serve: the goroutine that shuts the server down *)

\* <-ctx.Done(): Shutdown begins.
SeeSignal ==
    /\ Alive
    /\ stopper = "watching"
    /\ signalled
    /\ stopper' = "draining"
    /\ server' = "stopping"
    /\ UNCHANGED <<items, closed, signalled, main>>

\* <-done
SeeReturn ==
    /\ Alive
    /\ stopper = "watching"
    /\ main = "joining"
    /\ stopper' = "done"
    /\ UNCHANGED <<items, closed, signalled, server, main>>

\* Shutdown returns: every connection is idle.
Drained ==
    /\ Alive
    /\ stopper = "draining"
    /\ ~Busy
    /\ stopper' = "done"
    /\ server' = "drained"
    /\ UNCHANGED <<items, closed, signalled, main>>

\* Mutant of ShutdownTimesOut: Shutdown has no deadline.
ShutdownPatient ==
    /\ Alive
    /\ stopper = "draining"
    /\ ~Busy
    /\ stopper' = "done"
    /\ server' = "drained"
    /\ UNCHANGED <<items, closed, signalled, main>>

\* After 15 seconds server.Close() closes the connections; the handlers go on.
ShutdownTimesOut ==
    /\ Alive
    /\ stopper = "draining"
    /\ Busy
    /\ stopper' = "done"
    /\ server' = "cut"
    /\ UNCHANGED <<items, closed, signalled, main>>

-----------------------------------------------------------------------------
(* serve and main: the goroutine that serves *)

\* The listener fails.
ListenFails ==
    /\ Alive
    /\ main = "serving"
    /\ server = "up"
    /\ server' = "failed"
    /\ UNCHANGED <<items, closed, signalled, stopper, main>>

\* ListenAndServe returns, as soon as Shutdown begins, and done is closed.
ServeReturns ==
    /\ main = "serving"
    /\ server # "up"
    /\ main' = "joining"
    /\ UNCHANGED <<items, closed, signalled, server, stopper>>

\* Mutant of Join: serve returns with ListenAndServe.
JoinAtOnce ==
    /\ main = "joining"
    /\ main' = "closing"
    /\ UNCHANGED <<items, closed, signalled, server, stopper>>

\* <-shutdownDone
Join ==
    /\ main = "joining"
    /\ stopper = "done"
    /\ main' = "closing"
    /\ UNCHANGED <<items, closed, signalled, server, stopper>>

\* app.Close up to s.wg.Wait().
CloseApp ==
    /\ main = "closing"
    /\ closed' = TRUE
    /\ main' = "waiting"
    /\ UNCHANGED <<items, signalled, server, stopper>>

\* s.wg.Wait()
Waited ==
    /\ main = "waiting"
    /\ \A g \in Goroutines : worker[g] = None
    /\ main' = "returned"
    /\ UNCHANGED <<items, closed, signalled, server, stopper>>

\* The deferred store.DB.Close().
CloseStore ==
    /\ main = "returned"
    /\ main' = "flushing"
    /\ UNCHANGED <<items, closed, signalled, server, stopper>>

\* The deferred sentry.Flush, and the end of the process.
Exit ==
    /\ main = "flushing"
    /\ main' = "exited"
    /\ UNCHANGED <<items, closed, signalled, server, stopper>>

-----------------------------------------------------------------------------
Handle(h) ==
    \/ \E r \in Registrations : Request(h, r)
    \/ Load(h)
    \/ Fetch(h)
    \/ Save(h)
    \/ \E g \in Goroutines : Refresh(h, g)
    \/ SkipRefresh(h)
    \/ Reply(h)

Work(g) == FetchPage(g) \/ SavePage(g) \/ GiveUp(g) \/ Forget(g) \/ Leave(g)

Stop == SeeSignal \/ SeeReturn \/ Drained \/ ShutdownTimesOut

Return == ServeReturns \/ Join \/ CloseApp \/ Waited \/ CloseStore \/ Exit

Next ==
    \/ \E r \in Registrations : Age(r)
    \/ Signal
    \/ \E h \in Handlers : Handle(h)
    \/ \E g \in Goroutines : Work(g)
    \/ Stop
    \/ ListenFails
    \/ Return

\* The scheduler runs every goroutine that can run.  A fetch ends: with the
\* answer, after two minutes, or with its context (server.go:256).  Nothing is
\* asked of the handlers, of the clients or of the signal.
Fairness ==
    /\ \A g \in Goroutines : WF_vars(Work(g))
    /\ WF_vars(Stop)
    /\ WF_vars(Return)

Spec == Init /\ [][Next]_vars /\ Fairness
-----------------------------------------------------------------------------
HandlerStates ==
    {Idle} \cup [phase: {"loading", "fetching", "saving", "triggering", "replying"},
                 item: Registrations]

WorkerStates ==
    {None} \cup [phase: {"fetching", "saving", "forgetting", "leaving"},
                 item: Registrations]

TypeOK ==
    /\ store \in [Registrations -> {"unknown", "fresh", "stale"}]
    /\ handler \in [Handlers -> HandlerStates]
    /\ worker \in [Goroutines -> WorkerStates]
    /\ refreshing \subseteq Registrations
    /\ closed \in BOOLEAN
    /\ signalled \in BOOLEAN
    /\ server \in {"up", "failed", "stopping", "drained", "cut"}
    /\ stopper \in {"watching", "draining", "done"}
    /\ main \in {"serving", "joining", "closing", "waiting", "returned", "flushing",
                 "exited"}

\* Goroutine g fetches or saves r, or has still to say that it did.
Refreshes(g, r) ==
    worker[g] \in [phase: {"fetching", "saving", "forgetting"}, item: {r}]

\* Two goroutines never refresh the same item at the same time, however many
\* requests find it stale (server.go:248-260).
OneRefreshPerItem ==
    \A g, h \in Goroutines, r \in Registrations :
        Refreshes(g, r) /\ Refreshes(h, r) => g = h

\* Once Close has returned no refresh runs and none is started, although
\* handlers that outlived the shutdown may still ask for one: the database is
\* closed next (server.go:98-104, 248; main.go:70).
QuietAfterClose ==
    main \in {"returned", "flushing", "exited"} =>
        \A g \in Goroutines : worker[g] = None

\* serve begins to close the application only when every request has been
\* answered, unless the 15 seconds were over or the listener had failed
\* (serve.go:35-49).
DrainedBeforeClose ==
    main \notin {"serving", "joining"} /\ Busy => server \in {"cut", "failed"}

\* Whatever handlers, refreshes and clients do, a signal ends the process
\* (serve.go:28-48, server.go:98-104).
SignalEndsServer == signalled ~> (main = "exited")

\* An item never stays marked as being refreshed, whatever its refresh ran
\* into: it would be stale for ever (server.go:255).
RefreshEnds ==
    \A r \in Registrations :
        r \in refreshing ~> r \notin refreshing

\* server_test.go:152 "Concurrent stale requests share one refresh": a refresh
\* is started only for an item that is still stale.
StaleRequestsShareOneRefresh ==
    [][\A r \in Registrations :
          r \in refreshing' /\ r \notin refreshing => store[r] = "stale"]_vars
=============================================================================
