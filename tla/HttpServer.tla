----------------------------- MODULE HttpServer ------------------------------
(***************************************************************************)
(* The HTTP side of main.go: the goroutine that runs ListenAndServe, the    *)
(* channel serverErrChan on which it reports a fatal error, main's wait for *)
(* a signal or that error, and Shutdown.  Requests are answered out of the  *)
(* snapshot store while the collection loop replaces the snapshot:          *)
(* PromCollector.Collect (prometheus.go) walks it twice, for the clusters'  *)
(* health and for the samples, and loads it once; healthHandler (main.go)   *)
(* needs the first walk only.  A snapshot is the number of its publication. *)
(***************************************************************************)
EXTENDS Integers

CONSTANTS Request,      \* the scrapes that can be in progress at once
          MaxSnapshot   \* bound on the publications after the first

ASSUME MaxSnapshotAssumption == MaxSnapshot \in Nat

NoSnapshot == 0

VARIABLES once,      \* the --once flag
          main,      \* where main stands
          listener,  \* where the goroutine of ListenAndServe stands
          stopping,  \* http.Server.Shutdown has been called
          errChan,   \* serverErrChan, capacity 1: "empty", "full" or "closed"
          current,   \* the snapshot in the store
          scrape,    \* scrape[r]: where the handler of request r stands
          snap,      \* snap[r]: the snapshot it has loaded
          answer,    \* answer[r]: the snapshots its two parts were taken from
          timedOut   \* Shutdown gave up waiting for the requests in progress

vars == <<once, main, listener, stopping, errChan, current, scrape, snap, answer, timedOut>>
scrapeVars == <<scrape, snap, answer>>

Part == {"health", "samples"}

Init ==
    /\ once \in BOOLEAN
    /\ main = "listen"
    /\ listener = "off"
    /\ stopping = FALSE
    /\ errChan = "empty"
    /\ current = 1
    /\ scrape = [r \in Request |-> "idle"]
    /\ snap = [r \in Request |-> NoSnapshot]
    /\ answer = [r \in Request |-> [p \in Part |-> NoSnapshot]]
    /\ timedOut = FALSE

Alive == main # "exited" /\ listener # "panicked"

-----------------------------------------------------------------------------
(* The goroutine of ListenAndServe.                                         *)

ListenerGoes(from, to) ==
    /\ listener = from
    /\ listener' = to
    /\ UNCHANGED <<once, main, stopping, current, scrapeVars, timedOut>>

\* ListenAndServe checks for a shutdown, and only then binds the address.
Binds == ListenerGoes("started", IF stopping THEN "closed" ELSE "binding") /\ UNCHANGED errChan
Serves == ListenerGoes("binding", IF stopping THEN "closed" ELSE "serving") /\ UNCHANGED errChan
BindFails == ListenerGoes("binding", "erred") /\ UNCHANGED errChan
AcceptFails == ~stopping /\ ListenerGoes("serving", "erred") /\ UNCHANGED errChan
ServerClosed == stopping /\ ListenerGoes("serving", "closed") /\ UNCHANGED errChan

Reports_NonBlocking ==
    /\ errChan # "closed"
    /\ ListenerGoes("erred", "reported")
    /\ errChan' = IF main = "wait" THEN "full" ELSE errChan

\* s.serverErrChan <- err: there is room for the one error that is ever sent.
Reports ==
    /\ errChan # "closed"
    /\ ListenerGoes("erred", "reported")
    /\ errChan' = "full"

\* A send on a closed channel panics.
ReportPanics ==
    /\ errChan = "closed"
    /\ ListenerGoes("erred", "panicked")
    /\ UNCHANGED errChan

-----------------------------------------------------------------------------
(* Requests, and the collection loop that publishes meanwhile.              *)

\* The loop, which --once does not start, or a reload.
PublishSnapshot ==
    /\ ~once
    /\ current <= MaxSnapshot
    /\ current' = current + 1
    /\ UNCHANGED <<once, main, listener, stopping, errChan, scrapeVars, timedOut>>

ScrapeGoes(r, from, to) ==
    /\ scrape[r] = from
    /\ scrape' = [scrape EXCEPT ![r] = to]
    /\ UNCHANGED <<once, main, listener, stopping, errChan, current, timedOut>>

\* A request is accepted and the handler loads the snapshot.
Accept(r) ==
    /\ listener = "serving"
    /\ ~stopping
    /\ ScrapeGoes(r, "idle", "health")
    /\ snap' = [snap EXCEPT ![r] = current]
    /\ answer' = [answer EXCEPT ![r] = [p \in Part |-> NoSnapshot]]

\* for name, cs := range snap.PerCluster
WriteHealth(r) ==
    /\ ScrapeGoes(r, "health", "samples")
    /\ answer' = [answer EXCEPT ![r]["health"] = snap[r]]
    /\ UNCHANGED snap

WriteSamples_Reload(r) ==
    /\ ScrapeGoes(r, "samples", "done")
    /\ answer' = [answer EXCEPT ![r]["samples"] = current]
    /\ UNCHANGED snap

\* for _, name := range snap.MetricNames()
WriteSamples(r) ==
    /\ ScrapeGoes(r, "samples", "done")
    /\ answer' = [answer EXCEPT ![r]["samples"] = snap[r]]
    /\ UNCHANGED snap

Respond(r) ==
    /\ ScrapeGoes(r, "done", "idle")
    /\ UNCHANGED <<snap, answer>>

-----------------------------------------------------------------------------
(* main.                                                                    *)

\* go func() { ... ListenAndServe ... }(); with --once Shutdown follows at once.
StartsListener ==
    /\ main = "listen"
    /\ listener' = "started"
    /\ main' = IF once THEN "shutdown" ELSE "handlers"
    /\ UNCHANGED <<once, stopping, errChan, current, scrapeVars, timedOut>>

\* SetupSIGHUPHandler and WatchConfigFile (module Server).
InstallsHandlers ==
    /\ main = "handlers"
    /\ main' = "wait"
    /\ UNCHANGED <<once, listener, stopping, errChan, current, scrapeVars, timedOut>>

\* waitForShutdown: a signal, or the error of the listener.
StopSignal ==
    /\ main = "wait"
    /\ main' = "shutdown"
    /\ UNCHANGED <<once, listener, stopping, errChan, current, scrapeVars, timedOut>>

ErrorReceived ==
    /\ main = "wait"
    /\ errChan = "full"
    /\ errChan' = "empty"
    /\ main' = "shutdown"
    /\ UNCHANGED <<once, listener, stopping, current, scrapeVars, timedOut>>

ShutdownBegins ==
    /\ main = "shutdown"
    /\ stopping' = TRUE
    /\ main' = "drain"
    /\ UNCHANGED <<once, listener, errChan, current, scrapeVars, timedOut>>

\* httpSrv.Shutdown returns once no request is in progress ...
Drained ==
    /\ main = "drain"
    /\ \A r \in Request : scrape[r] = "idle"
    /\ main' = "close"
    /\ UNCHANGED <<once, listener, stopping, errChan, current, scrapeVars, timedOut>>

DrainTimesOut_Never == FALSE /\ UNCHANGED vars

\* ... or after shutdownTimeout.
DrainTimesOut ==
    /\ main = "drain"
    /\ \E r \in Request : scrape[r] # "idle"
    /\ timedOut' = TRUE
    /\ main' = "close"
    /\ UNCHANGED <<once, listener, stopping, errChan, current, scrapeVars>>

\* close(s.serverErrChan), after the flush of module Export.
ClosesErrChan ==
    /\ main = "close"
    /\ errChan' = "closed"
    /\ main' = "return"
    /\ UNCHANGED <<once, listener, stopping, current, scrapeVars, timedOut>>

Returns ==
    /\ main = "return"
    /\ main' = "exited"
    /\ UNCHANGED <<once, listener, stopping, errChan, current, scrapeVars, timedOut>>

\* Nothing happens in a process that is gone.
Gone == ~Alive /\ UNCHANGED vars

Listener == Binds \/ Serves \/ BindFails \/ AcceptFails \/ ServerClosed \/ Reports \/ ReportPanics
Handler(r) == Accept(r) \/ WriteHealth(r) \/ WriteSamples(r) \/ Respond(r)
Main == StartsListener \/ InstallsHandlers \/ StopSignal \/ ErrorReceived \/ ShutdownBegins
        \/ Drained \/ DrainTimesOut \/ ClosesErrChan \/ Returns

Next ==
    \/ Alive /\ (Listener \/ Main \/ PublishSnapshot \/ \E r \in Request : Handler(r))
    \/ Gone

\* main goes on when it can; it may wait for ever for a signal.  An error that
\* ListenAndServe has returned is reported.
Fairness ==
    /\ WF_vars(Alive /\ (StartsListener \/ InstallsHandlers \/ ErrorReceived \/ ShutdownBegins
                         \/ Drained \/ DrainTimesOut \/ ClosesErrChan \/ Returns))
    /\ WF_vars(Alive /\ (Reports \/ ReportPanics))

Spec == Init /\ [][Next]_vars /\ Fairness

-----------------------------------------------------------------------------
(* Properties.                                                              *)

\* The type of the state.
HttpTypeOK ==
    /\ once \in BOOLEAN /\ stopping \in BOOLEAN /\ timedOut \in BOOLEAN
    /\ main \in {"listen", "handlers", "wait", "shutdown", "drain", "close", "return", "exited"}
    /\ listener \in {"off", "started", "binding", "serving", "erred", "reported",
                     "closed", "panicked"}
    /\ errChan \in {"empty", "full", "closed"}
    /\ current \in 1..(MaxSnapshot + 1)
    /\ scrape \in [Request -> {"idle", "health", "samples", "done"}]
    /\ snap \in [Request -> 0..(MaxSnapshot + 1)]
    /\ answer \in [Request -> [Part -> 0..(MaxSnapshot + 1)]]

\* A scrape answers from one snapshot however often the loop publishes while it
\* is being written: powerscale_up and the samples are of the same cycle.
AnswerIsOneSnapshot ==
    \A r \in Request :
        scrape[r] = "done" => answer[r]["health"] = answer[r]["samples"]

\* A fatal error of the listener ends the exporter, also when it is returned
\* before main has begun to wait for it or while main is already shutting down.
ListenerErrorEndsServer == listener = "erred" ~> ~Alive

\* Shutdown returns, whatever the listener and the requests in progress do.
ShutdownReturns == main = "shutdown" ~> ~Alive
=============================================================================
