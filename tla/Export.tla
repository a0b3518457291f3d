-------------------------------- MODULE Export --------------------------------
(***************************************************************************)
(* The two export paths over the one snapshot store: the HTTP server of     *)
(* module HttpServer, whose scrapes PromCollector.Collect (prometheus.go)   *)
(* answers, and the OTLP exporter (otlp.go), whose instruments the SDK's     *)
(* periodic reader collects and sends; reloads register new instruments     *)
(* meanwhile, and Shutdown (main.go) flushes before it closes the error     *)
(* channel.  The reader is the OpenTelemetry SDK's: it calls the callbacks   *)
(* one after the other under the lock that registration takes too, sends    *)
(* what they observed, and at its shutdown does so once more.               *)
(* A snapshot is the rows of each metric name, a row the labels it carries; *)
(* the value of row i of snapshot k is the pair of k and i.                 *)
(***************************************************************************)
EXTENDS HttpServer, Sequences, FiniteSets

CONSTANTS Label,    \* what tells the rows of a metric from each other
          Content   \* what a cycle may publish: name -> the labels of its rows

ASSUME ContentAssumption == \A s \in Content : \A m \in DOMAIN s : s[m] \in Seq(Label)

VARIABLES content,     \* content[k]: the rows of snapshot k
          registered,  \* the names that have an instrument
          ensure,      \* what EnsureInstruments, holding e.mu, has left to register
          push,        \* where the reader stands: "idle", "collect" or "send"
          batch,       \* batch[m]: the snapshot m's callback loaded, and its points
          begun,       \* the snapshot that was current when the push began
          exported,    \* the last batch that was received, and its begun
          flush,       \* otlp.Shutdown: "no", "stopping", "last" or "done"
          lost         \* the last push of the process was not received

exportVars == <<content, registered, ensure, push, batch, begun, exported, flush, lost>>
allVars == <<vars, exportVars>>
readerVars == <<push, batch, begun, exported, flush, lost>>

NoBatch == <<>>
NothingExported == [begun |-> NoSnapshot, batch |-> NoBatch]

-----------------------------------------------------------------------------
(* What each path makes of a snapshot.                                      *)

MetricNames(k) == DOMAIN content[k]
SamplesByName(k, m) == IF m \in MetricNames(k) THEN content[k][m] ELSE <<>>

FirstOfEach(rows) ==
    {<<rows[i], i>> : i \in {j \in DOMAIN rows : \A h \in 1..(j - 1) : rows[h] # rows[j]}}
LastOfEach(rows) ==
    {<<rows[i], i>> : i \in {j \in DOMAIN rows : \A h \in (j + 1)..Len(rows) : rows[h] # rows[j]}}

\* A scrape has the first row of each label set, and skips the others.
Collect(k, m) == FirstOfEach(SamplesByName(k, m))

\* A gauge has the last observation of each attribute set.
Observed(k, m) == LastOfEach(SamplesByName(k, m))

-----------------------------------------------------------------------------
\* Start has registered the instruments of a first snapshot.
ExportInit ==
    /\ Init
    /\ \E s \in Content : content = <<s>> /\ registered = DOMAIN s
    /\ ensure = {}
    /\ push = "idle"
    /\ batch = NoBatch
    /\ begun = NoSnapshot
    /\ exported = NothingExported
    /\ flush = "no"
    /\ lost = FALSE

Publishes ==
    /\ PublishSnapshot
    /\ \E s \in Content : content' = Append(content, s)
    /\ UNCHANGED <<registered, ensure, readerVars>>

EnsureLoads_All ==
    /\ ~once /\ main # "listen"
    /\ ensure = {}
    /\ ensure' = MetricNames(current)
    /\ UNCHANGED <<vars, content, registered, readerVars>>

\* A reload calls EnsureInstruments, which loads the snapshot and takes e.mu.
EnsureLoads ==
    /\ ~once /\ main # "listen"
    /\ ensure = {}
    /\ ensure' = MetricNames(current) \ registered
    /\ UNCHANGED <<vars, content, registered, readerVars>>

\* e.meter.Float64ObservableGauge waits while the callbacks are being called.
EnsureRegisters ==
    /\ push # "collect"
    /\ \E m \in ensure :
          /\ registered' = registered \cup {m}
          /\ ensure' = ensure \ {m}
    /\ UNCHANGED <<vars, content, readerVars>>

-----------------------------------------------------------------------------
(* The periodic reader.                                                     *)

Begins ==
    /\ push = "idle"
    /\ push' = "collect"
    /\ batch' = NoBatch
    /\ begun' = current
    /\ UNCHANGED <<vars, content, registered, ensure, exported, lost>>

TimerPush == flush = "no" /\ Begins /\ UNCHANGED flush

Observes(m, k, name) ==
    /\ push = "collect"
    /\ m \in registered \ DOMAIN batch
    /\ batch' = [n \in DOMAIN batch \cup {m} |->
                    IF n = m THEN [snap |-> k, points |-> Observed(k, name)] ELSE batch[n]]
    /\ UNCHANGED <<vars, content, registered, ensure, push, begun, exported, flush, lost>>

Callback_Captured(m) == Observes(m, 1, m)

Callback_LastName(m) == Observes(m, current, CHOOSE n \in registered : TRUE)

Callback_Locked(m) == ensure = {} /\ Observes(m, current, m)

\* The callback loads the snapshot when it is called, and takes no lock.
Callback(m) == Observes(m, current, m)

Collected ==
    /\ push = "collect"
    /\ registered \subseteq DOMAIN batch
    /\ push' = "send"
    /\ UNCHANGED <<vars, content, registered, ensure, batch, begun, exported, flush, lost>>

Ends(from) ==
    /\ push \in from
    /\ push' = "idle"
    /\ flush' = IF flush = "last" THEN "done" ELSE flush
    /\ batch' = NoBatch
    /\ begun' = NoSnapshot
    /\ UNCHANGED <<vars, content, registered, ensure>>

Sent ==
    /\ Ends({"send"})
    /\ exported' = [begun |-> begun, batch |-> batch]
    /\ UNCHANGED lost

NotSent_NoDeadline == FALSE /\ UNCHANGED allVars

\* The backend refuses, the deadline of the push passes, or a shutdown cancels it.
NotSent ==
    /\ Ends({"collect", "send"})
    /\ lost' = (flush = "last")
    /\ UNCHANGED exported

-----------------------------------------------------------------------------
(* Shutdown.                                                                *)

\* otlp.Shutdown cancels the reader ...
StopsReader ==
    /\ main = "close"
    /\ flush = "no"
    /\ flush' = "stopping"
    /\ UNCHANGED <<vars, content, registered, ensure, push, batch, begun, exported, lost>>

LastPush_Skipped ==
    /\ flush = "stopping"
    /\ push = "idle"
    /\ flush' = "done"
    /\ UNCHANGED <<vars, content, registered, ensure, push, batch, begun, exported, lost>>

\* ... and when a push in progress is over, does a last one.
LastPush == flush = "stopping" /\ Begins /\ flush' = "last"

MainGoes == Main /\ (main = "close" => flush = "done") /\ UNCHANGED exportVars
Http == (Listener \/ \E r \in Request : Handler(r)) /\ UNCHANGED exportVars
Reader == TimerPush \/ Collected \/ Sent \/ NotSent \/ StopsReader \/ LastPush
          \/ \E m \in registered : Callback(m)

ExportNext ==
    \/ Alive /\ (Http \/ MainGoes \/ Publishes \/ EnsureLoads \/ EnsureRegisters \/ Reader)
    \/ Gone /\ UNCHANGED exportVars

\* main as in module HttpServer; the reader calls its callbacks and gives up a
\* push at its deadline; the backend need not answer.
ExportFairness ==
    /\ WF_allVars(Alive /\ MainGoes /\ main # "wait")
    /\ WF_allVars(Alive /\ ErrorReceived /\ UNCHANGED exportVars)
    /\ WF_allVars(Alive /\ (Reports \/ ReportPanics) /\ UNCHANGED exportVars)
    /\ WF_allVars(Alive /\ (StopsReader \/ LastPush))
    /\ WF_allVars(Alive /\ \E m \in registered : Callback(m))
    /\ WF_allVars(Alive /\ Collected)
    /\ WF_allVars(Alive /\ push = "send" /\ NotSent)
    /\ SF_allVars(Alive /\ EnsureRegisters)

ExportSpec == ExportInit /\ [][ExportNext]_allVars /\ ExportFairness

-----------------------------------------------------------------------------
(* Properties.                                                              *)

\* The type of the state; a name that has its instrument is not registered again,
\* or its rows would be observed twice in every push.
ExportTypeOK ==
    /\ HttpTypeOK
    /\ content \in Seq(Content) /\ Len(content) = current
    /\ registered \subseteq UNION {DOMAIN s : s \in Content}
    /\ ensure \subseteq (UNION {DOMAIN s : s \in Content}) \ registered
    /\ push \in {"idle", "collect", "send"} /\ flush \in {"no", "stopping", "last", "done"}
    /\ DOMAIN batch \subseteq registered /\ begun \in 0..current /\ lost \in BOOLEAN

\* What a push carries is no older than the push: the callbacks read the store
\* when the reader calls them, not when EnsureInstruments made them.
PushIsFresh ==
    /\ \A m \in DOMAIN batch : batch[m].snap >= begun
    /\ \A m \in DOMAIN exported.batch : exported.batch[m].snap >= exported.begun

\* A push and a scrape of the same snapshot carry the same points under the same
\* names, save where rows of the snapshot are duplicates of each other.
ExportsAgree ==
    \A m \in DOMAIN exported.batch :
        LET k == exported.batch[m].snap
            rows == SamplesByName(k, m)
        IN  Cardinality(Collect(k, m)) = Len(rows)
                => exported.batch[m].points = Collect(k, m)

\* The one cycle of --once is pushed, with every metric it has, before the
\* process returns from Shutdown, unless the backend does not take it.
OnceIsPushed ==
    once /\ main \in {"return", "exited"} /\ ~lost =>
        \A m \in MetricNames(1) :
            m \in DOMAIN exported.batch /\ exported.batch[m].snap = 1

\* With the flush inside Shutdown the server is still the one of module
\* HttpServer, its fairness included: waiting for the reader stops nothing.
StillHttpServer == Spec

\* EnsureInstruments, which holds e.mu and waits for the reader, and the reader,
\* which calls the callbacks, do not wait for each other for ever.
EnsureFinishes == ensure # {} ~> (ensure = {} \/ ~Alive)
=============================================================================
