---------------------------- MODULE ExportProofs ----------------------------
(***************************************************************************)
(* Proofs about modules HttpServer and Export, for any number of requests   *)
(* in progress, of publications, of metrics and of rows.                    *)
(***************************************************************************)
EXTENDS Export, FiniteSetTheorems, SequenceTheorems, TLAPS

USE DEF NoSnapshot

\* A handler keeps the snapshot it has loaded until the answer is written.
AnswersFromSnap ==
    \A r \in Request :
        /\ scrape[r] \in {"samples", "done"} => answer[r]["health"] = snap[r]
        /\ scrape[r] = "done" => answer[r]["samples"] = snap[r]

HttpInv == HttpTypeOK /\ AnswersFromSnap

-----------------------------------------------------------------------------
\* The HTTP side starts with no request.
LEMMA HttpInitial == Init => HttpInv
<1> SUFFICES ASSUME Init PROVE HttpInv
  OBVIOUS
<1>1. 0 \in 0..(MaxSnapshot + 1) /\ 1 \in 1..(MaxSnapshot + 1)
  BY MaxSnapshotAssumption
<1>2. answer \in [Request -> [Part -> 0..(MaxSnapshot + 1)]]
  BY <1>1 DEF Init
<1>3. HttpTypeOK
  BY <1>1, <1>2 DEF Init, HttpTypeOK
<1>4. AnswersFromSnap
  BY DEF Init, AnswersFromSnap
<1> QED
  BY <1>3, <1>4 DEF HttpInv

\* A step of a handler changes what that request has seen, and nothing else.
LEMMA HandlerStep ==
  ASSUME HttpInv, NEW r \in Request, Handler(r)
  PROVE  HttpInv'
<1> USE DEF HttpInv
<1>1. CASE Accept(r)
  BY <1>1, MaxSnapshotAssumption DEF HttpTypeOK, AnswersFromSnap, Accept, ScrapeGoes, Part
<1>2. CASE WriteHealth(r)
  BY <1>2 DEF HttpTypeOK, AnswersFromSnap, WriteHealth, ScrapeGoes, Part
<1>3. CASE WriteSamples(r)
  BY <1>3 DEF HttpTypeOK, AnswersFromSnap, WriteSamples, ScrapeGoes, Part
<1>4. CASE Respond(r)
  BY <1>4 DEF HttpTypeOK, AnswersFromSnap, Respond, ScrapeGoes, Part
<1> QED
  BY <1>1, <1>2, <1>3, <1>4 DEF Handler

\* Neither the listener nor main nor a publication touches a request.
LEMMA OtherStep ==
  ASSUME HttpInv, Listener \/ Main \/ PublishSnapshot
  PROVE  HttpInv'
<1>1. UNCHANGED scrapeVars
  BY DEF Listener, Binds, Serves, BindFails, AcceptFails, ServerClosed, Reports, ReportPanics,
         ListenerGoes, Main, StartsListener, InstallsHandlers, StopSignal, ErrorReceived,
         ShutdownBegins, Drained, DrainTimesOut, ClosesErrChan, Returns, PublishSnapshot
<1>2. AnswersFromSnap'
  BY <1>1 DEF HttpInv, AnswersFromSnap, scrapeVars
<1>3. CASE Listener
  BY <1>1, <1>2, <1>3 DEF HttpInv, HttpTypeOK, scrapeVars, Listener, Binds, Serves, BindFails,
         AcceptFails, ServerClosed, Reports, ReportPanics, ListenerGoes
<1>4. CASE Main
  BY <1>1, <1>2, <1>4 DEF HttpInv, HttpTypeOK, scrapeVars, Main, StartsListener, InstallsHandlers,
         StopSignal, ErrorReceived, ShutdownBegins, Drained, DrainTimesOut, ClosesErrChan, Returns
<1>5. CASE PublishSnapshot
  <2>1. current' \in 1..(MaxSnapshot + 1)
    BY <1>5, MaxSnapshotAssumption DEF HttpInv, HttpTypeOK, PublishSnapshot
  <2> QED
    BY <1>1, <1>2, <1>5, <2>1 DEF HttpInv, HttpTypeOK, scrapeVars, PublishSnapshot
<1> QED
  BY <1>2, <1>3, <1>4, <1>5 DEF HttpInv

LEMMA HttpInductive ==
  ASSUME HttpInv, [Next]_vars
  PROVE  HttpInv'
<1>1. CASE UNCHANGED vars
  BY <1>1 DEF HttpInv, HttpTypeOK, AnswersFromSnap, vars
<1>2. CASE Next
  BY <1>1, <1>2, HandlerStep, OtherStep DEF Next, Gone
<1> QED
  BY <1>1, <1>2

\* A step with the exporter is a step of the HTTP side or leaves it alone.
LEMMA StepIsHttpStep ==
  ASSUME [ExportNext]_allVars
  PROVE  [Next]_vars
<1>1. CASE Alive /\ Reader
  BY <1>1 DEF Reader, TimerPush, Begins, Collected, Sent, NotSent, Ends, StopsReader, LastPush,
              Callback, Observes
<1>2. CASE Alive /\ (EnsureLoads \/ EnsureRegisters)
  BY <1>2 DEF EnsureLoads, EnsureRegisters
<1>3. CASE Alive /\ (Http \/ MainGoes \/ Publishes)
  BY <1>3 DEF Http, MainGoes, Publishes, Next
<1>4. CASE Gone /\ UNCHANGED exportVars
  BY <1>4 DEF Next
<1>5. CASE UNCHANGED allVars
  BY <1>5 DEF allVars
<1> QED
  BY <1>1, <1>2, <1>3, <1>4, <1>5 DEF ExportNext

-----------------------------------------------------------------------------
\* Every step of the composition is one the HTTP server may make: what is shown
\* of its safety in module HttpServer holds with the exporter beside it.
THEOREM ExportRefinesHttp == ExportSpec => Init /\ [][Next]_vars
<1>1. ExportInit => Init
  BY DEF ExportInit
<1>2. [ExportNext]_allVars => [Next]_vars
  BY StepIsHttpStep
<1> QED
  BY <1>1, <1>2, PTL DEF ExportSpec

\* The HTTP side keeps its types beside the exporter.
LEMMA HttpCorrect == ExportSpec => []HttpInv
<1>1. Init => HttpInv
  BY HttpInitial
<1>2. HttpInv /\ [Next]_vars => HttpInv'
  BY HttpInductive
<1> QED
  BY <1>1, <1>2, ExportRefinesHttp, PTL

\* powerscale_up and the samples of an answer are of the same cycle, however
\* many requests are in progress and however often the loop publishes meanwhile
\* (PromCollector.Collect, prometheus.go:49, loads the snapshot once).
THEOREM ScrapeIsOneSnapshot == ExportSpec => []AnswerIsOneSnapshot
<1>1. HttpInv => AnswerIsOneSnapshot
  BY DEF HttpInv, AnswersFromSnap, AnswerIsOneSnapshot
<1> QED
  BY <1>1, HttpCorrect, PTL

-----------------------------------------------------------------------------
(* Rows.                                                                    *)

\* If no row is the duplicate of an earlier one, none is of a later one, and
\* both paths keep all of them.
LEMMA AllFirstAllLast ==
  ASSUME NEW rows \in Seq(Label), Cardinality(FirstOfEach(rows)) = Len(rows)
  PROVE  FirstOfEach(rows) = LastOfEach(rows)
<1> DEFINE I == 1..Len(rows)
           J == {j \in DOMAIN rows : \A h \in 1..(j - 1) : rows[h] # rows[j]}
           f == [i \in J |-> <<rows[i], i>>]
<1>1. DOMAIN rows = I /\ Len(rows) \in Nat
  BY LenProperties
<1>2. IsFiniteSet(I) /\ Cardinality(I) = Len(rows)
  <2>1. 1 \in Int /\ Len(rows) \in Int
    BY <1>1
  <2>2. /\ IsFiniteSet(1..Len(rows))
        /\ Cardinality(1..Len(rows)) = IF 1 > Len(rows) THEN 0 ELSE Len(rows) - 1 + 1
    BY ONLY <2>1, FS_Interval
  <2> QED
    BY <1>1, <2>2
<1>3. J \in SUBSET I
  BY <1>1
<1>4. IsFiniteSet(J)
  BY <1>2, <1>3, FS_Subset
<1>5. f \in Bijection(J, FirstOfEach(rows))
  BY DEF Bijection, Injection, Surjection, IsInjective, FirstOfEach
<1>6. Cardinality(J) = Cardinality(I)
  <2>1. ExistsBijection(J, FirstOfEach(rows))
    BY <1>5 DEF ExistsBijection
  <2> QED
    BY <2>1, <1>2, <1>4, FS_Bijection
<1>7. J = I
  BY <1>2, <1>3, <1>6, FS_Subset
<1>8. \A j \in I : \A h \in (j + 1)..Len(rows) : rows[h] # rows[j]
  <2> SUFFICES ASSUME NEW j \in I, NEW h \in (j + 1)..Len(rows)
               PROVE  rows[h] # rows[j]
    OBVIOUS
  <2>1. h \in I /\ j \in 1..(h - 1)
    BY <1>1
  <2> QED
    BY <2>1, <1>7
<1>9. FirstOfEach(rows) = {<<rows[i], i>> : i \in I}
  BY <1>7 DEF FirstOfEach
<1>10. {j \in DOMAIN rows : \A h \in (j + 1)..Len(rows) : rows[h] # rows[j]} = I
  BY <1>1, <1>8
<1> QED
  BY <1>9, <1>10 DEF LastOfEach

-----------------------------------------------------------------------------
(* The exporter.                                                            *)

StoreInv ==
    /\ content \in Seq(Content)
    /\ Len(content) = current
    /\ registered \cup ensure \subseteq UNION {DOMAIN s : s \in Content}
    /\ registered \cap ensure = {}

ReaderInv ==
    /\ push \in {"idle", "collect", "send"}
    /\ flush \in {"no", "stopping", "last", "done"}
    /\ lost \in BOOLEAN
    /\ begun \in 0..current
    /\ DOMAIN batch \subseteq registered

\* What a callback has read is the store's content at some moment of the push.
BatchRead ==
    \A m \in DOMAIN batch :
        /\ batch[m].snap \in 1..current
        /\ batch[m].snap >= begun
        /\ batch[m].points = Observed(batch[m].snap, m)

ExportedRead ==
    \A m \in DOMAIN exported.batch :
        /\ exported.batch[m].snap \in 1..current
        /\ exported.batch[m].snap >= exported.begun
        /\ exported.batch[m].points = Observed(exported.batch[m].snap, m)

\* The last push is made before main goes on, and no push follows it.
FlushOrder ==
    /\ flush = "done" => push = "idle"
    /\ flush = "last" => push # "idle"
    /\ main \in {"return", "exited"} => flush = "done"

\* With --once nothing is published or registered after Start, so a push that
\* has called all callbacks has all metrics of the one snapshot.
OnceWhole ==
    once => /\ current = 1 /\ ensure = {}
            /\ MetricNames(1) \subseteq registered
            /\ push = "send" => registered \subseteq DOMAIN batch
            /\ flush = "done" /\ ~lost => MetricNames(1) \subseteq DOMAIN exported.batch

\* The inductive invariant, with HttpInv for the snapshots' numbers.
ExportInv == StoreInv /\ ReaderInv /\ BatchRead /\ ExportedRead /\ FlushOrder /\ OnceWhole

\* What a snapshot holds does not change once it is published.
LEMMA ObservedKept ==
  ASSUME \A k \in 1..current : content'[k] = content[k]
  PROVE  \A k \in 1..current : \A m : Observed(k, m)' = Observed(k, m)
  BY DEF Observed, SamplesByName, MetricNames

\* The first snapshot is in the store, and nothing has been pushed.
LEMMA ExportInitial == ExportInit => ExportInv
<1> SUFFICES ASSUME ExportInit PROVE ExportInv
  OBVIOUS
<1>1. PICK s \in Content : content = <<s>> /\ registered = DOMAIN s
  BY DEF ExportInit
<1>2. current = 1 /\ ensure = {} /\ push = "idle" /\ flush = "no" /\ main = "listen"
      /\ lost = FALSE /\ begun = 0 /\ batch = <<>> /\ exported.batch = <<>>
  BY DEF ExportInit, Init, NoBatch, NothingExported
<1>3. DOMAIN batch = {} /\ DOMAIN exported.batch = {}
  BY <1>2
<1>4. StoreInv
  BY <1>1, <1>2 DEF StoreInv
<1>5. ReaderInv /\ FlushOrder
  <2>1. lost \in BOOLEAN
    BY <1>2
  <2>2. begun \in 0..current
    BY <1>2
  <2> QED
    BY <1>2, <1>3, <2>1, <2>2 DEF ReaderInv, FlushOrder
<1>7. BatchRead /\ ExportedRead
  BY <1>3 DEF BatchRead, ExportedRead
<1>6. OnceWhole
  BY <1>1, <1>2 DEF OnceWhole, MetricNames
<1> QED
  BY <1>4, <1>5, <1>6, <1>7 DEF ExportInv

\* A step of the HTTP side other than a publication.
LEMMA HttpStepKeeps ==
  ASSUME ExportInv, UNCHANGED exportVars, UNCHANGED <<once, current>>,
         main' \in {"return", "exited"} => flush = "done"
  PROVE  ExportInv'
<1> USE DEF exportVars
<1>1. StoreInv' /\ ReaderInv' /\ FlushOrder'
  BY DEF ExportInv, StoreInv, ReaderInv, FlushOrder
<1>2. BatchRead' /\ ExportedRead'
  BY ObservedKept DEF ExportInv, BatchRead, ExportedRead
<1>3. OnceWhole'
  BY DEF ExportInv, OnceWhole, MetricNames
<1> QED
  BY <1>1, <1>2, <1>3 DEF ExportInv

\* A publication adds a snapshot behind the ones that were read.
LEMMA PublishKeeps ==
  ASSUME ExportInv, HttpTypeOK, Publishes
  PROVE  ExportInv'
<1>1. PICK s \in Content : content' = Append(content, s)
  BY DEF Publishes
<1>2. current \in Nat /\ current' = current + 1 /\ ~once /\ ~once' /\ UNCHANGED main
      /\ UNCHANGED <<registered, ensure, readerVars>>
  BY MaxSnapshotAssumption DEF HttpTypeOK, Publishes, PublishSnapshot
<1>3. content' \in Seq(Content) /\ Len(content') = current'
      /\ \A k \in 1..current : content'[k] = content[k]
  BY <1>1, <1>2, AppendProperties DEF ExportInv, StoreInv
<1>4. StoreInv' /\ ReaderInv' /\ FlushOrder'
  BY <1>2, <1>3 DEF ExportInv, StoreInv, ReaderInv, FlushOrder, readerVars
<1>5. BatchRead' /\ ExportedRead'
  BY <1>2, <1>3, ObservedKept DEF ExportInv, BatchRead, ExportedRead, readerVars
<1>6. OnceWhole'
  BY <1>2 DEF OnceWhole
<1> QED
  BY <1>4, <1>5, <1>6 DEF ExportInv

\* A reload adds instruments, with --once there is none.
LEMMA EnsureKeeps ==
  ASSUME ExportInv, HttpTypeOK, EnsureLoads \/ EnsureRegisters
  PROVE  ExportInv'
<1>1. UNCHANGED <<vars, content, readerVars>>
  BY DEF EnsureLoads, EnsureRegisters
<1>2. /\ registered \subseteq registered' /\ registered' \cap ensure' = {}
      /\ registered' \cup ensure' \subseteq UNION {DOMAIN s : s \in Content}
  <2>1. CASE EnsureLoads
    <3>1. content[current] \in Content
      BY MaxSnapshotAssumption, ElementOfSeq DEF ExportInv, StoreInv, HttpTypeOK
    <3> QED
      BY <2>1, <3>1 DEF EnsureLoads, MetricNames, ExportInv, StoreInv
  <2>2. CASE EnsureRegisters
    BY <2>2 DEF EnsureRegisters, ExportInv, StoreInv
  <2> QED
    BY <2>1, <2>2
<1>3. StoreInv' /\ ReaderInv' /\ FlushOrder'
  BY <1>1, <1>2 DEF ExportInv, StoreInv, ReaderInv, FlushOrder, readerVars, vars
<1>4. BatchRead' /\ ExportedRead'
  BY <1>1, ObservedKept DEF ExportInv, BatchRead, ExportedRead, readerVars, vars
<1>5. ~once
  BY DEF EnsureLoads, EnsureRegisters, ExportInv, OnceWhole
<1>6. OnceWhole'
  BY <1>1, <1>5 DEF OnceWhole, vars
<1> QED
  BY <1>3, <1>4, <1>6 DEF ExportInv

\* A push that begins carries nothing yet.
LEMMA BeginsKeeps ==
  ASSUME ExportInv, HttpTypeOK, Begins, \/ flush = "no" /\ flush' = flush
                                        \/ flush = "stopping" /\ flush' = "last"
  PROVE  ExportInv'
<1>1. UNCHANGED <<vars, content, registered, ensure, exported, lost>>
      /\ push' = "collect" /\ begun' = current /\ DOMAIN batch' = {}
  BY DEF Begins, NoBatch
<1>2. StoreInv' /\ FlushOrder'
  BY <1>1 DEF ExportInv, StoreInv, FlushOrder, vars
<1>3. ReaderInv'
  BY <1>1, MaxSnapshotAssumption DEF HttpTypeOK, ExportInv, ReaderInv, vars
<1>4. BatchRead'
  BY <1>1 DEF BatchRead
<1>5. ExportedRead'
  BY <1>1, ObservedKept DEF ExportInv, ExportedRead, vars
<1>6. OnceWhole'
  BY <1>1 DEF ExportInv, OnceWhole, MetricNames, vars
<1> QED
  BY <1>2, <1>3, <1>4, <1>5, <1>6 DEF ExportInv

\* A callback reads the snapshot of the moment.
LEMMA CallbackKeeps ==
  ASSUME ExportInv, HttpTypeOK, NEW m \in registered, Callback(m)
  PROVE  ExportInv'
<1>1. UNCHANGED <<vars, content, registered, ensure, push, begun, exported, flush, lost>>
      /\ push = "collect"
  BY DEF Callback, Observes
<1>2. DOMAIN batch' = DOMAIN batch \cup {m}
      /\ batch'[m] = [snap |-> current, points |-> Observed(current, m)]
      /\ \A n \in DOMAIN batch : batch'[n] = batch[n]
  BY DEF Callback, Observes
<1>3. current \in 1..current /\ current >= begun
  BY MaxSnapshotAssumption DEF HttpTypeOK, ExportInv, ReaderInv
<1>4. \A k \in 1..current : \A n : Observed(k, n)' = Observed(k, n)
  BY <1>1, ObservedKept
<1>5. StoreInv' /\ ReaderInv' /\ FlushOrder'
  BY <1>1, <1>2 DEF ExportInv, StoreInv, ReaderInv, FlushOrder, vars
<1>6. BatchRead'
  BY <1>1, <1>2, <1>3, <1>4 DEF ExportInv, BatchRead, vars
<1>7. ExportedRead'
  BY <1>1, <1>4 DEF ExportInv, ExportedRead, vars
<1>8. OnceWhole'
  BY <1>1 DEF ExportInv, OnceWhole, MetricNames, vars
<1> QED
  BY <1>5, <1>6, <1>7, <1>8 DEF ExportInv

\* The end of a push, received or not.
LEMMA EndKeeps ==
  ASSUME ExportInv, HttpTypeOK, Sent \/ NotSent
  PROVE  ExportInv'
<1>1. UNCHANGED <<vars, content, registered, ensure>>
      /\ push' = "idle" /\ begun' = 0 /\ DOMAIN batch' = {}
      /\ flush' = IF flush = "last" THEN "done" ELSE flush
  BY DEF Sent, NotSent, Ends, NoBatch
<1>2. \/ UNCHANGED exported /\ lost' = (flush = "last")
      \/ push = "send" /\ exported' = [begun |-> begun, batch |-> batch] /\ UNCHANGED lost
  BY DEF Sent, NotSent, Ends
<1>3. flush # "done"
  BY DEF Sent, NotSent, Ends, ExportInv, FlushOrder
<1>4. \A k \in 1..current : \A n : Observed(k, n)' = Observed(k, n)
  BY <1>1, ObservedKept
<1>5. StoreInv' /\ FlushOrder'
  BY <1>1, <1>3 DEF ExportInv, StoreInv, ReaderInv, FlushOrder, vars
<1>6. ReaderInv'
  <2>1. lost' \in BOOLEAN
    BY <1>2, Zenon DEF ExportInv, ReaderInv
  <2> QED
    BY <1>1, <2>1, MaxSnapshotAssumption DEF HttpTypeOK, ExportInv, ReaderInv, vars
<1>7. BatchRead'
  BY <1>1 DEF BatchRead
<1>8. ExportedRead'
  BY <1>1, <1>2, <1>4 DEF ExportInv, BatchRead, ExportedRead, vars
<1>9. OnceWhole'
  <2>1. ASSUME once, flush' = "done", ~lost'
        PROVE  MetricNames(1) \subseteq DOMAIN exported'.batch
    <3>1. push = "send" /\ exported' = [begun |-> begun, batch |-> batch]
      BY <1>1, <1>2, <1>3, <2>1
    <3> QED
      BY <2>1, <3>1 DEF ExportInv, OnceWhole
  <2> QED
    BY <1>1, <2>1 DEF ExportInv, OnceWhole, MetricNames, vars
<1> QED
  BY <1>5, <1>6, <1>7, <1>8, <1>9 DEF ExportInv

\* All callbacks have been called, or the reader is stopped.
LEMMA CollectedKeeps ==
  ASSUME ExportInv, Collected \/ StopsReader
  PROVE  ExportInv'
<1>1. UNCHANGED <<vars, content, registered, ensure, batch, begun, exported, lost>>
  BY DEF Collected, StopsReader
<1>2. \/ push = "collect" /\ push' = "send" /\ UNCHANGED flush /\ registered \subseteq DOMAIN batch
      \/ UNCHANGED push /\ flush = "no" /\ flush' = "stopping" /\ main = "close"
  BY DEF Collected, StopsReader
<1>3. StoreInv' /\ ReaderInv' /\ FlushOrder'
  BY <1>1, <1>2 DEF ExportInv, StoreInv, ReaderInv, FlushOrder, vars
<1>4. BatchRead' /\ ExportedRead'
  BY <1>1, ObservedKept DEF ExportInv, BatchRead, ExportedRead, vars
<1>5. OnceWhole'
  BY <1>1, <1>2 DEF ExportInv, OnceWhole, MetricNames, vars
<1> QED
  BY <1>3, <1>4, <1>5 DEF ExportInv

\* The invariant is inductive.
LEMMA ExportInductive ==
  ASSUME ExportInv, HttpInv, [ExportNext]_allVars
  PROVE  ExportInv'
<1>1. HttpTypeOK
  BY DEF HttpInv
<1>2. CASE Http
  BY <1>2, HttpStepKeeps DEF Http, Listener, Binds, Serves, BindFails, AcceptFails, ServerClosed,
     Reports, ReportPanics, ListenerGoes, Handler, Accept, WriteHealth, WriteSamples, Respond,
     ScrapeGoes, ExportInv, FlushOrder
<1>3. CASE MainGoes
  BY <1>3, HttpStepKeeps DEF MainGoes, Main, StartsListener, InstallsHandlers, StopSignal,
     ErrorReceived, ShutdownBegins, Drained, DrainTimesOut, ClosesErrChan, Returns,
     ExportInv, FlushOrder
<1>4. CASE (Gone /\ UNCHANGED exportVars) \/ UNCHANGED allVars
  BY <1>4, HttpStepKeeps DEF Gone, allVars, vars, ExportInv, FlushOrder
<1>5. CASE Reader
  <2>1. CASE TimerPush
    BY <1>1, <2>1, BeginsKeeps DEF TimerPush
  <2>2. CASE LastPush
    BY <1>1, <2>2, BeginsKeeps DEF LastPush
  <2> QED
    BY <1>1, <1>5, <2>1, <2>2, CallbackKeeps, EndKeeps, CollectedKeeps DEF Reader
<1> QED
  BY <1>1, <1>2, <1>3, <1>4, <1>5, PublishKeeps, EnsureKeeps DEF ExportNext

LEMMA ExportCorrect == ExportSpec => []ExportInv
<1>1. ExportInit => ExportInv
  BY ExportInitial
<1>2. ExportInv /\ HttpInv /\ [ExportNext]_allVars => ExportInv'
  BY ExportInductive
<1> QED
  BY <1>1, <1>2, HttpCorrect, PTL DEF ExportSpec

-----------------------------------------------------------------------------
\* The state keeps its types through publications, pushes, reloads and shutdown.
THEOREM ExportTypeCorrect == ExportSpec => []ExportTypeOK
<1>1. StoreInv => /\ registered \subseteq UNION {DOMAIN s : s \in Content}
                  /\ ensure \subseteq (UNION {DOMAIN s : s \in Content}) \ registered
  BY Zenon DEF StoreInv
<1>2. ExportInv /\ HttpInv => ExportTypeOK
  BY <1>1 DEF ExportInv, HttpInv, StoreInv, ReaderInv, ExportTypeOK
<1> QED
  BY <1>2, ExportCorrect, HttpCorrect, PTL

\* No point of a push is older than the push, although the callbacks were made
\* for an earlier snapshot (OTLPExporter.EnsureInstruments, otlp.go:91).
THEOREM PushesAreFresh == ExportSpec => []PushIsFresh
<1>1. ExportInv => PushIsFresh
  BY DEF ExportInv, BatchRead, ExportedRead, PushIsFresh
<1> QED
  BY <1>1, ExportCorrect, PTL

\* For snapshots of any size, a push and a scrape of the same snapshot carry the
\* same points of every metric that has no duplicate rows.
THEOREM ExportPathsAgree == ExportSpec => []ExportsAgree
<1>1. ASSUME ExportInv, NEW m \in DOMAIN exported.batch,
             Cardinality(Collect(exported.batch[m].snap, m))
                 = Len(SamplesByName(exported.batch[m].snap, m))
      PROVE  exported.batch[m].points = Collect(exported.batch[m].snap, m)
  <2> DEFINE k == exported.batch[m].snap
             rows == SamplesByName(k, m)
  <2>1. k \in 1..Len(content) /\ content \in Seq(Content)
    BY <1>1 DEF ExportInv, ExportedRead, StoreInv
  <2>2. content[k] \in Content
    BY <2>1, ElementOfSeq
  <2>3. rows \in Seq(Label)
    BY <2>2, ContentAssumption, EmptySeq DEF SamplesByName, MetricNames
  <2>4. FirstOfEach(rows) = LastOfEach(rows)
    BY <1>1, <2>3, AllFirstAllLast DEF Collect
  <2> QED
    BY <1>1, <2>4 DEF ExportInv, ExportedRead, Observed, Collect
<1>2. ExportInv => ExportsAgree
  BY <1>1 DEF ExportsAgree
<1> QED
  BY <1>2, ExportCorrect, PTL

\* --once leaves nothing of its cycle behind: the flush in Shutdown (main.go:325)
\* has pushed every metric by the time it returns, or the backend refused it.
THEOREM OnceReachesBackend == ExportSpec => []OnceIsPushed
<1>1. ExportInv => OnceIsPushed
  BY DEF ExportInv, OnceIsPushed, OnceWhole, FlushOrder, ExportedRead
<1> QED
  BY <1>1, ExportCorrect, PTL
=============================================================================
