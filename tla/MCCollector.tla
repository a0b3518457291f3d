----------------------------- MODULE MCCollector -----------------------------
(* Two clusters, two generations of collectors over one store.              *)
EXTENDS Collector

MCGen == 1..2

\* 0 stands for every period that is not positive.
MCInterval == {0, 1}
=============================================================================
