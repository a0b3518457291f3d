------------------------------- MODULE MCExport -------------------------------
EXTENDS Export

\* A cluster that reports one metric only, and one that reports two, with
\* duplicate rows in one of them.
MCContent == {[m1 |-> <<"x">>], [m1 |-> <<"x", "x">>, m2 |-> <<"x", "y">>]}
=============================================================================
