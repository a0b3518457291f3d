--------------------------- MODULE MCClusterScrape ---------------------------
(* One cluster whose session can negotiate either of two API versions.      *)
EXTENDS ClusterScrape

MCVersion == {16, 26}
=============================================================================
