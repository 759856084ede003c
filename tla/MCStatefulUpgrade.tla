--------------------------- MODULE MCStatefulUpgrade ---------------------------
(* Small instances of StatefulUpgrade.                                       *)
EXTENDS StatefulUpgrade

CONSTANTS hil, ledger

OneService == {ledger}
TwoServices == {hil, ledger}
TwoReleases == {1, 2}
ThreeReleases == {1, 2, 3}
================================================================================
