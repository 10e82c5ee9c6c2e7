----------------------------- MODULE MCDiscovery -----------------------------
(***************************************************************************)
(* Discovery for TLC: two providers that yield two items each, a handler    *)
(* that reads, and two batches that remove what may or may not be there    *)
(* and add what may be there already.                                      *)
(***************************************************************************)
EXTENDS Discovery

CONSTANTS c1, a1, r1

\* A component comes again under the same id, with an app, whether or not it is
\* there: it is removed and added in one batch.
Restart ==
    [remove |-> {ComponentRef(c1)},
     components |-> {[id |-> c1, area |-> NoArea]},
     apps |-> {[id |-> a1, app |-> [host |-> c1, area |-> r1]]}, areas |-> {}]

\* The app leaves and the area it names comes, or comes again.
Replace ==
    [remove |-> {AppRef(a1), AreaRef(r1)},
     components |-> {}, apps |-> {}, areas |-> {r1}]

MCBatches == {Restart, Replace}

=============================================================================
