------------------------ MODULE MCEvidenceCollection ------------------------
(* Constants of the run of EvidenceCollection.                             *)
EXTENDS EvidenceCollection

AllOn(t) == [o \in Option |-> IF o = "timeout" THEN t ELSE TRUE]

\* The artifacts are all on; the timeout is missing in the file or one tick.
MCLoaded == {AllOn(0), AllOn(1)}

Nothing == [o \in Option |-> Unset]

\* A form of the settings page that switches two artifacts off, one that
\* switches them on again, and an update of a single field by another client.
MCForm == {
    [AllOn(1) EXCEPT !["process"] = FALSE, !["network"] = FALSE],
    AllOn(2),
    [Nothing EXCEPT !["timeout"] = 0, !["metadata"] = FALSE] }
=============================================================================
