--------------------------- MODULE MCAlertBrowser ---------------------------
(* Constants of the runs of AlertBrowser.                                  *)
EXTENDS AlertBrowser

CONSTANTS a1, a2, a3, a4, q1, q2

MCAlert == {a1, a2, a3, a4}

\* Every entry is an alert: entries of other actions are passed over as torn
\* lines are.
MCEntry == MCAlert

\* One alert makes a line of more than 64 KB.  Of the four, three are logged in one
\* behaviour, so that it is among them in some behaviours and not in others.
MCOrdinary == {a1, a2, a3}
MCLong     == {a4}

\* No filter, and those that hide one alert with a line of ordinary length.
MCFilter == {MCAlert} \union {MCAlert \ {a} : a \in MCOrdinary}

MCRequest == {q1, q2}

\* a4 is not like the others: it alone is too long for the reader.
Symmetry == Permutations(MCOrdinary) \union Permutations(MCRequest)
=============================================================================
