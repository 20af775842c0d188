------------------------ MODULE MCInceptionWorkflow ------------------------
(***************************************************************************)
(* The stages of the source, two sessions with a project each and two      *)
(* threads that call tools.                                                *)
(***************************************************************************)
EXTENDS InceptionWorkflow, TLC

CONSTANTS s1, s2, p1, p2, c1, c2

MCProjectOf == [s \in Sessions |-> IF s = s1 THEN p1 ELSE p2]

\* The threads are alike. (There are no liveness properties.)
Threads == Permutations({c1, c2})

\* A workflow that has come to its third stage, or was moved there by hand.
Late(w) == w # NoWorkflow /\ \E n \in 3 .. LastStage : w.status[n] # "pending"

Busy == {c \in Calls : calls[c] # Idle}

\* Bounds. The workflow of the second session is started and submitted to, and
\* not followed further. Everything else may happen to the first one in its
\* first two stages. In the later ones it is followed while the other session
\* has none and no calls have raced on it, with calls of one thread only once a
\* save has failed or it was moved by hand; and after a restart only if its
\* file had not come that far, or cannot be read.
WithinBounds ==
    /\ active[s2] \in {NoWorkflow, Started(s2)}
    /\ Late(active[s1]) =>
          /\ active[s2] = NoWorkflow /\ raced = {}
          /\ Cardinality(Busy) > 1 => skipped[s1] = "no" /\ s1 \notin behind
    /\ Late(disk[p1]) => Late(active[s1])
=============================================================================
