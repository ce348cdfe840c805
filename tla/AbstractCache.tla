--------------------------- MODULE AbstractCache ---------------------------
(***************************************************************************)
(* What hamsterd's cache promises to the code that uses it                  *)
(* (cache.Transport): per key at most one stored response, present or       *)
(* absent and never in between.  An entry can appear only for a response    *)
(* the origin sent to its end, it can vanish at any time, it can be served  *)
(* only while it is there, and neither a crash nor a restart makes one up.  *)
(***************************************************************************)
CONSTANTS Keys, Fetches, Readers, None

VARIABLES
    entry,      \* entry[k]: the response stored for k, or None
    complete,   \* responses received to their end
    serving     \* serving[r]: the response a reader got, or None

absVars == <<entry, complete, serving>>

Init ==
    /\ entry = [k \in Keys |-> None]
    /\ complete = {}
    /\ serving = [r \in Readers |-> None]

Complete(f) ==
    /\ complete' = complete \cup {f}
    /\ UNCHANGED <<entry, serving>>

\* A key without an entry gets one, or loses the one it has: replacement is a
\* loss followed by a store.
Store(k, f) ==
    /\ f \in complete
    /\ entry[k] = None
    /\ entry' = [entry EXCEPT ![k] = f]
    /\ UNCHANGED <<complete, serving>>

Lose(k) ==
    /\ entry' = [entry EXCEPT ![k] = None]
    /\ UNCHANGED <<complete, serving>>

Serve(r, k) ==
    /\ serving[r] = None
    /\ entry[k] # None
    /\ serving' = [serving EXCEPT ![r] = entry[k]]
    /\ UNCHANGED <<entry, complete>>

Finish(r) ==
    /\ serving' = [serving EXCEPT ![r] = None]
    /\ UNCHANGED <<entry, complete>>

\* The process ends; what is stored stays.
Stop ==
    /\ serving' = [r \in Readers |-> None]
    /\ UNCHANGED <<entry, complete>>

Next ==
    \/ \E f \in Fetches : Complete(f)
    \/ \E k \in Keys, f \in Fetches : Store(k, f)
    \/ \E k \in Keys : Lose(k)
    \/ \E r \in Readers, k \in Keys : Serve(r, k)
    \/ \E r \in Readers : Finish(r)
    \/ Stop

Spec == Init /\ [][Next]_absVars
=============================================================================
