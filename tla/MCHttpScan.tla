----------------------------- MODULE MCHttpScan -----------------------------
(***************************************************************************)
(* Small instances of HttpScan for TLC.                                    *)
(***************************************************************************)
EXTENDS HttpScan, TLC

CONSTANTS Sunset, Garbled   \* usable and unusable lifecycle fields

\* Every URL is served by the one origin of the model.
SameOrigin == [u \in Urls |-> CHOOSE o \in Origins : TRUE]

\* Every URL redacts to the one key of the model.
SameKey == [u \in Urls |-> CHOOSE k \in SignalKeys : TRUE]

\* The Deprecation field names an instant within the model's time.
DeprecatedAtTwo == [l \in Lifecycles |-> 2]

Answer(lifecycle, noStore, maxAge) ==
    [lifecycle |-> lifecycle,
     cacheControl |->
        [noStore |-> noStore, noCache |-> FALSE, maxAge |-> maxAge]]

\* An endpoint with and without lifecycle fields, kept for three instants.
KeptHeaders == {Answer(Sunset, FALSE, 3), Answer(None, FALSE, 3)}

\* An answer that is too large to be kept.
LargeHeaders == {Answer(Sunset, FALSE, 2)}

\* The same, and answers that are unusable or must not be kept.
VariedHeaders ==
    KeptHeaders \cup LargeHeaders
        \cup {Answer(Garbled, FALSE, 3), Answer(Sunset, TRUE, None)}

ClientSymmetry == Permutations(Clients)

=============================================================================
