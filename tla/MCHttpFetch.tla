---------------------------- MODULE MCHttpFetch ----------------------------
(***************************************************************************)
(* Small instances of HttpFetch for TLC.                                   *)
(***************************************************************************)
EXTENDS HttpFetch, TLC

\* Every URL is served by the one origin of the model.
SameOrigin == [u \in Urls |-> CHOOSE o \in Origins : TRUE]

Answer(lifecycle, noStore, maxAge) ==
    [lifecycle |-> lifecycle,
     cacheControl |->
        [noStore |-> noStore, noCache |-> FALSE, maxAge |-> maxAge]]

\* Answers that are kept but stale at once: every fetch from then on has to ask
\* the origin, which may renew them.
StaleHeaders == {Answer(None, FALSE, 0)}

OneFetchSymmetry == Permutations(OneFetch)

=============================================================================
