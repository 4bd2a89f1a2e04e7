------------------------------ MODULE MCReading ------------------------------
(***************************************************************************)
(* The two ways in which text from outside comes in, for TLC: a process    *)
(* imports files (MCFileSources) or scans a URL (MCAnswerReading).  Either *)
(* one leaves the variables of the other as they began.                    *)
(***************************************************************************)
EXTENDS MCFileSources, MCAnswerReading

\* A process that imports files has no use for a moment and a mode.
ReadingInit ==
    /\ SourceInit
    /\ AnswerInit
    /\ \/ supplied = {}
       \/ mode = "strict" /\ now = At(2026, 7, 23, 0, 0, 0)

ReadingNext ==
    \/ stage = "idle" /\ SourceNext /\ UNCHANGED answerVars
    \/ phase = "loading" /\ supplied = {} /\ AnswerNext /\ UNCHANGED sourceVars

ReadingSpec == ReadingInit /\ [][ReadingNext]_<<sourceVars, answerVars>>

=============================================================================
