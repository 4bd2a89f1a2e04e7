----------------------------- MODULE ChangeFeed -----------------------------
(***************************************************************************)
(* What the store promises to a reader of GET /api/changes: the feed is    *)
(* the complete story of the signals.  A signal's material state changes   *)
(* only together with exactly one new entry, which tells where the signal  *)
(* came from and where it went; nothing else is ever written to the feed.  *)
(*                                                                         *)
(* Times, connections and ingests do not appear: however many imports      *)
(* overlap or die, the feed tells one story.                               *)
(***************************************************************************)
EXTENDS Sequences

CONSTANTS
    Keys,       \* the signals
    States,     \* their material states
    Unknown     \* the state of a signal not yet discovered

VARIABLES
    view,       \* the state of every signal
    feed        \* what has happened to them, oldest first

Init ==
    /\ view = [k \in Keys |-> Unknown]
    /\ feed = <<>>

Transition(k, s) ==
    /\ view[k] # s
    /\ view' = [view EXCEPT ![k] = s]
    /\ feed' = Append(feed, [key |-> k, from |-> view[k], to |-> s])

Next == \E k \in Keys, s \in States : Transition(k, s)

Spec == Init /\ [][Next]_<<view, feed>>

=============================================================================
