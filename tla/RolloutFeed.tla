----------------------------- MODULE RolloutFeed -----------------------------
(***************************************************************************)
(* What the value-rollout stream promises the critic: rollouts arrive in   *)
(* the order they were published, each at most once, and the producer is   *)
(* never blocked; under pressure or shutdown any of the undelivered ones   *)
(* may be lost.                                                            *)
(***************************************************************************)
EXTENDS Integers, Sequences, Functions

CONSTANT MaxPublished   \* bound: rollouts published in one behaviour

VARIABLES
    published,   \* how many rollouts have been published; the n-th is called n
    underway,    \* the undelivered ones that are not lost, oldest first
    delivered    \* what the trainer has been given, in the order it got it

vars == <<published, underway, delivered>>

Init == published = 0 /\ underway = << >> /\ delivered = << >>

Ordered(s) == \A i, j \in DOMAIN s : i < j => s[i] < s[j]

\* s holds some of what is underway, in the same order: oldest first.
Keeps(s) == s \in Seq(Range(underway)) /\ Ordered(s)

\* A new rollout joins the end; older ones may be lost to make room.
Publish ==
    /\ published < MaxPublished
    /\ published' = published + 1
    /\ underway' # << >> /\ underway'[Len(underway')] = published'
    /\ Keeps(SubSeq(underway', 1, Len(underway') - 1))
    /\ UNCHANGED delivered

Lose ==
    /\ Keeps(underway')
    /\ UNCHANGED <<published, delivered>>

\* The trainer is given the oldest n of them.
Deliver ==
    /\ \E n \in 1 .. Len(underway) :
          /\ delivered' = delivered \o SubSeq(underway, 1, n)
          /\ underway' = SubSeq(underway, n + 1, Len(underway))
    /\ UNCHANGED published

Next == Publish \/ Lose \/ Deliver

Spec == Init /\ [][Next]_vars
=============================================================================
