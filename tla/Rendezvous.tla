----------------------------- MODULE Rendezvous -----------------------------
(***************************************************************************)
(* What the channel promises to the client and to Claude, without polls,   *)
(* calls, wakes or notifications: a strict alternation of fresh questions  *)
(* and answers, each answer kept until the next question acknowledges it,  *)
(* which may break once and for all.                                       *)
(***************************************************************************)
EXTENDS Naturals

CONSTANTS
    Requests,   \* the questions
    None        \* no question

VARIABLES
    asked,      \* questions asked so far
    open,       \* the question without an answer
    done,       \* how many answers were given
    unread,     \* whether the newest answer is not acknowledged yet
    broken      \* whether the rendezvous broke

vars == <<asked, open, done, unread, broken>>

Init ==
    /\ asked = {}
    /\ open = None
    /\ done = 0
    /\ unread = FALSE
    /\ broken = FALSE

\* A fresh question acknowledges the previous answer, which must exist.
Ask(r) ==
    /\ ~broken
    /\ open = None
    /\ r \notin asked
    /\ done = 0 \/ unread
    /\ open' = r
    /\ asked' = asked \cup {r}
    /\ unread' = FALSE
    /\ UNCHANGED <<done, broken>>

Answer ==
    /\ ~broken
    /\ open # None
    /\ ~unread
    /\ open' = None
    /\ done' = done + 1
    /\ unread' = TRUE
    /\ UNCHANGED <<asked, broken>>

Break ==
    /\ ~broken
    /\ broken' = TRUE
    /\ open' = None
    /\ unread' = FALSE
    /\ UNCHANGED <<asked, done>>

Next == (\E r \in Requests : Ask(r)) \/ Answer \/ Break

Spec == Init /\ [][Next]_vars
=============================================================================
