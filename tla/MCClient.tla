------------------------------ MODULE MCClient ------------------------------
(* An engine that two Hermes sessions share, one of them a call without a    *)
(* session.                                                                  *)
EXTENDS Client

CONSTANTS logical, auxiliary, read

OneSession == {logical}
Nobody == {}
TwoSessions == {logical, auxiliary}
OneCall == {auxiliary}
WithAndWithout == {{}, {read}}
Without == {{}}

Short == <<Message("user", 0), Message("assistant", 0)>>

\* One that is mostly the results of a call.
Bulky ==
    <<Message("user", 0), Message("calls", 0), Message("tool", 0), Message("tool", 0),
      Message("assistant", 0)>>

\* The behaviours in which only a request that failed closes the client, and nothing is aborted.
Undisturbed ==
    Init /\ [][Rests \/ Ask \/ Turn \/ Closer \/ \E n \in Numbers : CloseEnds(n) \/ Expires(n)]_vars
=============================================================================
