--------------------------- MODULE MCTextBatches ---------------------------
(* A message of three batches and one of a single batch; a line that         *)
(* contradicts the first batch, one past the end of its message and one of   *)
(* an earlier request.                                                       *)
EXTENDS TextBatches

MCDeltas == {"a", "b", "c", "x", "y", "z"}

MCScript == << <<"a", "b", "a">>, <<"c">> >>

MCStrays ==
    {[message |-> 1, index |-> 0, delta |-> "x", final |-> FALSE],
     [message |-> 1, index |-> 3, delta |-> "y", final |-> TRUE],
     [message |-> 0, index |-> 0, delta |-> "z", final |-> TRUE]}

MCAnswers ==
    {[kind |-> "tool_calls", text |-> <<>>], [kind |-> "final", text |-> <<"c">>]}
    \cup {[kind |-> "stop", text |-> t] :
            t \in {<<"a", "b", "a">>, <<"c">>, <<"a", "b", "a", "c">>, <<"b", "x">>}}
=============================================================================
