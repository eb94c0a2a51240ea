----------------------------- MODULE MCOutputs ------------------------------
EXTENDS Outputs

\* A script: the pieces of a stream, of the kinds and widths given.
Text(s, kinds, widths) ==
  [n \in 1..Len(kinds) |-> [s |-> s, i |-> n, k |-> kinds[n], w |-> widths[n]]]
Plain(s, n) == Text(s, [i \in 1..n |-> "text"], [i \in 1..n |-> 1])
Tokens(kinds) == Text("stderr", kinds, [i \in 1..Len(kinds) |-> 1])

Writing(c, out, err) == c :> [stdout |-> out, stderr |-> err]

Base == [script |-> <<>>, direct |-> FALSE, fails |-> FALSE, trims |-> FALSE, reads |-> FALSE,
         elevated |-> {}]

\* An envelope, text around it and a mark cut in two; a lone half that is text.
Envelopes == {<<"text", "half", "rest", "error", "close", "half", "text">>,
              <<"mark", "progress", "close", "mark", "error", "close">>,
              <<"mark", "progress", "progress", "error", "close", "text">>}

Filtered == {[Base EXCEPT !.script = Writing("a", Plain("stdout", 1), Tokens(kinds))] : kinds \in Envelopes}
Delivered == {[Base EXCEPT !.script = Writing("a", Text("stdout", <<"text", "text", "text">>, <<1, 2, 1>>), <<>>),
                           !.fails = TRUE],
              [Base EXCEPT !.script = Writing("a", Plain("stdout", 2), Tokens(<<"mark", "error", "close">>)),
                           !.direct = TRUE],
              [Base EXCEPT !.script = Writing("a", Plain("stdout", 2), <<>>),
                           !.direct = TRUE, !.fails = TRUE],
              [Base EXCEPT !.script = Writing("a", Plain("stdout", 1), Tokens(<<"mark", "error", "close">>)),
                           !.fails = TRUE]}
Retained == {[Base EXCEPT !.script = Writing("a", <<>>, Plain("stderr", 1))
                                     @@ Writing("b", Plain("stdout", 1), <<>>),
                          !.trims = TRUE,
                          !.elevated = {[stdout |-> Plain("stdout", 3), stderr |-> Plain("stderr", 3)],
                                        [stdout |-> <<>>, stderr |-> Plain("stderr", 3)]}]}

Wide == Text("stdout", <<"text", "text", "text", "text">>, <<1, 3, 2, 1>>)
Paged == {[Base EXCEPT !.script = Writing("a", Text("stdout", <<"text">>, <<3>>),
                                     Text("stderr", <<"mark", "error", "error", "close">>, <<1, 2, 3, 1>>)),
                       !.reads = TRUE],
          [Base EXCEPT !.reads = TRUE, !.elevated = {[stdout |-> Wide, stderr |-> <<>>]}]}

Instances == Filtered \cup Delivered \cup Retained \cup Paged
=============================================================================
