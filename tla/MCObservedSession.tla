-------------------------- MODULE MCObservedSession --------------------------
(* ObservedSession with two calls. *)
EXTENDS ObservedSession, TLC

CONSTANTS first, second

TwoCalls == {first, second}

Ask(event, origin, found) ==
    [event |-> event, origin |-> origin, found |-> found, upload |-> FALSE, gap |-> FALSE,
     url |-> FALSE]
WithGap(a) == [a EXCEPT !.gap = TRUE]
WithUrl(a) == [a EXCEPT !.url = TRUE]

\* A credential in a call with a URL, and a letter in one without
Posted == WithUrl(Ask("out", "none", <<"key", "mail">>))
Letter == Ask("out", "none", <<"mail">>)
Upload == WithUrl([Ask("out", "none", <<"path">>) EXCEPT !.upload = TRUE])

TwoAsks ==
    (first :> {Ask("result", "f", <<"key", "mail">>), Ask("read", "f", <<"path">>), Posted})
    @@ (second :> {Posted, WithGap(Letter), Upload, Ask("read", "f", <<"path">>)})

TwoRules == {<<"mask", "mail">>, <<"block_path", "f">>}
=============================================================================
