----------------------------- MODULE MCDeepScan -----------------------------
(* DeepScan with two calls that go out and one that waits for the model. *)
EXTENDS DeepScan, TLC

CONSTANTS first, second, incoming

ThreeCalls == {first, second, incoming}

Ask(to, texts) == [to : {to}, text : texts]
ThreeAsks ==
    (first :> Ask("out", {"secret", "oversize"}))
    @@ (second :> Ask("out", {"secret"}) \cup Ask("local", {"plain"}))
    @@ (incoming :> Ask("context", {"plain"}) \cup Ask("subagent", {"encrypted"}))
=============================================================================
