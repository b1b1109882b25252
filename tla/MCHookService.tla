--------------------------- MODULE MCHookService ---------------------------
(* HookService with an outbound hook and a second client.                  *)
EXTENDS HookService, TLC

CONSTANTS hook, other

BothClients == {hook, other}

\* An outbound call that the client recognises beside the end of the session,
\* and one that it does not beside a policy request.
Pairs == {(hook :> "egress") @@ (other :> "end"),
          (hook :> "command") @@ (other :> "policy")}
=============================================================================
