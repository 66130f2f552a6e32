--------------------------- MODULE MCServerRuntime ---------------------------
(* Small instances of ServerRuntime for TLC.                               *)
EXTENDS ServerRuntime

CONSTANTS sse, discord, c1, w1

\* The broker takes everything, the notifications take what concerns media.
MCWanted == [s \in {sse, discord} |-> IF s = sse THEN {"worker", "media"} ELSE {"media"}]

\* Events only, settings only, and both.
MCBudgets == {<<2, 0>>, <<0, 2>>, <<1, 1>>}

\* Nothing but two updates of settings.
MCSettingsOnly == {<<0, 2>>}
=============================================================================
