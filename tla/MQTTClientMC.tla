---------------------------- MODULE MQTTClientMC ----------------------------
(* Small instances of MQTTClient for TLC. *)
EXTENDS MQTTClient, TLC

CONSTANTS h1, h2

MCHandlers == {h1, h2}
(* The app's two shapes of pattern: a '+' level and a trailing '#'. *)
MCPatterns == {<<"a", "+">>, <<"a", "#">>}
(* "a/b" matches both patterns, "a" only "a/#". *)
MCTopics == {<<"a", "b">>, <<"a">>}
(* A '#' that is not last, as subscribe() accepts it. *)
MCBadPatterns == {<<"a", "+">>, <<"#", "b">>}

Sym == Permutations(MCHandlers)
=============================================================================
