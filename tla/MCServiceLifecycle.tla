-------------------------- MODULE MCServiceLifecycle --------------------------
(* Small instances of ServiceLifecycle for TLC. *)
EXTENDS ServiceLifecycle

CONSTANTS h1, h2

MCAll         == {"gpu", "ollama", "pusher"}
MCPushing     == {"gpu", "pusher"}       \* no Ollama collector
MCTwoHandlers == {h1, h2}
MCOneHandler  == {h1}
=============================================================================
