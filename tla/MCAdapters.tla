----------------------------- MODULE MCAdapters -----------------------------
(* Two events, messages, calls or changes of each, and a failure or two.    *)
EXTENDS Adapters
=============================================================================
