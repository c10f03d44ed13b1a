---------------------------- MODULE MCEventPipeline ----------------------------
(***************************************************************************)
(* An instance of EventPipeline for TLC.  Record 1 is a failed tool call   *)
(* (queued, yet the fold usually takes it), 2 the plain result of a call   *)
(* (stored, never queued, cheap).                                          *)
(***************************************************************************)
EXTENDS EventPipeline

MCAction == <<"persist_and_queue", "persist">>
MCVerdicts == <<{"consumed"}, {"inert", "none"}>>

\* Two messages of the user, which only a worker can read.
MessageAction == <<"persist_and_queue", "persist_and_queue">>
MessageVerdicts == <<{"none"}, {"none"}>>

=============================================================================
