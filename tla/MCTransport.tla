---------------------------- MODULE MCTransport ----------------------------
(* One panel, with firmware that is too old, old, the newest and even newer, *)
(* and an image of three chunks of which the last is short.                  *)
EXTENDS Transport

MCVersions == 1..4
=============================================================================
