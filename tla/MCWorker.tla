------------------------------ MODULE MCWorker ------------------------------
(* One worker under one manager.                                           *)
EXTENDS Worker

CONSTANT node
=============================================================================
