-------------------------------- MODULE MCOutbox --------------------------------
(* A model-checking instance of Outbox.                                    *)
EXTENDS Outbox
===============================================================================
