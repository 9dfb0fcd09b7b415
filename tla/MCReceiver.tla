----------------------------- MODULE MCReceiver -----------------------------
(* Receiver for TLC: the .cfg file gives the constants.                    *)
EXTENDS Receiver
=============================================================================
