------------------------ MODULE MCCancellableContext ------------------------
(* Two threads that call Cancel beside the worker.                         *)
EXTENDS CancellableContext

TwoCancellers == {"c1", "c2"}

=============================================================================
