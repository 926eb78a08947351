--------------------------- MODULE MCResultReader ---------------------------
(* A result of up to three records in up to three messages, in batches of   *)
(* up to two, read by a consumer with up to two references on the reader.   *)
EXTENDS ResultReader

MCServerCodes == {"Unavailable", "Internal"}

=============================================================================
