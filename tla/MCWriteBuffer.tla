--------------------------- MODULE MCWriteBuffer ---------------------------
(* One writer with a stop hook and one without. *)
EXTENDS WriteBuffer

MCWriters == {"sim", "southd"}
MCHooked  == {"sim"}
=============================================================================
