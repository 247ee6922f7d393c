--------------------------- MODULE MCFileTable ---------------------------
(* A small instance of FileTable for TLC: five host files over the        *)
(* behaviour, so that closed slots are reused while later slots are held. *)
EXTENDS FileTable, TLC

(* A client that sends a negative req.Len, next to an ordinary one.       *)
MCNegLens == {-1, 4}
=============================================================================
