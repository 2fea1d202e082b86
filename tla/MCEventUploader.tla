--------------------------- MODULE MCEventUploader ---------------------------
(* Values for the constants of EventUploader.                              *)
EXTENDS EventUploader

Limits == {0, 2}

\* No event is unserialisable, or the first is, or the second and third.
SomePoison == {{}, {1}, {2, 3}}

NoPoison   == {{}}
=============================================================================
