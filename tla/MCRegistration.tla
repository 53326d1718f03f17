--------------------------- MODULE MCRegistration ---------------------------
(* Registration with short intervals: a refresh three ticks after a         *)
(* registration, a retry and a keep-alive after one.                        *)
EXTENDS Registration
=============================================================================
