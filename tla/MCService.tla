------------------------------- MODULE MCService -------------------------------
(* Model-checking instances of Service: two devices with two names or with *)
(* one, the first with and without an interval.                            *)
EXTENDS Service

CONSTANTS one, two

OwnOrSameName == {<<one, two>>, <<one, one>>}
FirstMayHaveNone == {<<1, 1>>, <<0, 1>>}

(* The first list is not there, or is one a poll may panic of: as it need  *)
(* not, such a list behaves like every refused one too.                    *)
SomeFiles == {<<"missing", "valid">>, <<"fatal", "valid">>}
FirstRefused == {<<"refused", "valid">>}
=============================================================================
