------------------------------ MODULE MCResume ------------------------------
(* Small instances of Resume for TLC.                                        *)
EXTENDS Resume

\* A job that answers at once, after one that does, one that does not, and one that
\* ends the run; and a service that a reload may leave as it is.
AfterEach == {<<"prompt", "prompt">>, <<"slow", "prompt">>, <<"foreign", "rehearsed">>,
              <<"foreign", "deaf">>}

Rehearsed == {<<"rehearsed">>}
=============================================================================
