------------------------------ MODULE MCRunner ------------------------------
EXTENDS JobRunner, TLC

StepThenGroup == <<"run", "group">>
TwoKeys == {Abort, "url"}
FewResults == {<<"ok", "none", "none">>, <<"error", "none", "none">>,
               <<"ok", Abort, "pass">>, <<"ok", "url", "fail">>}
=============================================================================
