---------------------------- MODULE MCRegister ----------------------------
EXTENDS Register, TLC
MCSplit == {<<1>>, <<2, 3>>}

\* Sales that are corrected or taken back beside somebody who closes and untags; two
\* sales at once; a clerk who chooses taxes beside one who closes.
MCTasks == {1 :> {"create", "edit"} @@ 2 :> {"close", "untag"},
            1 :> {"create", "delete"} @@ 2 :> {"close", "return"},
            1 :> {"create", "close"} @@ 2 :> {"create", "edit"},
            1 :> {"taxes"} @@ 2 :> {"create", "taxes", "close"}}
=============================================================================
