------------------------------ MODULE MCOldVfs ------------------------------
EXTENDS OldVfs
MCMounts == {[at |-> <<>>, root |-> <<>>], [at |-> <<"m">>, root |-> <<"a">>]}
MCDirs == {<<>>, <<"a">>}
MCFiles == {}
MCGiven == {Path(FALSE, <<"a">>), Path(FALSE, <<"..">>), Path(FALSE, <<"b">>), Path(TRUE, <<"m">>)}
=============================================================================
