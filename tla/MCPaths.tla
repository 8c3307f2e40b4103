------------------------------- MODULE MCPaths -------------------------------
EXTENDS Paths
MCHostCwd == <<"a">>
MCDirs == {<<>>, <<"a">>}
MCFiles == {}
MCGiven == {Path(FALSE, <<"c">>), Path(FALSE, <<"..">>), Path(TRUE, <<"b">>),
            Path(TRUE, <<"b", "..", "..", "a">>)}
==============================================================================
