---------------------------- MODULE MCRemoteMsg ----------------------------
EXTENDS RemoteMsg

\* One thread on node 0 and two on node 1; the last one starts with nothing.
OneAndTwo == <<0, 1, 1>>
FirstSeeds == <<{2}, {1}, {}>>
=============================================================================
