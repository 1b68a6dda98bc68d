----------------------------- MODULE MCRFCStore -----------------------------
(* Instances of RFCStore for TLC.                                          *)
EXTENDS RFCStore

MCDefaults == [k \in AllKeys |-> IF k = "k1" THEN "a" ELSE None]
\* ClearParam of one key, or of all keys below a prefix.
MCPatterns == {{"k1"}, {"k1", "k2"}}
\* The opens that may fail.  When the rewriting of main fails, the dictionary
\* stays ahead of its file until the next write, which RestartSafe excludes.
SomeFaults == {<<"append", "main">>, <<"rewrite", "local">>}
============================================================================
