---------------------------- MODULE MC_OpenIDNonce ----------------------------
EXTENDS OpenIDNonce, TLC

\* three flows: enough for two tabs to overlap and for one of them to
\* start again after a refusal or a logout
MCMaxNonces == 3

\* the tabs are interchangeable
TabSymmetry == Permutations(Tabs)

=============================================================================
