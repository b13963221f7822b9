---------------------------- MODULE MC_RpcSession ----------------------------
(***************************************************************************)
(* Model of RpcSession for TLC: two tabs, two tokens, two UI versions.     *)
(***************************************************************************)
EXTENDS RpcSession

\* Two calls are enough for a 401 or a skew to be followed by another call
\* or answer of either tab; one upgrade makes a skew possible.
MCMaxCalls    == 2
MCMaxUpgrades == 1

\* A 401 of one tab, a re-login there, and the answer to a call the other
\* tab sent before them take three calls.
MCMaxCallsStale == 3
=============================================================================
