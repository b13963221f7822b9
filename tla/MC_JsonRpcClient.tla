--------------------------- MODULE MC_JsonRpcClient ---------------------------
EXTENDS JsonRpcClient

\* The page can be served over http or https, with or without a port in
\* its URL, or from a scheme the client does not know.
MCEndpoints == {[scheme |-> s, port |-> p] : s \in {"http", "https", "file"},
                                             p \in {"none", "9000"}}

\* A real token, the empty string and the string "undefined" (what
\* `${res.token}` makes of a missing token).
MCTokenStrings == {"k1", "", "undefined"}

MCMethods == {"Login", "ServerInfo"}

\* Three calls: one for each kind of stored value before and after a change.
MCMaxCalls == 3

=============================================================================
