----------------------------- MODULE RpcSession -----------------------------
(***************************************************************************)
(* The browser's RPC session layer: the Web facade of web.js over the      *)
(* JSONrpc transport of jsonrpc.js.                                        *)
(*                                                                         *)
(* Several browser tabs run the same bundle and share one localStorage     *)
(* (keys 'token' and 'newlyUpdated').  Each tab issues calls concurrently; *)
(* a call reads the token when it is sent (makeCall), the server answers   *)
(* it later, and the answer is settled by makeCall's catch/then pipeline.  *)
(* Answers come back in any order.  location.reload() only requests a      *)
(* navigation: the tab goes on running callbacks until the browser         *)
(* reloads it, and the reloaded tab runs the bundle the server now serves, *)
(* with no calls in flight.                                                *)
(*                                                                         *)
(* The server (not part of this repository) is the environment: it issues *)
(* fresh tokens on Login/SetAuth, expires tokens, may be upgraded to a new *)
(* UI version, and answers each request with a 200 envelope, a 401, a 500  *)
(* or no HTTP status at all.                                               *)
(***************************************************************************)
EXTENDS Naturals, FiniteSets, Bags, BagsExt

CONSTANTS
    Tabs,           \* browser tabs sharing one localStorage
    Tokens,         \* bearer tokens the server can issue
    NoToken,        \* storage.getItem('token') returns null
    Versions,       \* UI versions a server build can carry
    InvalidVersion, \* a uiVersion that Moment(...).isValid() rejects
    Placeholder,    \* the unsubstituted 'IPOS_UI_VERSION' of a dev build
    Undefined,      \* a result without a token field (res.token undefined)
    MaxCalls,       \* bound on the calls issued by all tabs together
    MaxUpgrades     \* bound on server upgrades to another UI version

ASSUME NoToken \notin Tokens /\ Undefined \notin Tokens
ASSUME InvalidVersion \notin Versions /\ Placeholder \notin Versions
ASSUME MaxCalls \in Nat /\ MaxUpgrades \in Nat

VARIABLES
    storage,        \* localStorage: [token, newlyUpdated], survives reloads
    bundle,         \* tab -> currentUiVersion baked into its running bundle
    reloads,        \* tab -> location.reload() calls since the tab loaded
    inflight,       \* bag of the calls sent and not yet settled
    sent,           \* calls sent so far by all tabs
    serverVersion,  \* UI version the server currently runs
    upgrades,       \* server upgrades so far
    issued,         \* tokens the server has issued
    valid,          \* tokens the server still accepts
    rejected        \* tokens some call of this browser got a 401 for

vars == <<storage, bundle, reloads, inflight, sent,
          serverVersion, upgrades, issued, valid, rejected>>

(***************************************************************************)
(* Calls and answers.  "Login" stands for Login and LoginSTS (identical    *)
(* code), "SetAuth" for SetAuth, "Call" for every other method: each goes  *)
(* through makeCall, only the first two store the returned token.          *)
(***************************************************************************)
Methods      == {"Login", "SetAuth", "Call"}
StoresToken  == {"Login", "SetAuth"}
\* HTTP status of the answer; 0 stands for "no status" (err.status unset)
Statuses     == {0, 200, 401, 500}
Bodies       == {"result", "error", "nonjson"}
TokenVal     == Tokens \cup {NoToken}
Resp == [status: Statuses, body: Bodies,
         uiVersion: Versions \cup {InvalidVersion},
         token: Tokens \cup {Undefined}]
Call == [tab: Tabs, method: Methods, token: TokenVal,
         answered: BOOLEAN, resp: Resp]
\* Outcomes of makeCall: the result, or the Error each branch throws
Outcomes == {"Result", "AuthExpired", "ServerError", "Unreachable",
             "ParseError", "RpcError", "ProtocolError"}

NoResp == [status |-> 0, body |-> "nonjson", uiVersion |-> InvalidVersion,
           token |-> Undefined]

(***************************************************************************)
(* Web.LoggedIn(): !!storage.getItem('token')                              *)
(***************************************************************************)
LoggedIn == storage.token # NoToken

(***************************************************************************)
(* makeCall's pipeline: which branch settles an answer.  superagent        *)
(* rejects every non-2xx answer; the catch tests 401 first, then any       *)
(* status, then none; the then parses the body, throws the envelope's      *)
(* error, then validates uiVersion.                                        *)
(***************************************************************************)
Outcome(resp) ==
    CASE resp.status = 401                -> "AuthExpired"
      [] resp.status \notin {0, 200}      -> "ServerError"
      [] resp.status = 0                  -> "Unreachable"
      [] resp.body = "nonjson"            -> "ParseError"
      [] resp.body = "error"              -> "RpcError"
      [] resp.uiVersion = InvalidVersion  -> "ProtocolError"
      [] OTHER                            -> "Result"

(***************************************************************************)
(* The version check: uiVersion differs from currentUiVersion and the     *)
(* bundle is not a dev build.                                              *)
(***************************************************************************)
IsSkew(tab, resp) ==
    /\ Outcome(resp) = "Result"
    /\ resp.uiVersion # bundle[tab]
    /\ bundle[tab] # Placeholder

\* `${res.token}`: an undefined field becomes the string "undefined"
Stringify(x) == IF x = Undefined THEN "undefined" ELSE x

(***************************************************************************)
(* The token stored once call c settles: removed on a 401, replaced by     *)
(* `${res.token}` when Login/LoginSTS/SetAuth resolve, else unchanged.     *)
(***************************************************************************)
\* Fault models of the lines below (a plausible slip each), used to show that
\* the properties tell the code from them: the token stored from every
\* result, and the token kept on a 401.
TokenAfterAllResults(c) ==
    CASE Outcome(c.resp) = "AuthExpired" -> NoToken
      [] Outcome(c.resp) = "Result"      -> Stringify(c.resp.token)
      [] OTHER                           -> storage.token

TokenAfterKeepOn401(c) ==
    CASE Outcome(c.resp) = "Result" /\ c.method \in StoresToken
                                                             -> Stringify(c.resp.token)
      [] OTHER                                                -> storage.token

TokenAfter(c) ==
    CASE Outcome(c.resp) = "AuthExpired"                      -> NoToken
      [] Outcome(c.resp) = "Result" /\ c.method \in StoresToken
                                                             -> Stringify(c.resp.token)
      [] OTHER                                                -> storage.token

\* location.reload() calls made while settling c: on a 401 and on a skew
ReloadsBy(c) ==
    IF Outcome(c.resp) = "AuthExpired" \/ IsSkew(c.tab, c.resp) THEN 1 ELSE 0

\* storage.setItem('newlyUpdated', true) on a skew (fault model: never set)
NewlyUpdatedAfterNone(c) == storage.newlyUpdated

NewlyUpdatedAfter(c) == storage.newlyUpdated \/ IsSkew(c.tab, c.resp)

-----------------------------------------------------------------------------
Init ==
    /\ \E t \in TokenVal :
          /\ storage \in [token: {t}, newlyUpdated: BOOLEAN]
          /\ issued = {t} \ {NoToken}
          /\ valid = issued
    /\ serverVersion \in Versions
    /\ \E dev \in BOOLEAN :
          bundle = [tab \in Tabs |-> IF dev THEN Placeholder ELSE serverVersion]
    /\ reloads = [tab \in Tabs |-> 0]
    /\ inflight = EmptyBag
    /\ sent = 0
    /\ upgrades = 0
    /\ rejected = {}

(***************************************************************************)
(* A tab calls a Web method: makeCall reads the token and JSONrpc.call     *)
(* POSTs the envelope with 'Authorization: Bearer <token>' if there is a  *)
(* token.                                                                  *)
(***************************************************************************)
SendCall(tab, m) ==
    /\ sent < MaxCalls
    /\ inflight' = BagAdd(inflight, [tab |-> tab, method |-> m, token |-> storage.token,
                                     answered |-> FALSE, resp |-> NoResp])
    /\ sent' = sent + 1
    /\ UNCHANGED <<storage, bundle, reloads, serverVersion,
                   upgrades, issued, valid, rejected>>

(***************************************************************************)
(* Web.Logout(): storage.removeItem('token'), no network call.             *)
(***************************************************************************)
Logout(tab) ==
    /\ storage' = [storage EXCEPT !.token = NoToken]
    /\ UNCHANGED <<bundle, reloads, inflight, sent, serverVersion,
                   upgrades, issued, valid, rejected>>

(***************************************************************************)
(* makeCall settles call c in its tab, together with the .then of Login,  *)
(* LoginSTS and SetAuth that stores the token (one macrotask: nothing of   *)
(* another tab or answer runs in between).                                 *)
(***************************************************************************)
Settle(c) ==
    /\ BagIn(c, inflight)
    /\ c.answered
    /\ inflight' = BagRemove(inflight, c)
    /\ storage' = [token |-> TokenAfter(c), newlyUpdated |-> NewlyUpdatedAfter(c)]
    /\ reloads' = [reloads EXCEPT ![c.tab] = @ + ReloadsBy(c)]
    /\ rejected' = IF Outcome(c.resp) = "AuthExpired"
                     THEN rejected \cup ({c.token} \ {NoToken}) ELSE rejected
    /\ UNCHANGED <<bundle, sent, serverVersion, upgrades, issued, valid>>

-----------------------------------------------------------------------------
(***************************************************************************)
(* Environment: the browser and the server.                                *)
(***************************************************************************)

\* The browser carries out a requested reload: in-flight answers are lost,
\* the tab loads the bundle the server now serves; localStorage persists.
Reload(tab) ==
    /\ reloads[tab] > 0
    /\ bundle' = [bundle EXCEPT ![tab] = IF @ = Placeholder THEN Placeholder
                                                            ELSE serverVersion]
    /\ reloads' = [reloads EXCEPT ![tab] = 0]
    /\ inflight' = [c \in {d \in DOMAIN inflight : d.tab # tab} |-> inflight[c]]
    /\ UNCHANGED <<storage, sent, serverVersion, upgrades, issued, valid,
                   rejected>>

\* The answers the server can give to call c; Login and SetAuth results
\* carry a token the server has never issued before (which one does not
\* matter: tokens are opaque), none once all are issued
Answers(c) ==
    LET ok(tok) == [status |-> 200, body |-> "result",
                    uiVersion |-> serverVersion, token |-> tok]
        err     == [NoResp EXCEPT !.status = 200, !.body = "error"]
        fresh   == IF issued = Tokens THEN {}
                   ELSE {ok(CHOOSE t \in Tokens \ issued : TRUE)}
    IN  {[NoResp EXCEPT !.status = s] : s \in {0, 500}}
        \cup {[NoResp EXCEPT !.status = 200]}                 \* not JSON
        \cup {[ok(Undefined) EXCEPT !.uiVersion = InvalidVersion]}
        \cup CASE c.method = "Login"
                    -> {err} \cup fresh
               [] c.token \in valid
                    -> {err} \cup (IF c.method = "SetAuth" THEN fresh
                                                         ELSE {ok(Undefined)})
               [] c.token = NoToken
                    -> {err} \cup (IF c.method = "Call" THEN {ok(Undefined)} ELSE {})
               [] OTHER
                    -> {[NoResp EXCEPT !.status = 401]}

ServerAnswer(c) ==
    /\ BagIn(c, inflight)
    /\ ~c.answered
    /\ \E r \in Answers(c) :
          /\ inflight' = BagAdd(BagRemove(inflight, c),
                                [c EXCEPT !.answered = TRUE, !.resp = r])
          /\ issued' = issued \cup ({r.token} \cap Tokens)
          /\ valid' = valid \cup ({r.token} \cap Tokens)
    /\ UNCHANGED <<storage, bundle, reloads, sent, serverVersion,
                   upgrades, rejected>>

\* The server no longer accepts token t (expiry)
ServerExpire(t) ==
    /\ t \in valid
    /\ valid' = valid \ {t}
    /\ UNCHANGED <<storage, bundle, reloads, inflight, sent,
                   serverVersion, upgrades, issued, rejected>>

\* The server is upgraded to a build with another UI version
ServerUpgrade ==
    /\ upgrades < MaxUpgrades
    /\ \E v \in Versions \ {serverVersion} : serverVersion' = v
    /\ upgrades' = upgrades + 1
    /\ UNCHANGED <<storage, bundle, reloads, inflight, sent,
                   issued, valid, rejected>>

-----------------------------------------------------------------------------
Next ==
    \/ \E tab \in Tabs, m \in Methods : SendCall(tab, m)
    \/ \E tab \in Tabs : Logout(tab)
    \/ \E c \in DOMAIN inflight : ServerAnswer(c) \/ Settle(c)
    \/ \E tab \in Tabs : Reload(tab)
    \/ \E t \in Tokens : ServerExpire(t)
    \/ ServerUpgrade

(***************************************************************************)
(* Fairness: the HTTP stack eventually answers or fails every request (no  *)
(* request is cancelled, timeouts belong to the browser), the page's       *)
(* callbacks run, and the browser carries out a requested reload.  Users   *)
(* and the server's operators are not obliged to do anything.              *)
(***************************************************************************)
Fairness ==
    /\ WF_vars(\E c \in DOMAIN inflight : ServerAnswer(c))
    /\ WF_vars(\E c \in DOMAIN inflight : Settle(c))
    /\ \A tab \in Tabs : WF_vars(Reload(tab))

Spec == Init /\ [][Next]_vars /\ Fairness

-----------------------------------------------------------------------------
TypeOK ==
    /\ storage \in [token: TokenVal, newlyUpdated: BOOLEAN]
    /\ bundle \in [Tabs -> Versions \cup {Placeholder}]
    /\ reloads \in [Tabs -> 0..MaxCalls]
    /\ IsABag(inflight) /\ BagToSet(inflight) \subseteq Call
    /\ sent \in 0..MaxCalls
    /\ serverVersion \in Versions
    /\ upgrades \in 0..MaxUpgrades
    /\ valid \subseteq issued /\ issued \subseteq Tokens
    /\ rejected \subseteq Tokens


-----------------------------------------------------------------------------
(***************************************************************************)
(* Properties                                                              *)
(***************************************************************************)

\* A token the server rejected with a 401 is never sent again by any tab:
\* makeCall's catch removes the stored token on every 401, so every call
\* sent afterwards reads another token or none (web.js, makeCall).
StaleTokenNeverResent ==
    [][\A c \in DOMAIN inflight' :
         ~c.answered /\ CopiesIn(c, inflight') > CopiesIn(c, inflight)
         => c.token \notin rejected]_vars

\* The session layer implements the session state machine of SessionAbstract:
\* the token, the newlyUpdated flag and the requested reloads change only by
\* Login/LoginSTS/SetAuth results, Logout, 401s, skews and reloads.
Abstract == INSTANCE SessionAbstract WITH
                loggedIn      <- LoggedIn,
                newlyUpdated  <- storage.newlyUpdated,
                reloadPending <- [tab \in Tabs |-> reloads[tab] > 0]
Refinement == Abstract!ASpec

\* The spec (section 5) says unlocked last-write-wins writes of the token are
\* harmless because they are idempotent: a 401 answering a call sent with an
\* old token (or none) then never removes the token stored since by another
\* Login, LoginSTS or SetAuth.
StaleRejectionKeepsSession ==
    [][\A c \in DOMAIN inflight :
         (/\ CopiesIn(c, inflight') < CopiesIn(c, inflight)
          /\ c.answered
          /\ Outcome(c.resp) = "AuthExpired"
          /\ c.token # storage.token)
         => storage'.token = storage.token]_vars

=============================================================================
