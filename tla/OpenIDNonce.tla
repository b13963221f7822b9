----------------------------- MODULE OpenIDNonce -----------------------------
(***************************************************************************)
(* The OpenID Connect round trip of the login pages and the nonce that     *)
(* binds an id_token to this browser.                                      *)
(*                                                                         *)
(* A tab starts a flow from OpenIDLoginButton.handleClick (Login page) or  *)
(* OpenIDLogin.handleSubmit (the /login/openid form): it draws a fresh     *)
(* nonce, stores it under the one localStorage key openIDKey, which every *)
(* tab of the browser shares, and navigates to the provider.  The provider *)
(* sends the tab back to /login/openid with the id_token (carrying the     *)
(* nonce) or an error in the hash; componentDidMount compares the stored   *)
(* nonce with the token's, and calls LoginSTS, whose success removes the  *)
(* key.  getRandomString(16) draws from 62^16 strings: two draws are taken *)
(* to differ, so a nonce is the number of the draw.                        *)
(***************************************************************************)
EXTENDS Naturals

CONSTANTS
    Tabs,           \* browser tabs sharing localStorage
    MaxNonces       \* bound on the flows started (nonces drawn)

\* getItem of a missing key (null), and the nonce of an id_token obtained
\* by someone else, in a flow of their own, never drawn by this browser
NoNonce == 0
ForeignNonce == MaxNonces + 1
Drawn == 1..MaxNonces

\* what a tab shows: a login form, the provider's page, /login/openid just
\* loaded with an id_token in its hash, /login/openid waiting for LoginSTS,
\* or the browser of a logged-in user
Pages == {"form", "provider", "callback", "verifying", "in"}

\* which form a tab on "form" shows: the Login page (password form and the
\* OpenID button) or the /login/openid form of OpenIDLogin
FormPages == {"login", "openid"}

\* the discovery document of the page shown, as far as the OpenID controls
\* care: GetDiscoveryDoc not answered, rejected (no .catch: it never
\* arrives), without authorization_endpoint, with it but no clientId, with
\* both
Docs == {"pending", "lost", "none", "endpoint", "client"}

VARIABLES
    storage,        \* localStorage openIDKey
    drawn,          \* nonces drawn so far
    page,           \* page shown by each tab
    sentWith,       \* nonce of the authorization URL a tab last navigated to
    hashNonce,      \* nonce of the id_token in the hash of the tab's URL
                    \* (kept in its history once the tab has moved on)
    accepted,       \* ghost: nonces a LoginSTS was sent with
    consumed,       \* ghost: nonces of the LoginSTS calls that succeeded
    formPage,       \* the login form each tab shows, or last showed
    doc             \* discovery document of each tab's mounted login page

vars == <<storage, drawn, page, sentWith, hashNonce, accepted, consumed,
          formPage, doc>>

\* a login page is loaded: its mount calls GetDiscoveryDoc afresh
LoadPage(t, f) ==
    /\ formPage' = [formPage EXCEPT ![t] = f]
    /\ doc' = [doc EXCEPT ![t] = "pending"]

Init ==
    /\ storage = NoNonce
    /\ drawn = 0
    /\ page = [t \in Tabs |-> "form"]
    /\ sentWith = [t \in Tabs |-> NoNonce]
    /\ hashNonce = [t \in Tabs |-> NoNonce]
    /\ accepted = {}
    /\ consumed = {}
    /\ formPage = [t \in Tabs |-> "login"]
    /\ doc = [t \in Tabs |-> "pending"]

(***************************************************************************)
(* handleClick / handleSubmit: a fresh nonce is stored, overwriting the    *)
(* nonce of any flow another tab has in progress, and the tab goes to the  *)
(* provider.  The early returns of handleSubmit (an empty client ID, a     *)
(* discovery document without authorization_endpoint) change no state.   *)
(***************************************************************************)
\* Login's render offers OpenIDLoginButton only when the document of its
\* componentDidMount has an authorization_endpoint and a clientId
LoginButtonShown(t) == doc[t] = "client"

\* past handleSubmit's empty client ID alert, the flow starts only when the
\* document of componentWillMount has an authorization_endpoint; before it
\* has arrived, or without one, the submit silently does nothing
OpenIDFormReady(t) == doc[t] \in {"endpoint", "client"}

CanStart(t) ==
    IF formPage[t] = "login" THEN LoginButtonShown(t) ELSE OpenIDFormReady(t)

\* the GetDiscoveryDoc of the mounted login page settles: the .then stores
\* the document in the component's state; a rejection is not handled
DiscoverySettles(t) ==
    /\ page[t] \in {"form", "callback", "verifying"}
    /\ doc[t] = "pending"
    /\ \E d \in Docs \ {"pending"} : doc' = [doc EXCEPT ![t] = d]
    /\ UNCHANGED <<storage, drawn, page, sentWith, hashNonce, accepted, consumed,
                   formPage>>

\* with an endpoint but no clientId, Login shows a Link to /login/openid
OpenIDLink(t) ==
    /\ page[t] = "form" /\ formPage[t] = "login"
    /\ doc[t] = "endpoint"
    /\ LoadPage(t, "openid")
    /\ UNCHANGED <<storage, drawn, page, sentWith, hashNonce, accepted, consumed>>

\* getRandomString called once for setItem and once more for the URL
StartLoginDrawTwice(t) ==
    /\ page[t] = "form"
    /\ CanStart(t)
    /\ drawn < MaxNonces
    /\ drawn' = drawn + 2
    /\ storage' = drawn + 1
    /\ sentWith' = [sentWith EXCEPT ![t] = drawn + 2]
    /\ page' = [page EXCEPT ![t] = "provider"]
    /\ UNCHANGED <<hashNonce, accepted, consumed, formPage, doc>>

\* getRandomString(16), storage.setItem(OPEN_ID_NONCE_KEY, nonce) and the
\* same nonce in buildOpenIDAuthURL: all of OpenIDLoginButton.handleClick,
\* and what handleSubmit does past its early returns
DrawNonce(t) ==
    /\ drawn' = drawn + 1
    /\ storage' = drawn + 1
    /\ sentWith' = [sentWith EXCEPT ![t] = drawn + 1]

StartLogin(t) ==
    /\ page[t] = "form"
    /\ CanStart(t)
    /\ drawn < MaxNonces
    /\ DrawNonce(t)
    /\ page' = [page EXCEPT ![t] = "provider"]
    /\ UNCHANGED <<hashNonce, accepted, consumed, formPage, doc>>

\* the provider redirects back with the id_token of the tab's request; an
\* error in the hash is shown by componentDidMount, which returns
ProviderReturns(t) ==
    /\ page[t] = "provider"
    /\ \/ /\ page' = [page EXCEPT ![t] = "callback"]
          /\ hashNonce' = [hashNonce EXCEPT ![t] = sentWith[t]]
       \/ /\ page' = [page EXCEPT ![t] = "form"]
          /\ hashNonce' = [hashNonce EXCEPT ![t] = NoNonce]
    /\ LoadPage(t, "openid")
    /\ UNCHANGED <<storage, drawn, sentWith, accepted, consumed>>

\* a link to /login/openid carrying an id_token issued to someone else
ForeignCallback(t) ==
    /\ page[t] \in {"form", "in"}
    /\ page' = [page EXCEPT ![t] = "callback"]
    /\ hashNonce' = [hashNonce EXCEPT ![t] = ForeignNonce]
    /\ LoadPage(t, "openid")
    /\ UNCHANGED <<storage, drawn, sentWith, accepted, consumed>>

\* the user goes back to, or reloads, the callback URL in the tab's history;
\* a LoginSTS still in flight is lost with the page
Revisit(t) ==
    /\ hashNonce[t] # NoNonce
    /\ page[t] # "callback"
    /\ page' = [page EXCEPT ![t] = "callback"]
    /\ LoadPage(t, "openid")
    /\ UNCHANGED <<storage, drawn, sentWith, hashNonce, accepted, consumed>>

\* storage.getItem(OPEN_ID_NONCE_KEY) !== tokenJSON.nonce refuses the token;
\* the check lets the token through when nothing is stored
NonceMatchesIfSet(stored, claimed) == stored = NoNonce \/ stored = claimed

NonceMatches(stored, claimed) == stored = claimed

(***************************************************************************)
(* componentDidMount of /login/openid with an id_token: refused with       *)
(* "Invalid auth token" (the OpenID form is shown), or LoginSTS is called. *)
(***************************************************************************)
Mount(t) ==
    /\ page[t] = "callback"
    /\ IF NonceMatches(storage, hashNonce[t])
         THEN /\ page' = [page EXCEPT ![t] = "verifying"]
              /\ accepted' = accepted \cup {hashNonce[t]}
         ELSE /\ page' = [page EXCEPT ![t] = "form"]
              /\ UNCHANGED accepted
    /\ UNCHANGED <<storage, drawn, sentWith, hashNonce, consumed, formPage, doc>>

\* the key after LoginSTS has succeeded, the nonce left in place
AfterLoginSTSKeep(stored) == stored

\* storage.removeItem(OPEN_ID_NONCE_KEY): whatever nonce is stored now
AfterLoginSTS(stored) == NoNonce

(***************************************************************************)
(* LoginSTS settles.  On success the .then removes the key and             *)
(* forceUpdate redirects to the browser; a rejection has no handler and    *)
(* the OpenID form stays, the key in place.                                *)
(***************************************************************************)
LoginSTSSettles(t) ==
    /\ page[t] = "verifying"
    /\ \/ /\ storage' = AfterLoginSTS(storage)
          /\ page' = [page EXCEPT ![t] = "in"]
          /\ consumed' = consumed \cup {hashNonce[t]}
       \/ /\ page' = [page EXCEPT ![t] = "form"]
          /\ UNCHANGED <<storage, consumed>>
    /\ UNCHANGED <<drawn, sentWith, hashNonce, accepted, formPage, doc>>

\* BrowserDropdown.logout: web.Logout() and history.replace("/login")
Logout(t) ==
    /\ page[t] = "in"
    /\ page' = [page EXCEPT ![t] = "form"]
    /\ LoadPage(t, "login")
    /\ UNCHANGED <<storage, drawn, sentWith, hashNonce, accepted, consumed>>

Next ==
    \E t \in Tabs :
        \/ StartLogin(t) \/ ProviderReturns(t) \/ ForeignCallback(t)
        \/ Revisit(t) \/ Mount(t) \/ LoginSTSSettles(t) \/ Logout(t)
        \/ DiscoverySettles(t) \/ OpenIDLink(t)

Spec == Init /\ [][Next]_vars

-----------------------------------------------------------------------------
Nonces == {NoNonce} \cup Drawn \cup {ForeignNonce}

TypeOK ==
    /\ storage \in {NoNonce} \cup Drawn
    /\ drawn \in 0..MaxNonces
    /\ page \in [Tabs -> Pages]
    /\ sentWith \in [Tabs -> {NoNonce} \cup Drawn]
    /\ hashNonce \in [Tabs -> Nonces]
    /\ accepted \subseteq Drawn \cup {ForeignNonce}
    /\ consumed \subseteq accepted
    /\ formPage \in [Tabs -> FormPages]
    /\ doc \in [Tabs -> Docs]

(***************************************************************************)
(* The tabs together keep the promise of the nonce (OpenIDAbstract): the  *)
(* nonces issued are those drawn by handleClick/handleSubmit, a nonce is   *)
(* presented while some tab waits for its LoginSTS, and used once a        *)
(* LoginSTS with it succeeded.  So componentDidMount's check never lets    *)
(* through an id_token of someone else's flow, nor one already logged in   *)
(* with (removeItem on success), in whatever order tabs start flows, come  *)
(* back, fail, log in, log out and revisit their history.                  *)
(***************************************************************************)
Verifying == {hashNonce[t] : t \in {u \in Tabs : page[u] = "verifying"}}

Abstract == INSTANCE OpenIDAbstract WITH
    Nonces <- Drawn,
    issued <- 1..drawn,
    verifying <- Verifying,
    used <- consumed

Refinement == Abstract!ASpec

(***************************************************************************)
(* A tab that comes back from the provider with the id_token of its own    *)
(* latest request is let in (its componentDidMount calls LoginSTS).        *)
(***************************************************************************)
OwnReturnAccepted ==
    [][\A t \in Tabs :
         (page[t] = "callback" /\ page'[t] # "callback"
          /\ hashNonce[t] = sentWith[t] /\ hashNonce[t] \notin accepted)
           => page'[t] = "verifying"]_vars

=============================================================================
