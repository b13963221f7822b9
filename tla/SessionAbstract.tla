--------------------------- MODULE SessionAbstract ---------------------------
(***************************************************************************)
(* What the session layer promises (spec section 4.2, "State machine"):   *)
(* a browser is LoggedOut or LoggedIn; it becomes LoggedIn only when a     *)
(* Login, LoginSTS or SetAuth succeeds, and LoggedOut only by Logout or by *)
(* a 401, which also makes the tab that saw it reload.  Orthogonally, a    *)
(* tab that observes a version skew marks the browser "newly updated" and  *)
(* is pending a reload; a pending reload eventually happens and the tab    *)
(* starts fresh.  Nothing else changes these.                              *)
(***************************************************************************)
CONSTANTS Tabs

VARIABLES
    loggedIn,       \* a session token is stored
    newlyUpdated,   \* the persisted "newly updated" flag
    reloadPending   \* tab -> the tab has asked the browser to reload it

avars == <<loggedIn, newlyUpdated, reloadPending>>

AInit ==
    /\ loggedIn \in BOOLEAN
    /\ newlyUpdated \in BOOLEAN
    /\ reloadPending = [tab \in Tabs |-> FALSE]

\* A Login, LoginSTS or SetAuth result is stored
SignIn ==
    /\ loggedIn' = TRUE
    /\ UNCHANGED <<newlyUpdated, reloadPending>>

\* Logout
SignOut ==
    /\ loggedIn' = FALSE
    /\ UNCHANGED <<newlyUpdated, reloadPending>>

\* A 401: the session ends and the tab that saw it reloads
ForcedSignOut(tab) ==
    /\ loggedIn' = FALSE
    /\ reloadPending' = [reloadPending EXCEPT ![tab] = TRUE]
    /\ UNCHANGED newlyUpdated

\* A version skew: the flag is set and the tab reloads; the result that
\* revealed the skew may itself be a sign-in result
MarkStale(tab) ==
    /\ newlyUpdated' = TRUE
    /\ reloadPending' = [reloadPending EXCEPT ![tab] = TRUE]
    /\ loggedIn' \in {loggedIn, TRUE}

\* The tab reloads and starts fresh
Restart(tab) ==
    /\ reloadPending[tab]
    /\ reloadPending' = [reloadPending EXCEPT ![tab] = FALSE]
    /\ UNCHANGED <<loggedIn, newlyUpdated>>

ANext ==
    \/ SignIn
    \/ SignOut
    \/ \E tab \in Tabs : ForcedSignOut(tab) \/ MarkStale(tab) \/ Restart(tab)

ASpec == AInit /\ [][ANext]_avars /\ \A tab \in Tabs : WF_avars(Restart(tab))

=============================================================================
