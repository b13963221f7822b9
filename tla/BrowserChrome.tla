---------------------------- MODULE BrowserChrome ----------------------------
(***************************************************************************)
(* The chrome around the object browser of a signed-in tab: the browser    *)
(* reducer and actions (sidebar, storage info, server info), the header's  *)
(* StorageInfo and BrowserDropdown (About, Change Password, Sign Out), and *)
(* ChangePasswordModal, whose outcome is reported through the alert banner *)
(* (the Alerts module, extended here: every other caller of set() stays a  *)
(* step of its own).                                                       *)
(*                                                                         *)
(* Data abstraction: serverInfo is {} until ServerInfo answers, then the   *)
(* kind of user its userInfo describes; a secret key is one the checks     *)
(* refuse or one they accept (see Secrets); the access keys are the        *)
(* token's sub, of ACCESS_KEY_MIN_LENGTH or more.  The eye toggles of the  *)
(* modal only switch an input's type and are left out.                     *)
(***************************************************************************)
EXTENDS Alerts

CONSTANTS
    MaxSetAuth,     \* bound on the SetAuth calls in flight
    MaxLogin        \* bound on the Login calls in flight

\* what serverInfo.userInfo says: an IAM user, a temporary (STS) user, or
\* neither (the root credentials)
UserKinds == {"iam", "temp", "root"}
\* a secret key as the checks of canUpdateCredentials see it: "" is empty
\* for the current key and shorter than SECRET_KEY_MIN_LENGTH for the new
Secrets == {"", "long"}
\* the inputs of the Login form
LoginFields == {"accessKey", "secretKey"}

VARIABLES
    page,           \* the route: the browser, or /login after Sign Out
    crashed,        \* a render or lifecycle method threw: React unmounted the app
    tokenStored,    \* localStorage 'token' is set (web.GetToken() is not null)
    sidebarOpen,    \* browser.sidebarOpen
    storageInfo,    \* "initial" ({used: [0]}) or "loaded"
    storageCall,    \* the StorageInfo call of StorageInfo's mount is in flight
    serverInfo,     \* browser.serverInfo: "empty" ({}) or a user kind
    serverCall,     \* the ServerInfo call of BrowserDropdown's mount is in flight
    dropdownModal,  \* BrowserDropdown's state: "none", "about" or "password"
    form,           \* ChangePasswordModal's state: [current, new] secret keys
    setAuthCalls,   \* SetAuth calls in flight
    signedOut,      \* ghost: the user pressed Sign Out and has not signed in since
    loginForm,      \* Login's state: the fields that are not empty
    loginCalls      \* Login calls in flight

chromeVars == <<page, crashed, tokenStored, sidebarOpen, storageInfo, storageCall,
                serverInfo, serverCall, dropdownModal, form, setAuthCalls, signedOut,
                loginForm, loginCalls>>
alertVars == <<alert, alertId, timers, autoClearAsked>>
allVars == <<chromeVars, alertVars>>

\* the tab shows the browser and can be used
Usable == page = "browser" /\ ~crashed

\* ChangePasswordModal's constructor: the key inputs start empty
EmptyForm == [current |-> "", new |-> ""]

ChromeInit ==
    /\ Init
    /\ page = "browser"
    /\ crashed = FALSE
    /\ tokenStored = TRUE
    /\ sidebarOpen = FALSE
    /\ storageInfo = "initial"
    /\ storageCall = TRUE       \* StorageInfo.componentWillMount
    /\ serverInfo = "empty"
    /\ serverCall = TRUE        \* BrowserDropdown.componentDidMount
    /\ dropdownModal = "none"
    /\ form = EmptyForm
    /\ setAuthCalls = 0
    /\ signedOut = FALSE
    /\ loginForm = {}
    /\ loginCalls = 0

-----------------------------------------------------------------------------
\* the cases of the browser reducer that set one field
CLOSE_SIDEBAR == sidebarOpen' = FALSE
SET_STORAGE_INFO(info) == storageInfo' = info
SET_SERVER_INFO(info) == serverInfo' = info

\* toggleSidebar (MobileHeader) and closeSidebar (a click outside SideBar)
ToggleSidebar ==
    /\ Usable
    /\ sidebarOpen' = ~sidebarOpen
    /\ UNCHANGED <<page, crashed, tokenStored, storageInfo, storageCall, serverInfo,
                   serverCall, dropdownModal, form, setAuthCalls, signedOut>>
    /\ UNCHANGED <<loginForm, loginCalls>> /\ UNCHANGED alertVars

CloseSidebar ==
    /\ Usable
    /\ CLOSE_SIDEBAR
    /\ UNCHANGED <<page, crashed, tokenStored, storageInfo, storageCall, serverInfo,
                   serverCall, dropdownModal, form, setAuthCalls, signedOut>>
    /\ UNCHANGED <<loginForm, loginCalls>> /\ UNCHANGED alertVars

\* fetchStorageInfo's .then: setStorageInfo; a failure has no handler
StorageInfoSettles ==
    /\ storageCall
    /\ storageCall' = FALSE
    /\ \/ UNCHANGED storageInfo
       \/ SET_STORAGE_INFO("loaded")
    /\ UNCHANGED <<page, crashed, tokenStored, sidebarOpen, serverInfo, serverCall,
                   dropdownModal, form, setAuthCalls, signedOut>>
    /\ UNCHANGED <<loginForm, loginCalls>> /\ UNCHANGED alertVars

\* fetchServerInfo's .then: setServerInfo with the user's userInfo; a
\* failure has no handler and serverInfo stays {}
ServerInfoSettles ==
    /\ serverCall
    /\ serverCall' = FALSE
    /\ \/ UNCHANGED serverInfo
       \/ \E kind \in UserKinds : SET_SERVER_INFO(kind)
    /\ UNCHANGED <<page, crashed, tokenStored, sidebarOpen, storageInfo, storageCall,
                   dropdownModal, form, setAuthCalls, signedOut>>
    /\ UNCHANGED <<loginForm, loginCalls>> /\ UNCHANGED alertVars

\* showAbout / hideAbout: AboutModal reads version, platform and runtime of
\* serverInfo, which are undefined (blank) while it is {}
ShowAbout ==
    /\ Usable /\ dropdownModal = "none"
    /\ dropdownModal' = "about"
    /\ UNCHANGED <<page, crashed, tokenStored, sidebarOpen, storageInfo, storageCall,
                   serverInfo, serverCall, form, setAuthCalls, signedOut>>
    /\ UNCHANGED <<loginForm, loginCalls>> /\ UNCHANGED alertVars

HideModal ==
    /\ Usable /\ dropdownModal # "none"
    /\ dropdownModal' = "none"
    /\ UNCHANGED <<page, crashed, tokenStored, sidebarOpen, storageInfo, storageCall,
                   serverInfo, serverCall, form, setAuthCalls, signedOut>>
    /\ UNCHANGED <<loginForm, loginCalls>> /\ UNCHANGED alertVars

(***************************************************************************)
(* showChangePassword mounts ChangePasswordModal.  componentWillMount runs  *)
(* jwtDecode(web.GetToken()), which throws on a null token; render then    *)
(* reads serverInfo.userInfo.isTempUser, a TypeError while serverInfo is   *)
(* {}.  Either error unmounts the whole app.                               *)
(***************************************************************************)
ShowChangePassword ==
    /\ Usable /\ dropdownModal = "none"
    /\ dropdownModal' = "password"
    /\ form' = EmptyForm
    /\ crashed' = (~tokenStored \/ serverInfo = "empty")
    /\ UNCHANGED <<page, tokenStored, sidebarOpen, storageInfo, storageCall,
                   serverInfo, serverCall, setAuthCalls, signedOut>>
    /\ UNCHANGED <<loginForm, loginCalls>> /\ UNCHANGED alertVars

\* canChangePassword: the form is shown to IAM users that are not temporary
canChangePassword == serverInfo = "iam"

\* the onChange of the secret key inputs, and generateAuth (getRandomSecretKey
\* gives 40 characters)
EditForm ==
    /\ Usable /\ dropdownModal = "password" /\ canChangePassword
    /\ \E field \in {"current", "new"}, v \in Secrets :
           form' = [form EXCEPT ![field] = v]
    /\ UNCHANGED <<page, crashed, tokenStored, sidebarOpen, storageInfo, storageCall,
                   serverInfo, serverCall, dropdownModal, setAuthCalls, signedOut>>
    /\ UNCHANGED <<loginForm, loginCalls>> /\ UNCHANGED alertVars

GenerateAuth ==
    /\ Usable /\ dropdownModal = "password" /\ canChangePassword
    /\ form' = [form EXCEPT !.new = "long"]
    /\ UNCHANGED <<page, crashed, tokenStored, sidebarOpen, storageInfo, storageCall,
                   serverInfo, serverCall, dropdownModal, setAuthCalls, signedOut>>
    /\ UNCHANGED <<loginForm, loginCalls>> /\ UNCHANGED alertVars

\* canUpdateCredentials: both access keys are the token's sub, long enough
canUpdateCredentials == form.current = "long" /\ form.new = "long"

\* setAuth: the Update button; the modal stays open and the form as it is
SetAuth ==
    /\ Usable /\ dropdownModal = "password" /\ canChangePassword
    /\ canUpdateCredentials
    /\ setAuthCalls < MaxSetAuth
    /\ setAuthCalls' = setAuthCalls + 1
    /\ UNCHANGED <<page, crashed, tokenStored, sidebarOpen, storageInfo, storageCall,
                   serverInfo, serverCall, dropdownModal, form, signedOut>>
    /\ UNCHANGED <<loginForm, loginCalls>> /\ UNCHANGED alertVars

(***************************************************************************)
(* The answer to a SetAuth.  Web.SetAuth stores `${res.token}`; the .then  *)
(* of setAuth shows the success alert, the .catch the error in a danger    *)
(* alert.  Both run whatever the tab shows now.  On /login the SET makes   *)
(* Login (connected to the whole state) re-render, and its render          *)
(* redirects to "/" once LoggedIn() holds: the browser mounts again, and   *)
(* BrowserDropdown and StorageInfo fetch anew; Login's state is dropped.   *)
(***************************************************************************)
\* BrowserDropdown's constructor: neither modal is shown
DropdownConstructed == dropdownModal' = "none"

\* BrowserDropdown.componentDidMount: fetchServerInfo()
DropdownDidMount == serverCall' = TRUE

\* StorageInfo.componentWillMount: fetchStorageInfo()
StorageInfoWillMount == storageCall' = TRUE

Remount ==
    /\ page' = "browser"
    /\ DropdownConstructed
    /\ DropdownDidMount
    /\ StorageInfoWillMount
    /\ loginForm' = {}

\* the showAlert of setAuth's .then and .catch
ShowSetAuthAlert(ok) == Set(IF ok THEN "success" ELSE "danger", FALSE)

\* Login's render: <Redirect to="/"> when web.LoggedIn()
LoginRedirects(loggedIn) == loggedIn

SetAuthSettles ==
    /\ setAuthCalls > 0
    /\ setAuthCalls' = setAuthCalls - 1
    /\ \E ok \in BOOLEAN :
          /\ tokenStored' = (tokenStored \/ ok)
          /\ ShowSetAuthAlert(ok)
          /\ IF page = "login" /\ LoginRedirects(tokenStored')
               THEN Remount
               ELSE UNCHANGED <<page, dropdownModal, serverCall, storageCall, loginForm>>
    /\ UNCHANGED <<crashed, sidebarOpen, storageInfo, serverInfo, form, signedOut,
                   loginCalls>>

\* Login's componentWillMount: clearAlert(); its state starts empty
LoginMount ==
    /\ alert' = initialState
    /\ loginForm' = {}

\* BrowserDropdown.logout: web.Logout() and history.replace("/login").  The
\* menu is behind the backdrop of an open modal.
Logout ==
    /\ Usable /\ dropdownModal = "none"
    /\ tokenStored' = FALSE
    /\ page' = "login"
    /\ signedOut' = TRUE
    /\ LoginMount
    /\ UNCHANGED <<crashed, sidebarOpen, storageInfo, storageCall, serverInfo,
                   serverCall, dropdownModal, form, setAuthCalls, loginCalls>>
    /\ UNCHANGED <<alertId, timers, autoClearAsked>>

\* another tab signs out, or drops the token on a 401: localStorage is shared
TokenRemovedElsewhere ==
    /\ tokenStored
    /\ tokenStored' = FALSE
    /\ UNCHANGED <<page, crashed, sidebarOpen, storageInfo, storageCall, serverInfo,
                   serverCall, dropdownModal, form, setAuthCalls, signedOut,
                   loginForm, loginCalls>>
    /\ UNCHANGED alertVars

\* accessKeyChange and secretKeyChange
EditLogin ==
    /\ page = "login"
    /\ \E f \in LoginFields, filled \in BOOLEAN :
          loginForm' = IF filled THEN loginForm \cup {f} ELSE loginForm \ {f}
    /\ UNCHANGED <<page, crashed, tokenStored, sidebarOpen, storageInfo, storageCall,
                   serverInfo, serverCall, dropdownModal, form, setAuthCalls,
                   signedOut, loginCalls>>
    /\ UNCHANGED alertVars

\* Login.handleSubmit: an empty key is refused with a danger alert and the
\* handler returns; otherwise web.Login is called
SubmitLogin ==
    /\ page = "login"
    /\ \/ /\ loginForm # LoginFields
          /\ Set("danger", FALSE)
          /\ UNCHANGED loginCalls
       \/ /\ loginForm = LoginFields
          /\ loginCalls < MaxLogin
          /\ loginCalls' = loginCalls + 1
          /\ UNCHANGED alertVars
    /\ UNCHANGED <<page, crashed, tokenStored, sidebarOpen, storageInfo, storageCall,
                   serverInfo, serverCall, dropdownModal, form, setAuthCalls,
                   signedOut, loginForm>>

\* The answer to a Login: Web.Login stores the token, then clearAlert() and
\* history.push("/") (the browser route stays mounted if it is shown
\* already); a failure shows its error
LoginSettles ==
    /\ loginCalls > 0
    /\ loginCalls' = loginCalls - 1
    /\ \/ /\ tokenStored' = TRUE
          /\ signedOut' = FALSE
          /\ alert' = initialState
          /\ IF page = "login" THEN Remount
             ELSE UNCHANGED <<page, dropdownModal, serverCall, storageCall, loginForm>>
          /\ UNCHANGED <<alertId, timers, autoClearAsked>>
       \/ /\ Set("danger", FALSE)
          /\ UNCHANGED <<tokenStored, signedOut, page, dropdownModal, serverCall,
                         storageCall, loginForm>>
    /\ UNCHANGED <<crashed, sidebarOpen, storageInfo, serverInfo, form, setAuthCalls>>

\* an alert of any other caller, its timers and the dismiss button
OtherAlerts ==
    /\ \/ \E type \in AlertTypes, autoClear \in BOOLEAN : Set(type, autoClear)
       \/ TimerFires
       \/ Dismiss
    /\ UNCHANGED chromeVars

ChromeNext ==
    \/ ToggleSidebar \/ CloseSidebar \/ StorageInfoSettles \/ ServerInfoSettles
    \/ ShowAbout \/ HideModal \/ ShowChangePassword \/ EditForm \/ GenerateAuth
    \/ SetAuth \/ SetAuthSettles \/ Logout \/ TokenRemovedElsewhere
    \/ EditLogin \/ SubmitLogin \/ LoginSettles \/ OtherAlerts

ChromeSpec == ChromeInit /\ [][ChromeNext]_allVars
                /\ WF_allVars(TimerFires /\ UNCHANGED chromeVars)

-----------------------------------------------------------------------------
ChromeTypeOK ==
    /\ TypeOK
    /\ page \in {"browser", "login"}
    /\ crashed \in BOOLEAN /\ tokenStored \in BOOLEAN /\ sidebarOpen \in BOOLEAN
    /\ storageInfo \in {"initial", "loaded"} /\ storageCall \in BOOLEAN
    /\ serverInfo \in {"empty"} \cup UserKinds /\ serverCall \in BOOLEAN
    /\ dropdownModal \in {"none", "about", "password"}
    /\ form \in [current: Secrets, new: Secrets]
    /\ setAuthCalls \in 0..MaxSetAuth
    /\ signedOut \in BOOLEAN
    /\ loginForm \subseteq LoginFields
    /\ loginCalls \in 0..MaxLogin

(***************************************************************************)
(* Sign Out is final: once the user has pressed it, no token is stored in *)
(* this browser until the user signs in again, whatever answers of calls   *)
(* made before it arrive afterwards (Web.SetAuth's .then stores one).      *)
(***************************************************************************)
SignOutIsFinal == signedOut => ~tokenStored

====
