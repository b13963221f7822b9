# TLA+ models of the IPOS browser console

This directory holds TLA+ models of the browser console under `src/browser/`.
The console is a React/Redux single-page application that talks to the IPOS
object-storage server over JSON-RPC. TLC checks the models. `PROJECT.json`
lists every component, run, mutant, mapped definition, finding and hazard.
This file explains them.

## The system

| Part | Source | State | Operations |
|---|---|---|---|
| JSON-RPC transport | `js/jsonrpc.js` | endpoint, namespace (set once) | `call`: POST the envelope, reject on a non-2xx status or no status |
| Session layer | `js/web.js` | localStorage keys `token` and `newlyUpdated` (shared by every tab) | `makeCall` (401 handling, error mapping, uiVersion check and reload); `Login`, `LoginSTS`, `SetAuth` (store the token); `Logout`; `LoggedIn`; typed wrappers |
| Object list | `js/objects/actions.js`, `js/objects/reducer.js` | `list`, `listLoading`, `sortBy`, `sortOrder`, `currentPrefix`, `prefixWritable`, `checkedList`, `shareObject` | `fetchObjects`, `selectPrefix`, `sortObjects`, `deleteObject`, `deleteCheckedObjects`, `check`/`uncheck`/`resetCheckedList`, `downloadCheckedObjects`/`downloadZip`, `shareObject`, `downloadObject` |
| Sorting | `js/utils.js` | none | `sortObjectsByName`, `BySize`, `ByDate` |
| Alerts | `js/alert/` | one alert with an id | `set` (optionally with a 5 s auto-clear timer), `clear` |
| Uploads | `js/uploads/` | map of uploads with loaded and total bytes | add, update progress, stop, abort; `UploadModal` shows the total progress |
| Buckets | `js/buckets/` | list, current bucket, policies | reducer only: `buckets/actions.js` is imported but not in the repository |
| Login | `js/browser/Login.js`, `OpenIDLogin.js` | form state; the OpenID nonce in localStorage | `Login`, and the OpenID redirect round trip |
| Browser chrome | `js/browser/` | sidebar, server info, storage info, the dropdown's modals | `ChangePasswordModal` (`SetAuth`), Sign Out, About, the sidebar toggles |

How the parts interact:

- Every thunk calls a method of the single `web` instance.
- `makeCall` reads the token from localStorage when the call is sent. The answer settles later, in any order relative to other answers.
- On a 401, `makeCall` removes the token and calls `location.reload()`.
- When a result's `uiVersion` differs from the bundle's, `makeCall` sets `newlyUpdated` and calls `location.reload()`.
- `location.reload()` only requests a navigation. The tab goes on running callbacks until the browser actually reloads it.
- Several tabs share the same localStorage.
- Each thunk captures some state (prefix, bucket, object name) before its call, and its callback runs against whatever the store holds by then.

## Modules

### `RpcSession` (session layer, with the transport's outcome classes)

State:
- `storage`: localStorage, which survives reloads.
- `bundle`: the `currentUiVersion` of each tab.
- `reloads`: how many times each tab has called `location.reload()` since it loaded.
- `inflight`: a bag of calls. Each call records its tab, its method and the token read at send time, and later the answer.
- Server state: `serverVersion`, `issued`, `valid`.
- `rejected`: the tokens that got a 401.

Actions, each tied to the code:
- `SendCall`: `makeCall` reads the token, and the envelope goes out.
- `Logout`: `Web.Logout`.
- `Settle`: the whole catch/then pipeline of `makeCall`, together with the token-storing `.then` of `Login`/`LoginSTS`/`SetAuth`, which run in the same macrotask.
- Environment actions, not mapped: `ServerAnswer` (every answer class of `JSONrpc.call`: no status, 500, 401, a non-JSON 200, a JSON-RPC error, a result with an invalid, equal or different uiVersion, with or without a token), `ServerExpire`, `ServerUpgrade`, and the browser's `Reload`.

Methods: "Login" stands for `Login` and `LoginSTS`, whose code is identical. "Call" stands for every method that does not store a token.

`SessionAbstract` is the session state machine of the specification:
- logged in or out;
- the persisted "newly updated" flag;
- whether a reload is pending in each tab.

`RpcSession` is shown to refine it through `INSTANCE SessionAbstract WITH` a refinement mapping. `LoggedIn` maps to `loggedIn`, and `reloads[tab] > 0` maps to `reloadPending`.

### `ObjectsList` (object list of the current bucket)

State:
- The objects reducer's fields, `shareObject` included.
- `loggedIn`: whether `web.LoggedIn()` holds. It starts either way: signed in, or browsing a public bucket anonymously. A 401 makes it false.
- `server`: the names stored under each prefix.
- `seen`: every name ever stored under each prefix.
- `downloaded`: the URLs the tab has navigated to for a download.
- `pending`: a bag of requests. Each records what its thunk captured: the prefix and the relative name.

Actions:
- `SelectPrefix`, `Refresh` (a bare `fetchObjects`, as the callers outside this repository make), `SortObjects`.
- A row's delete, in three steps (`rowConfirm` is the `showDeleteConfirmation` of that row's `ObjectActions`):
  - `AskDeleteObject`: the trash icon.
  - `HideRowConfirm`: the modal's cancel.
  - `DeleteObject`: the modal's Delete. It does not hide the modal, so after a failed `RemoveObject` the user can confirm again.
  - `ObjectContainer` mounts `ObjectActions` only while nothing is checked. When the row leaves the list, its modal goes with it (`RowUnmounts`, part of `Refresh` and of every callback).
- The bulk bar's delete, in three steps, because `ObjectsBulkActions` keeps `showDeleteConfirmation` in its own state (`deleteConfirm`):
  - `AskDeleteChecked`: "Delete selected" opens `DeleteObjectConfirmModal`.
  - `HideDeleteConfirmModal`: its cancel.
  - `DeleteCheckedObjects`: its confirm, which runs `deleteCheckedObjects` on the checked list as it is then. Callbacks such as the zip `onload` may have emptied it meanwhile.
- `ToggleCheck`: the checkbox of a row of the list, which calls `uncheckObject` when the row is `checked` and `checkObject` otherwise (`CheckObject`, `UncheckObject`). A checked name no longer in the list has no checkbox; only `ResetCheckedList` (the bulk bar's close) drops it.
- `HandleDownload`, which is the bulk bar's Download button:
  - one checked object goes to `downloadObject`, which calls `CreateURLToken` when logged in and navigates at once otherwise;
  - more go as a zip.
- `ShareObject` and `HideShareObject`: the row menu's share, with `PresignedGet` when logged in, and the modal's close.
- `ShowPreviewModal` and `HidePreviewModal`: the image icon of a row's menu mounts `PreviewObjectModal`, and Cancel unmounts it. `preview` is that row's `showPreview` together with the modal's own `url`.
  - The constructor calls `getObjectURL`, which reads the prefix now. When logged in it sends `CreateURLToken`. Its `.then` sets the url of the modal instance that asked (`PreviewCallback`), and of no other: `inst` tells the instances apart.
  - When not logged in, the callback runs inside the constructor, where React ignores `setState`. The url stays empty.
  - `ImageNames` stands for `getDataType` of the missing `mime.js`. The preview goes with its row (`PreviewUnmounts`).
- `Handle`, the callback of a request, with six disjuncts:
  - `HandleList`: the `.then` with its prefix check, or the `.catch`.
  - `HandleRemove`: `removeObject` by name.
  - `HandleZip`: `xhr.onload` resets the selection.
  - `HandleShare`: `showShareObject`.
  - `HandleUrl`: the download navigation.
  - `HandlePreview`: the `.then` or `.catch` of the preview's `CreateURLToken`.
- Environment: `Answer` (the server, including 401s) and `ExternalChange` (another client changes an object).
- While the share modal, a delete confirmation or a preview is open (`ModalOpen`), its backdrop blocks every list action of the user. Callbacks still run.
- Each case of the objects reducer is an operator (`SetList`, `RemoveFromList`, `CheckedListAdd`, `SetShareObject` and so on), over `removeObject`. The thunks' actions are written with them.

Abstractions:
- The current bucket is fixed, because bucket switching lives in the missing `buckets/actions.js`.
- The list is the set of its names; its order belongs to the sort functions.
- Alerts are not state here.
- The logged-out branch of the listing's `.catch` navigates to `/login`. The model leaves the navigation out and the tab stays on the list.
- Names are objects, never folders. So the Download button's test `!checkedObjects[0].endsWith('/')`, which sends a single checked folder the zip way, always holds.
- `Refresh` lets `fetchObjects` run at any time, though in this repository only `selectPrefix` calls it. This over-approximates the callers.

### `Alerts` (alert banner)

`Alerts` has no run of its own. It is checked inside `BrowserChrome`, where the password change and the Login form set alerts alongside every other caller.

State:
- `alert`: the reducer's `[show, id, type]`. The message is left out.
- `alertId`: the module-level counter of `alert/actions.js`.
- `timers`: the ids of started 5 s timers not yet fired, oldest first. Timers of equal delay fire in start order.
- `autoClearAsked`: a ghost holding the ids whose caller asked for auto-clear.

Actions:
- `Set`: `set()` takes `alertId++`, starts a timer unless the alert is `danger` without `autoClear`, and dispatches `SET` (the reducer case of that name).
- `TimerFires`: the oldest timer dispatches `CLEAR` with its id. `Clear` is the reducer's test: a `CLEAR` whose id differs from the shown alert's changes nothing.
- `Dismiss`: the banner's close button dispatches `CLEAR` without an id.

### `ObjectSort` (order of the object list)

An object is a record of three fields:
- a name: the rank of `toLowerCase()`, whether it has capitals, and whether it ends in `/`;
- a size;
- a date rank.

The comparators of `utils.js` are operators. `StableSort` is `Array.prototype.sort`, which is stable since ES2019, written as a fold of insertions. `sortObjectsList` dispatches on the key.

`Init` is a fresh listing as `fetchObjects` sorts it: last-modified, descending. `SortObjects` is the header click of `objects/actions.js`: ascending, unless the list is already sorted ascending by that key.

`SortedAsReference` compares the result with `Precedes`, an order stated without any sorting procedure:
- folders first;
- folders keep their order except under the name sort;
- otherwise by key, ties by position, both reversed for descending.

### `JsonRpcClient` (transport and `Web` wrappers)

JavaScript values are records `[type, val]`, because the code relies on `===` and on truthiness.

State:
- `client`: the scheme and port the `JSONrpc` constructor derives from the page URL.
- `token`: the localStorage string, or null.
- `requests`: the posted envelopes and whether each carried a bearer header.

Actions:
- `Construct`: the constructor.
- `StoreToken`: the `` `${res.token}` `` of `Login`/`LoginSTS`/`SetAuth`.
- `Logout`.
- `MakeCall`: `makeCall` with `JSONrpc.call`, which builds the envelope and headers.

### `Uploads` (uploads in progress)

`files` is the reducer's map from slug to `[loaded, size]`, and `showAbortModal` is its flag.

Actions:
- `Add`: `Dropzone.onDrop`.
- `Progress`: the request's progress events, never decreasing and never above the size.
- `Stop`.
- `ShowAbortModal` and `HideAbortModal`.
- `AbortUploads`: `AbortConfirmModal`'s Abort.

`totalLoaded` and `totalSize` are `UploadModal`'s sums. `uploads/actions.js` is missing from the repository; the module header states what its thunks are taken to do.

### `OpenIDNonce` (OpenID round trip)

State:
- `storage`: the shared localStorage key `openIDKey`.
- `page`: what each tab shows.
- `sentWith`: the nonce in each tab's authorization URL.
- `hashNonce`: the nonce of the id_token in each tab's callback URL.
- Ghosts `accepted` and `consumed`: the nonces sent to `LoginSTS`, and those whose `LoginSTS` succeeded.
- `formPage`: which login form a tab shows, the Login page or the `/login/openid` form.
- `doc`: what the mounted page's `GetDiscoveryDoc` gave. The values are: not answered, rejected, no `authorization_endpoint`, an endpoint without `clientId`, or both.

Actions:
- `LoadPage`: every load of a login page (the first one, the provider's redirect, Back or reload, and Sign Out) calls `GetDiscoveryDoc` afresh. `DiscoverySettles` is its `.then`. A rejection is unhandled, so the document never arrives.
- `StartLogin` is guarded by `CanStart`:
  - on the Login page, the OpenID button is rendered only with an endpoint and a `clientId`;
  - on the OpenID form, an endpoint is needed, and a submit without one silently does nothing.
- `OpenIDLink`: the Login page's link to `/login/openid`, shown when there is an endpoint and no `clientId`.
- `StartLogin` itself is `OpenIDLogin.handleSubmit` past its early returns. `DrawNonce` is the step it shares with `OpenIDLoginButton.handleClick`: draw a nonce, store it and put it in the authorization URL.
- `ProviderReturns`: an id_token, or an error.
- `Mount`: `componentDidMount` and its nonce check.
- `LoginSTSSettles`: success removes the key; a rejection has no handler.
- `Logout`.
- Environment: `Revisit` (Back or reload to the callback URL) and `ForeignCallback` (a link carrying someone else's id_token).

A nonce is the number of its draw. `getRandomString(16)` has 62^16 outcomes, so draws are taken to be distinct.

Refinement: `OpenIDNonce` implements `OpenIDAbstract` under the mapping
- `issued` is `1..drawn`, the nonces drawn so far;
- `verifying` is the set of nonces of the tabs waiting for their `LoginSTS` (`Verifying`);
- `used` is the ghost `consumed`.

### `OpenIDAbstract` (what the nonce promises)

- Its state is three sets of nonces: `issued`, `verifying` and `used`.
- `Issue`: the browser issues a fresh nonce.
- `Present`: an id_token is presented with a nonce that was issued, is not in use and was never used.
- `LogIn`: a presentation succeeds and uses the nonce up.
- `Drop`: a presentation fails, or its page is left, and the nonce stays usable.
- Every concrete step either is one of these steps or leaves the three sets unchanged. So a foreign token, or a replay of a token that has logged in, is a step the abstract specification does not allow.

### `BrowserChrome` (header, dropdown and Change Password, with the alert banner)

`BrowserChrome` extends `Alerts`: the outcome of a password change is an alert, and every other caller of `set()` stays a step of its own (`OtherAlerts`).

State:
- `page`: the route, the browser or `/login`. `crashed`: a render or lifecycle method threw and React unmounted the app.
- `tokenStored`: whether localStorage holds a token. Every tab shares it.
- The browser reducer: `sidebarOpen`, `storageInfo` and `serverInfo`. `serverInfo` is `{}` until `ServerInfo` answers, then the kind of user its `userInfo` describes (IAM, temporary, or root).
- `storageCall` and `serverCall`: the calls issued when `StorageInfo` and `BrowserDropdown` mount.
- `dropdownModal`: `BrowserDropdown`'s state. `form`: `ChangePasswordModal`'s two secret keys, each one the checks refuse or accept (`length > 0` for the current key, `>= SECRET_KEY_MIN_LENGTH` for the new one).
- `loginForm` and `loginCalls`: `Login`'s non-empty fields, and its calls in flight.
- `setAuthCalls`: the `SetAuth` calls in flight.
- `signedOut`: a ghost, set by Sign Out and cleared by a sign-in.

Actions:
- `ToggleSidebar`, `CloseSidebar`, `StorageInfoSettles`, `ServerInfoSettles`. A failed fetch has no handler and leaves the state as it was. The reducer cases they dispatch are `CLOSE_SIDEBAR`, `SET_STORAGE_INFO` and `SET_SERVER_INFO`.
- `ShowAbout`, `HideModal`, `ShowChangePassword`. The modal's mount decodes the token and its render reads `serverInfo.userInfo`. A null token or an empty `serverInfo` throws, which sets `crashed`.
- `EditForm`, `GenerateAuth`, `SetAuth`. Update is enabled by `canUpdateCredentials` and stays enabled while a call is in flight.
- `SetAuthSettles`: `Web.SetAuth` stores the new token and the modal shows a success or danger alert. Both happen whatever page the tab shows by then. On `/login` the alert makes `Login` re-render, and its render redirects to `/` once a token is stored (`Remount`).
- `Logout`: the dropdown's Sign Out. The Login page's mount clears the alert.
- `Remount` is built from the mount steps: `DropdownConstructed`, `DropdownDidMount` (which calls `fetchServerInfo`) and `StorageInfoWillMount` (which calls `fetchStorageInfo`). `EmptyForm` is the state `ChangePasswordModal`'s constructor starts from.
- `TokenRemovedElsewhere`: another tab signs out or drops the token on a 401.
  - `Header` tests `web.LoggedIn()` only when it renders, which happens at the next store update. The model keeps the dropdown usable after the token has gone, so it over-approximates this window.
- `EditLogin`, `SubmitLogin` and `LoginSettles`: the Login form. Empty keys are refused with a danger alert. Otherwise `Login` is called, and its answer stores the token, clears the alert and pushes `/`, or shows the error.
- `LoginMount`: the Login page's mount clears the alert and starts an empty form. `LoginRedirects` is its render's redirect once a token is stored.

### MC modules

- Each `MC_<Module>` gives the bounds as named definitions, with a comment on why they are enough.
- The `.cfg` files give tabs, tokens, prefixes and names as model values, and symmetry over tabs where tabs are interchangeable.

## Runs

| Run | Expect | What it checks |
|---|---|---|
| `session` | pass | `TypeOK`; `StaleTokenNeverResent` (after a 401 for token t, no call is ever sent with t); `Refinement` (the layer implements `SessionAbstract`) |
| `session_stale_rejection` | violation | `StaleRejectionKeepsSession`: a 401 for a call sent with an old token logs out the session a later Login established |
| `objects` | pass | `TypeOK`; `ListFromCurrentLocation` (the list only shows names of the current prefix); `LinksNameTheirObject` (every share link and download URL names an object of the prefix it was made in); `LoadingEventuallyEnds` (the loading indicator always goes off); `RemovalsNameStoredObjects` (every `RemoveObject` names an object stored under the prefix it is sent for, which rests on `selectPrefix` resetting the checked list); `RemovedRowConfirmationCloses` (a row's delete confirmation closes once its `RemoveObject` has succeeded, because `REMOVE` drops the row and it unmounts); `PreviewShowsItsRow` (an open preview only shows the URL of its own row's object in the current prefix, never the late answer of a preview closed earlier) |
| `objects_stale_listing` | violation | `StaleListingIgnored`: in a logged-in tab, the `.catch` of `fetchObjects` for a listing of a prefix the user has left ends the loading of the current prefix while its own listing is still pending (and would empty a list already shown). The property is stated for logged-in tabs, because a logged-out tab's `.catch` calls `history.push("/login")` instead (line 102), which `ListFailed` leaves out |
| `objects_share_modal` | violation | `ShareModalMatchesRow`: the share modal opens on a same-named row of another prefix, with the link of the object first shared |
| `chrome` | pass | `ChromeTypeOK`; with the chrome's SetAuth and Login outcomes, other callers' alerts and the timers interleaved: `AutoClearedAlertLeaves` (an auto-clearing alert eventually leaves unless replaced); `StickyAlertStays` (no timer removes a sticky danger alert) |
| `sorting` | pass | `SortedAsReference` (every sort, from a fresh listing or after any clicks, gives the reference order) |
| `transport` | pass | `TypeOK` only: the client's fields and every posted request stay within their types over every endpoint scheme and stored token value. The bearer test (a truthy token) and `LoggedIn` (`!!token`) are the truthiness of the same value, so no property is stated about their agreement |
| `uploads` | pass | `TypeOK` only: each upload's loaded count stays within its size, for any order of progress events. The sum bound of the progress bar follows from that and is not stated separately |
| `openid` | pass | `Refinement`: the tabs implement `OpenIDAbstract`. So no id_token of someone else's flow reaches `LoginSTS`, and a token whose `LoginSTS` succeeded is never sent again on Back or reload |
| `openid_own_return` | violation | `OwnReturnAccepted`: a tab returning with its own id_token is refused because another tab started a flow, or finished one, meanwhile |
| `chrome_sign_out` | violation | `SignOutIsFinal`: a `SetAuth` answer arriving after Sign Out stores a token, and the Login page redirects into the browser |

Every passing run also checks `TypeOK`. Every property of a passing run has a mutant in `PROJECT.json`: a plausible bug in a mapped definition under which TLC finds the property violated. Examples:
- dropping the prefix check of the `.then`;
- `++alertId` for `alertId++`;
- comparing names without `toLowerCase`;
- adding progress instead of replacing it;
- a nonce check that passes when nothing is stored;
- keeping the nonce after login;
- a `REMOVE` case that falls through to the default;
- drawing two nonces;
- a preview callback that sets the url of whichever preview is open.

### Bounds

`session`:
- 2 tabs, 2 tokens, 2 calls and 1 server upgrade.
- These are enough for every interleaving of two answers across two tabs, a re-login that leaves a call in flight with the old token, an expiry, and a skew.
- The run reaches about 480,000 distinct states.

Violation runs:
- They use the same or larger bounds: 3 tokens and 3 calls for the stale rejection.
- TLC finds their counterexamples at depths of 5 to 9.

`objects`:
- 2 prefixes sharing the name `a`, 2 names, both of them images, 3 requests and 1 external change.
- The sort keys clicked are name and last-modified. Size plays the same part as name here, so every state with it has a twin. `ObjectSort` checks the three orders.
- A listing, removal or share for one prefix can be outstanding while the user lists, deletes or shares in the other. A bulk delete can be confirmed after a zip download has emptied the selection, and a row's confirmation can be confirmed twice.
- A preview can be opened, closed and another opened on the other row before the first token arrives.
- The run reaches about 1.2 million distinct states. With its two liveness properties it takes about 3 minutes.

`chrome`:
- 3 alerts, 2 `SetAuth` calls and 1 `Login` call. A second Update can go out before the first answers, and a `SetAuth` outcome can replace another caller's alert whose timer is pending.
- The run reaches about 915,000 states in 90 seconds. The sign-out counterexample is 9 states deep.

`sorting`:
- every listing of up to 3 objects over 2 name ranks with both spellings, 2 sizes and 2 dates (16,000 states).
- These lists contain both orders and ties for every comparator, and folders among files.

`transport`:
- endpoints http, https and file, each with and without a port;
- tokens "k1", "" and "undefined";
- 3 calls.

`uploads`:
- 3 uploads with sizes 0 to 2: two run together, and an empty file is among them.

`openid`:
- 2 tabs and 3 flows, so two flows overlap and one restarts after a refusal or logout. Every outcome of each page's discovery document is covered (91,000 states).

### Fairness

Weak fairness is assumed on:
- the server answering, because the HTTP stack eventually answers or fails every request, and the code never cancels one;
- callbacks and timers running, because the event loop runs them;
- the browser carrying out a requested reload. No property of `session` depends on this any more; it keeps a run from ending with a reload forever pending.

Users, operators and other clients get no fairness. `chrome`, `uploads` and `openid` declare `CHECK_DEADLOCK FALSE`, because a page on which the user does nothing more is a legitimate end.

## Findings

- **web.js:20:** a stale 401 removes a newer token. The spec's §5 claim that the unlocked writes are idempotent does not hold.
- **objects/actions.js:100:** the logged-in branch of the `.catch` of `fetchObjects` lacks the prefix check that the `.then` has (lines 66-69). TLC's trace: the user selects one prefix and then another, and the first listing fails. The loading indicator goes off while the second listing is still pending.
- **web.js:102 with Login.js:87:** Sign Out does not end a session while a `SetAuth` is in flight. The user presses Update, cancels the modal and signs out. The late answer then stores a new token, and its alert makes the Login page re-render and redirect into the browser.
- **objects/actions.js:222 and ObjectActions.js:90:** `shareObject` holds only a relative name. Nothing resets it when the list or prefix changes, and the `PresignedGet` answer is applied without a prefix check. The modal then reopens on a same-named object of another prefix, with the first object's link.
- **OpenIDLogin.js:49, OpenIDLoginButton.js:25, OpenIDLogin.js:91:** the nonce is stored under one key shared by all tabs, and a successful login removes whatever is stored. Concurrent flows refuse each other's tokens.

Observations not given a run (the run budget went to the findings above):
- **objects/actions.js:179:** `REMOVE` is applied by relative name to whatever prefix is current. A removal confirmed after a prefix change drops a same-named object from the new prefix's list.
- **ChangePasswordModal.js:76 and :27:** opening Change Password before `ServerInfo` has answered, or after it failed (`fetchServerInfo` has no `.catch`), reads `serverInfo.userInfo.isTempUser` of `{}` and throws. A null token, after another tab signed out, throws in `jwtDecode`. Either error unmounts the app. In `BrowserChrome` this is the two-step trace `ShowChangePassword` from the initial state, which sets `crashed`.
- **web.js:41 and :21:** there is no once-only guard on `location.reload()`. Two skewed or 401 answers settling in one tab before the navigation each call it, while spec §3 and §4.2 step 8 require exactly one. A second call is harmless to the browser, which navigates once.
- **jsonrpc.js:18:** `url.parse` gives the port as a string, so `port === 0` never holds and the default port is never filled in. Requests use `this.endpoint`, so nothing breaks.
- **UploadModal.js:13:** `UploadModal` tests `showAbort` before the number of uploads. If every upload ends while the abort confirmation is open, the dialog still asks to abort uploads in progress. Its Abort then loops over no slug. An upload dropped meanwhile is aborted by a confirmation given for others. The model reaches both states. Whether the missing `abortUpload` thunk hides the dialog is not in the repository.
- **UploadModal.js:32:** with only empty files uploading the total size is 0, and the label reads "NaN %".
- **utils.js:43 with BucketList.js:32:** `pathSlice` removes the first occurrence of `iposBrowserPrefix` from `history.location.pathname`. That path is already relative to the prefix, as `BucketList.test.js` shows with `"/bk1/pre1"`. Under the prefix `/ipos`, an anonymous visit to `/iposdata/a/` becomes `data/a/`, and the bucket selected is `ata`. This is a pure function of one string, which a unit test with a non-empty prefix reaches, so it has no model.
- **objects/actions.js:295 with PreviewObjectModal.js:10:** when not logged in, `getObjectURL` calls the callback synchronously, inside `PreviewObjectModal`'s constructor. React ignores `setState` on a component not yet mounted, so the preview of an anonymous visitor never shows its image. The model has this (`ShowPreviewModal` leaves the url empty), but no run states it.
- **constants.js:2:** a page loaded at a path with no second `/` (such as `/ipos`) gets `p.slice(0, -1)`, which is `/ipo`, as its prefix.

## Plan (next modules, in order)

1. A run for the Change Password crash, if a violation run can be spared.

## Not modelled

- **Rendering components:** they hold no state beyond the reducers. The exception is `ObjectsListContainer`'s `page`, which only decides how many rows of `objects.list` are rendered (100 per page). It is reset when the bucket, prefix or sort changes, and no state change depends on it.
- **Build scripts and bootstrap:** these are file I/O.
- **Buckets:** every state change of the bucket views goes through thunks of the missing `buckets/actions.js`: `fetchBuckets`, `selectBucket`, `makeBucket`, `deleteBucket`, `fetchPolicies`, and the modal toggles. `PolicyInput.js` is missing too. What these thunks dispatch, and when, is not in the repository. spec.md puts the bucket UI out of scope. The reducer alone, without the thunks that drive it, would be a model of nothing the program does.
- **Imported files missing from the repository:** `buckets/actions.js`, `uploads/actions.js`, `history.js`, the store configuration and `mime.js`. Their behaviour is only visible where the present code calls them.
- **Formatting:** dates, sizes and alert wording.
