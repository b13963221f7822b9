----------------------------- MODULE ObjectsList -----------------------------
(***************************************************************************)
(* The object list of the current bucket: the thunks of objects/actions.js *)
(* and the objects reducer (objects/reducer.js) they dispatch to.          *)
(*                                                                         *)
(* A thunk runs synchronously up to its web call; the answer is handled in *)
(* a later callback, after any number of other user steps and of other     *)
(* answers: the calls of web.js are independent and settle in any order.   *)
(* Each request records what its thunk captured before the call (the       *)
(* prefix, the object name).                                               *)
(*                                                                         *)
(* Data abstraction: the bucket is fixed (the browser is inside one        *)
(* bucket; switching buckets is in buckets/actions.js, which is not in     *)
(* this repository); the list is the set of the names it shows (its order  *)
(* is the business of the sort functions of utils.js, see ObjectSort);     *)
(* names are relative to their prefix, as after                            *)
(* object.name.replace(currentPrefix, ""); an alert is not state here.     *)
(* A URL (of a share or a download) is the prefix and name it was built    *)
(* from: <<prefix, name>>.                                                 *)
(***************************************************************************)
EXTENDS Naturals, FiniteSets, Bags, BagsExt

CONSTANTS
    Prefixes,        \* prefixes ("folders") of the bucket
    Names,           \* object names, relative to their prefix
    InitialContents, \* prefix -> names stored under it at the start
    Writable,        \* prefixes the server reports as writable
    RootPrefix,      \* the prefix the browser starts in
    MaxRequests,     \* bound on the requests sent
    MaxExternal,     \* bound on changes made by other clients
    ImageNames       \* names getDataType (mime.js) takes for images

ASSUME InitialContents \in [Prefixes -> SUBSET Names]
ASSUME Writable \subseteq Prefixes /\ RootPrefix \in Prefixes
ASSUME ImageNames \subseteq Names

VARIABLES
    server,          \* prefix -> names stored on the server
    seen,            \* prefix -> names ever stored there (history)
    currentPrefix,   \* objects.currentPrefix
    list,            \* objects.list (names)
    listLoading,     \* objects.listLoading
    sortBy,          \* objects.sortBy
    sortOrder,       \* objects.sortOrder
    prefixWritable,  \* objects.prefixWritable
    checkedList,     \* objects.checkedList
    shareObject,     \* objects.shareObject: [show, object, url]
    loggedIn,        \* web.LoggedIn(): a token is stored
    downloaded,      \* URLs the tab has navigated to for a download
    pending,         \* bag of requests sent and not yet handled
    sent,            \* requests sent so far
    external,        \* changes made by other clients so far
    deleteConfirm,   \* ObjectsBulkActions state.showDeleteConfirmation
    rowConfirm,      \* the row whose ObjectActions shows its delete
                     \* confirmation, "" for none
    preview          \* the PreviewObjectModal of a row: [row, inst, url],
                     \* row "" for none; inst tells its instances apart

vars == <<server, seen, currentPrefix, list, listLoading, sortBy, sortOrder,
          prefixWritable, checkedList, shareObject, loggedIn, downloaded,
          pending, sent, external, deleteConfirm, rowConfirm, preview>>

\* constants.js
SORT_BY_NAME == "name"
SORT_BY_SIZE == "size"
SORT_BY_LAST_MODIFIED == "last-modified"
SORT_ORDER_ASC == "asc"
SORT_ORDER_DESC == "desc"
SortKeys == {SORT_BY_NAME, SORT_BY_SIZE, SORT_BY_LAST_MODIFIED}

(***************************************************************************)
(* Requests: ListObjects of fetchObjects, RemoveObject of deleteObject,    *)
(* the zip download of downloadCheckedObjects, PresignedGet of            *)
(* shareObject, CreateURLToken of downloadObject.  An answered request     *)
(* carries the answer: ok, and the names listed.                           *)
(***************************************************************************)
Kinds == {"list", "remove", "zip", "share", "url", "preview"}
Request == [kind: Kinds, prefix: Prefixes, name: Names \cup {"none"},
            answered: BOOLEAN, ok: BOOLEAN, names: SUBSET Names,
            inst: 0..MaxRequests]

NewRequest(k, p, n) ==
    [kind |-> k, prefix |-> p, name |-> n, answered |-> FALSE, ok |-> FALSE,
     names |-> {}, inst |-> 0]

NoShare == [show |-> FALSE, object |-> "", url |-> <<>>]

\* ObjectActions renders ShareObjectModal on the row named
\* shareObject.object (rows have actions only while nothing is checked);
\* its backdrop keeps the user from the list until it is closed
ShareModalOpen ==
    shareObject.show /\ shareObject.object \in list /\ checkedList = {}

\* the share modal, the delete confirmation of a row or of the bulk-actions
\* bar, or a row's preview is open; each keeps the user from the list until
\* it is closed
ModalOpen == ShareModalOpen \/ deleteConfirm \/ rowConfirm # "" \/ preview.row # ""

\* A row's ObjectActions, with its local state, exists while the row is in
\* the list and nothing is checked (ObjectContainer); when the row goes,
\* its confirmation goes with it, and a row mounted again starts closed
RowUnmounts ==
    rowConfirm' = IF rowConfirm \in list' /\ checkedList' = {} THEN rowConfirm ELSE ""

NoPreview == [row |-> "", inst |-> 0, url |-> <<>>]

\* the row's PreviewObjectModal, p after the step, goes with the row
PreviewUnmounts(p) ==
    preview' = IF p.row \in list' /\ checkedList' = {} THEN p ELSE NoPreview

(***************************************************************************)
(* The cases of the objects reducer that the thunks dispatch to, as the   *)
(* change each makes to its part of the state.  removeObject drops the    *)
(* first entry of that name; names in a listing are distinct, and a name  *)
(* is checked only while unchecked, so it drops the name.                 *)
(***************************************************************************)
removeObject(l, x) == l \ {x}

SetList(l) == list' = l
ResetList == list' = {}
SetListLoading(b) == listLoading' = b
\* the REMOVE case missing: the action falls through to the default
RemoveFromListKeep(n) == list' = list
RemoveFromList(n) == list' = removeObject(list, n)
SetSortBy(by) == sortBy' = by
SetSortOrder(o) == sortOrder' = o
SetCurrentPrefix(p) == currentPrefix' = p
SetPrefixWritable(w) == prefixWritable' = w
SetShareObject(show, object, url) ==
    shareObject' = [show |-> show, object |-> object, url |-> url]
CheckedListAdd(n) == checkedList' = checkedList \cup {n}
CheckedListRemove(n) == checkedList' = removeObject(checkedList, n)
CheckedListReset == checkedList' = {}

Send(reqs) ==
    /\ sent + BagCardinality(reqs) <= MaxRequests
    /\ pending' = pending (+) reqs
    /\ sent' = sent + BagCardinality(reqs)

-----------------------------------------------------------------------------
(***************************************************************************)
(* fetchObjects(): resetList; then, with a current bucket, listLoading and *)
(* a ListObjects call for the bucket and prefix read now.                  *)
(***************************************************************************)
FetchObjects ==
    /\ ResetList
    /\ SetListLoading(TRUE)
    /\ Send(SetToBag({NewRequest("list", currentPrefix, "none")}))

\* selectPrefix without the resetCheckedList
SelectPrefixKeepChecked(p) ==
    /\ ~ModalOpen
    /\ SetCurrentPrefix(p)
    /\ ResetList
    /\ SetListLoading(TRUE)
    /\ Send(SetToBag({NewRequest("list", p, "none")}))
    /\ UNCHANGED <<server, seen, sortBy, sortOrder, prefixWritable, checkedList,
                   shareObject, loggedIn, downloaded, external, deleteConfirm,
                   rowConfirm, preview>>

\* selectPrefix(prefix): setCurrentPrefix, fetchObjects, resetCheckedList
\* (history.replace only changes the address bar)
SelectPrefix(p) ==
    /\ ~ModalOpen
    /\ SetCurrentPrefix(p)
    /\ ResetList
    /\ SetListLoading(TRUE)
    /\ Send(SetToBag({NewRequest("list", p, "none")}))
    /\ CheckedListReset
    /\ UNCHANGED <<server, seen, sortBy, sortOrder, prefixWritable, shareObject,
                   loggedIn, downloaded, external, deleteConfirm, rowConfirm, preview>>

Refresh ==
    /\ FetchObjects
    /\ UNCHANGED <<server, seen, currentPrefix, sortBy, sortOrder, prefixWritable,
                   checkedList, shareObject, loggedIn, downloaded, external,
                   deleteConfirm>>
    /\ RowUnmounts
    /\ PreviewUnmounts(preview)

(***************************************************************************)
(* The .then of fetchObjects: only an answer for the bucket and prefix     *)
(* still current is applied; it sets the sort to last-modified descending, *)
(* the list, prefixWritable, and ends the loading.                         *)
(***************************************************************************)
IsCurrent(r) == r.prefix = currentPrefix

ListedAnyPrefix(r) ==
    /\ SetList(r.names)
    /\ SetSortBy(SORT_BY_LAST_MODIFIED)
    /\ SetSortOrder(SORT_ORDER_DESC)
    /\ SetPrefixWritable(r.prefix \in Writable)
    /\ SetListLoading(FALSE)

\* the names as listed, without the prefix removed
ListedFullNames(r) ==
    /\ list' = {<<r.prefix, n>> : n \in r.names}
    /\ UNCHANGED <<sortBy, sortOrder, prefixWritable, listLoading>>

Listed(r) ==
    IF IsCurrent(r)
    THEN ListedAnyPrefix(r)
    ELSE UNCHANGED <<list, sortBy, sortOrder, prefixWritable, listLoading>>

(***************************************************************************)
(* The .catch of fetchObjects: when still logged in, an alert and          *)
(* resetList, else history.push("/login"); in both cases the loading ends. *)
(* Nothing here compares the request's prefix with the current one.       *)
(***************************************************************************)
ListFailedKeepLoading(r) ==
    /\ list' = IF loggedIn THEN {} ELSE list
    /\ UNCHANGED <<sortBy, sortOrder, prefixWritable, listLoading>>

\* the .catch: when logged in, an alert and resetList; when not, the
\* history.push("/login") of the anonymous branch is left out (the page is
\* left; the model goes on as if it stayed); both end the loading
ListFailed(r) ==
    /\ IF loggedIn THEN ResetList ELSE UNCHANGED list
    /\ SetListLoading(FALSE)
    /\ UNCHANGED <<sortBy, sortOrder, prefixWritable>>

HandleList(r) ==
    /\ r.kind = "list"
    /\ IF r.ok THEN Listed(r) ELSE ListFailed(r)
    /\ UNCHANGED <<checkedList, shareObject, downloaded>>

(***************************************************************************)
(* deleteObject(object): RemoveObject of currentPrefix + object; its .then *)
(* dispatches removeObject(object), which the reducer applies to the list *)
(* by name.  deleteCheckedObjects(): deleteObject for every checked name,  *)
(* then resetCheckedList.                                                  *)
(***************************************************************************)
\* the trash icon of a row's menu (showDeleteConfirmModal) and the modal's
\* cancel (hideDeleteConfirmModal)
AskDeleteObject(n) ==
    /\ ~ModalOpen
    /\ n \in list /\ checkedList = {}
    /\ rowConfirm' = n
    /\ UNCHANGED <<server, seen, currentPrefix, list, listLoading, sortBy, sortOrder,
                   prefixWritable, checkedList, shareObject, loggedIn, downloaded,
                   pending, sent, external, deleteConfirm, preview>>

HideRowConfirm ==
    /\ rowConfirm # ""
    /\ rowConfirm' = ""
    /\ UNCHANGED <<server, seen, currentPrefix, list, listLoading, sortBy, sortOrder,
                   prefixWritable, checkedList, shareObject, loggedIn, downloaded,
                   pending, sent, external, deleteConfirm, preview>>

\* the modal's Delete (ObjectActions.deleteObject): deleteObject of the
\* row's name; the modal is not hidden, it goes when the row does, so after
\* a failed RemoveObject it can be confirmed again
DeleteObject(n) ==
    /\ rowConfirm = n
    /\ n \in list
    /\ Send(SetToBag({NewRequest("remove", currentPrefix, n)}))
    /\ UNCHANGED <<server, seen, currentPrefix, list, listLoading, sortBy, sortOrder,
                   prefixWritable, checkedList, shareObject, loggedIn, downloaded,
                   external, deleteConfirm, rowConfirm, preview>>

\* "Delete selected" of the bulk-actions bar (shown while something is
\* checked) opens DeleteObjectConfirmModal; its cancel hides it again
AskDeleteChecked ==
    /\ ~ModalOpen
    /\ checkedList # {}
    /\ deleteConfirm' = TRUE
    /\ UNCHANGED <<server, seen, currentPrefix, list, listLoading, sortBy, sortOrder,
                   prefixWritable, checkedList, shareObject, loggedIn, downloaded,
                   pending, sent, external, rowConfirm, preview>>

HideDeleteConfirmModal ==
    /\ deleteConfirm
    /\ deleteConfirm' = FALSE
    /\ UNCHANGED <<server, seen, currentPrefix, list, listLoading, sortBy, sortOrder,
                   prefixWritable, checkedList, shareObject, loggedIn, downloaded,
                   pending, sent, external, rowConfirm, preview>>

\* The confirm button (ObjectsBulkActions.deleteChecked): deleteCheckedObjects
\* on the checked list read now, which callbacks may have changed since the
\* modal opened, then the modal is hidden
DeleteCheckedObjects ==
    /\ deleteConfirm
    /\ Send(SetToBag({NewRequest("remove", currentPrefix, n) : n \in checkedList}))
    /\ CheckedListReset
    /\ deleteConfirm' = FALSE
    /\ UNCHANGED <<server, seen, currentPrefix, list, listLoading, sortBy, sortOrder,
                   prefixWritable, shareObject, loggedIn, downloaded, external,
                   rowConfirm, preview>>

HandleRemove(r) ==
    /\ r.kind = "remove"
    /\ IF r.ok THEN RemoveFromList(r.name) ELSE UNCHANGED list
    /\ UNCHANGED <<sortBy, sortOrder, prefixWritable, listLoading, checkedList,
                   shareObject, downloaded>>

(***************************************************************************)
(* The Download button of the bulk-actions bar (handleDownload): a single *)
(* checked object is downloaded by downloadObject and the selection        *)
(* cleared; otherwise downloadCheckedObjects(): a CreateURLToken call when *)
(* logged in, then the zip POST; on status 200 the xhr.onload resets the  *)
(* checked list.  (Names here are objects, not folders: a single checked   *)
(* folder goes the zip way.)                                               *)
(*                                                                         *)
(* downloadObject(object): when logged in, CreateURLToken, whose .then     *)
(* navigates to the download URL of the bucket, prefix and name read       *)
(* before the call; when not, the navigation happens at once.             *)
(***************************************************************************)
DownloadUrlAtAnswer(r) == <<currentPrefix, r.name>>

DownloadUrl(r) == <<r.prefix, r.name>>

\* downloadCheckedObjects(): the bucket, prefix and checked list are read
\* now; CreateURLToken first when logged in, then (in its .then, or at once)
\* downloadZip POSTs them: one request of the model, whose failure is the
\* .catch alert or an xhr status other than 200
DownloadCheckedObjects ==
    Send(SetToBag({NewRequest("zip", currentPrefix, "none")}))

HandleDownload ==
    /\ ~ModalOpen
    /\ checkedList # {}
    /\ IF Cardinality(checkedList) = 1
         THEN LET n == CHOOSE x \in checkedList : TRUE
              IN  /\ CheckedListReset
                  /\ IF loggedIn
                       THEN /\ Send(SetToBag({NewRequest("url", currentPrefix, n)}))
                            /\ UNCHANGED downloaded
                       ELSE /\ downloaded' = downloaded \cup {<<currentPrefix, n>>}
                            /\ UNCHANGED <<pending, sent>>
         ELSE /\ DownloadCheckedObjects
              /\ UNCHANGED <<checkedList, downloaded>>
    /\ UNCHANGED <<server, seen, currentPrefix, list, listLoading, sortBy, sortOrder,
                   prefixWritable, shareObject, loggedIn, external, deleteConfirm,
                   rowConfirm, preview>>

\* the .then of CreateURLToken (window.location = url); its .catch alerts
HandleUrl(r) ==
    /\ r.kind = "url"
    /\ downloaded' = IF r.ok THEN downloaded \cup {DownloadUrl(r)} ELSE downloaded
    /\ UNCHANGED <<list, sortBy, sortOrder, prefixWritable, listLoading,
                   checkedList, shareObject>>

HandleZip(r) ==
    /\ r.kind = "zip"
    /\ checkedList' = IF r.ok THEN {} ELSE checkedList
    /\ UNCHANGED <<list, sortBy, sortOrder, prefixWritable, listLoading,
                   shareObject, downloaded>>

(***************************************************************************)
(* shareObject(object, days, hours, minutes), from the menu of a row       *)
(* (ObjectActions, shown only while nothing is checked): when logged in,   *)
(* PresignedGet of the bucket and currentPrefix + object read now, whose   *)
(* .then dispatches showShareObject(object, url); when not, the URL is    *)
(* made at once.  ObjectActions renders the share modal on the row whose   *)
(* name equals shareObject.object.  hideShareObject (the modal's close)    *)
(* resets it.                                                              *)
(***************************************************************************)
ShareUrlAtAnswer(r) == <<currentPrefix, r.name>>

ShareUrl(r) == <<r.prefix, r.name>>

ShareObject(n) ==
    /\ ~ModalOpen
    /\ n \in list /\ checkedList = {}
    /\ IF loggedIn
         THEN /\ Send(SetToBag({NewRequest("share", currentPrefix, n)}))
              /\ UNCHANGED shareObject
         ELSE /\ SetShareObject(TRUE, n, <<currentPrefix, n>>)
              /\ UNCHANGED <<pending, sent>>
    /\ UNCHANGED <<server, seen, currentPrefix, list, listLoading, sortBy, sortOrder,
                   prefixWritable, checkedList, loggedIn, downloaded, external,
                   deleteConfirm, rowConfirm, preview>>

HandleShare(r) ==
    /\ r.kind = "share"
    /\ IF r.ok THEN SetShareObject(TRUE, r.name, ShareUrl(r))
               ELSE UNCHANGED shareObject
    /\ UNCHANGED <<list, sortBy, sortOrder, prefixWritable, listLoading,
                   checkedList, downloaded>>

HideShareObject ==
    /\ shareObject.show
    /\ SetShareObject(FALSE, "", <<>>)
    /\ UNCHANGED <<server, seen, currentPrefix, list, listLoading, sortBy, sortOrder,
                   prefixWritable, checkedList, loggedIn, downloaded, pending, sent,
                   external, deleteConfirm, rowConfirm, preview>>

(***************************************************************************)
(* The preview icon of a row's menu, shown for image names only            *)
(* (showPreviewModal), mounts PreviewObjectModal, whose constructor calls  *)
(* getObjectURL(name, callback): the bucket and currentPrefix are read     *)
(* now; when logged in, CreateURLToken, whose .then calls the callback,    *)
(* setState({url}) on that modal instance (a no-op once it has unmounted), *)
(* and whose .catch alerts.  When not logged in, the callback runs at      *)
(* once, inside the constructor, where React ignores setState: the url     *)
(* stays "" and no image is shown.  Cancel and onHide: hidePreviewModal.   *)
(***************************************************************************)
PreviewUrl(r) == <<r.prefix, r.name>>

ShowPreviewModal(n) ==
    /\ ~ModalOpen
    /\ n \in list /\ checkedList = {} /\ n \in ImageNames
    /\ IF loggedIn
         THEN /\ Send(SetToBag({[NewRequest("preview", currentPrefix, n)
                                    EXCEPT !.inst = sent + 1]}))
              /\ preview' = [row |-> n, inst |-> sent + 1, url |-> <<>>]
         ELSE /\ preview' = [row |-> n, inst |-> 0, url |-> <<>>]
              /\ UNCHANGED <<pending, sent>>
    /\ UNCHANGED <<server, seen, currentPrefix, list, listLoading, sortBy, sortOrder,
                   prefixWritable, checkedList, shareObject, loggedIn, downloaded,
                   external, deleteConfirm, rowConfirm>>

HidePreviewModal ==
    /\ preview.row # ""
    /\ preview' = NoPreview
    /\ UNCHANGED <<server, seen, currentPrefix, list, listLoading, sortBy, sortOrder,
                   prefixWritable, checkedList, shareObject, loggedIn, downloaded,
                   pending, sent, external, deleteConfirm, rowConfirm>>

\* the callback reaching whichever preview is open, as if the url were kept
\* in the store like shareObject
PreviewCallbackAnyInstance(r) ==
    IF r.kind = "preview" /\ r.ok /\ preview.row # ""
      THEN [preview EXCEPT !.url = PreviewUrl(r)] ELSE preview

\* the preview after the .then of its CreateURLToken: only the instance
\* that made the call takes the url
PreviewCallback(r) ==
    IF r.kind = "preview" /\ r.ok /\ preview.row # "" /\ preview.inst = r.inst
      THEN [preview EXCEPT !.url = PreviewUrl(r)] ELSE preview

HandlePreview(r) ==
    /\ r.kind = "preview"
    /\ UNCHANGED <<list, sortBy, sortOrder, prefixWritable, listLoading,
                   checkedList, shareObject, downloaded>>

\* The callback of a request runs
Handle(r) ==
    /\ BagIn(r, pending)
    /\ r.answered
    /\ pending' = BagRemove(pending, r)
    /\ \/ HandleList(r)
       \/ HandleRemove(r)
       \/ HandleZip(r)
       \/ HandleShare(r)
       \/ HandleUrl(r)
       \/ HandlePreview(r)
    /\ RowUnmounts
    /\ PreviewUnmounts(PreviewCallback(r))
    /\ UNCHANGED <<server, seen, currentPrefix, loggedIn, sent, external,
                   deleteConfirm>>

(***************************************************************************)
(* sortObjects(sortBy): ascending, unless the list is already sorted by   *)
(* that key ascending; the list is re-sorted (same names).                 *)
(***************************************************************************)
SortObjects(by) ==
    /\ ~ModalOpen
    /\ SetSortBy(by)
    /\ SetSortOrder(IF sortBy = by /\ sortOrder = SORT_ORDER_ASC
                      THEN SORT_ORDER_DESC ELSE SORT_ORDER_ASC)
    /\ UNCHANGED <<server, seen, currentPrefix, list, listLoading,
                   prefixWritable, checkedList, shareObject, loggedIn, downloaded,
                   pending, sent, external, deleteConfirm, rowConfirm, preview>>

\* checkObject / uncheckObject, and resetCheckedList (the close button of
\* ObjectsBulkActions)
CheckObject(n) ==
    /\ ~ModalOpen
    /\ CheckedListAdd(n)
    /\ UNCHANGED <<server, seen, currentPrefix, list, listLoading, sortBy,
                   sortOrder, prefixWritable, shareObject, loggedIn, downloaded,
                   pending, sent, external, deleteConfirm, rowConfirm, preview>>

UncheckObject(n) ==
    /\ ~ModalOpen
    /\ CheckedListRemove(n)
    /\ UNCHANGED <<server, seen, currentPrefix, list, listLoading, sortBy,
                   sortOrder, prefixWritable, shareObject, loggedIn, downloaded,
                   pending, sent, external, deleteConfirm, rowConfirm, preview>>

\* ObjectItem's mapStateToProps: the row's checkbox is ticked when its name
\* is in the checked list
checked(n) == n \in checkedList

\* the checkbox's onChange, on a row of the list: uncheck when ticked, else
\* check
ToggleCheck(n) ==
    /\ n \in list
    /\ IF checked(n) THEN UncheckObject(n) ELSE CheckObject(n)

ResetCheckedList ==
    /\ ~ModalOpen
    /\ CheckedListReset
    /\ UNCHANGED <<server, seen, currentPrefix, list, listLoading, sortBy,
                   sortOrder, prefixWritable, shareObject, loggedIn, downloaded,
                   pending, sent, external, deleteConfirm, rowConfirm, preview>>

-----------------------------------------------------------------------------
(***************************************************************************)
(* Environment: the server answers requests, other clients change objects. *)
(* A failed answer may be a 401, on which makeCall removes the token       *)
(* before the thunk's .catch runs.                                         *)
(***************************************************************************)
Answer(r) ==
    /\ BagIn(r, pending)
    /\ ~r.answered
    /\ \E ok, unauthorized \in BOOLEAN :
          LET a == [r EXCEPT !.answered = TRUE, !.ok = ok,
                             !.names = IF ok /\ r.kind = "list"
                                         THEN server[r.prefix] ELSE {}]
          IN  /\ ~(ok /\ unauthorized)
              /\ pending' = BagAdd(BagRemove(pending, r), a)
              /\ server' = IF ok /\ r.kind = "remove"
                             THEN [server EXCEPT ![r.prefix] = @ \ {r.name}]
                             ELSE server
              /\ loggedIn' = (loggedIn /\ ~unauthorized)
    /\ UNCHANGED <<seen, currentPrefix, list, listLoading, sortBy, sortOrder,
                   prefixWritable, checkedList, shareObject, downloaded, sent,
                   external, deleteConfirm, rowConfirm, preview>>

ExternalChange(p, n) ==
    /\ external < MaxExternal
    /\ server' = [server EXCEPT ![p] = IF n \in @ THEN @ \ {n} ELSE @ \cup {n}]
    /\ seen' = [seen EXCEPT ![p] = @ \cup {n}]
    /\ external' = external + 1
    /\ UNCHANGED <<currentPrefix, list, listLoading, sortBy, sortOrder,
                   prefixWritable, checkedList, shareObject, loggedIn, downloaded,
                   pending, sent, deleteConfirm, rowConfirm, preview>>

-----------------------------------------------------------------------------
Init ==
    /\ server = InitialContents
    /\ seen = InitialContents
    /\ currentPrefix = RootPrefix
    /\ list = {}
    /\ listLoading = FALSE
    /\ sortBy = ""
    /\ sortOrder = SORT_ORDER_ASC
    /\ prefixWritable = FALSE
    /\ checkedList = {}
    /\ shareObject = NoShare
    /\ loggedIn \in BOOLEAN
    /\ downloaded = {}
    /\ pending = EmptyBag
    /\ sent = 0
    /\ external = 0
    /\ deleteConfirm = FALSE
    /\ rowConfirm = ""
    /\ preview = NoPreview

Next ==
    \/ \E p \in Prefixes : SelectPrefix(p)
    \/ Refresh
    \/ \E n \in Names : DeleteObject(n) \/ ToggleCheck(n)
    \/ \E n \in Names : AskDeleteObject(n)
    \/ HideRowConfirm
    \/ AskDeleteChecked
    \/ HideDeleteConfirmModal
    \/ DeleteCheckedObjects
    \/ HandleDownload
    \/ ResetCheckedList
    \/ \E n \in Names : ShareObject(n)
    \/ HideShareObject
    \/ \E n \in Names : ShowPreviewModal(n)
    \/ HidePreviewModal
    \/ \E by \in SortKeys : SortObjects(by)
    \/ \E r \in DOMAIN pending : Answer(r) \/ Handle(r)
    \/ \E p \in Prefixes, n \in Names : ExternalChange(p, n)

\* Every request is eventually answered and its callback runs; the user
\* and other clients are not obliged to do anything.
Fairness ==
    /\ WF_vars(\E r \in DOMAIN pending : Answer(r))
    /\ WF_vars(\E r \in DOMAIN pending : Handle(r))

Spec == Init /\ [][Next]_vars /\ Fairness

-----------------------------------------------------------------------------
TypeOK ==
    /\ server \in [Prefixes -> SUBSET Names]
    /\ seen \in [Prefixes -> SUBSET Names]
    /\ currentPrefix \in Prefixes
    /\ list \subseteq Names
    /\ listLoading \in BOOLEAN
    /\ sortBy \in SortKeys \cup {""}
    /\ sortOrder \in {SORT_ORDER_ASC, SORT_ORDER_DESC}
    /\ prefixWritable \in BOOLEAN
    /\ checkedList \subseteq Names
    /\ shareObject \in [show: BOOLEAN, object: Names \cup {""},
                        url: {<<>>} \cup (Prefixes \X Names)]
    /\ loggedIn \in BOOLEAN
    /\ downloaded \subseteq Prefixes \X Names
    /\ IsABag(pending) /\ BagToSet(pending) \subseteq Request
    /\ sent \in 0..MaxRequests
    /\ external \in 0..MaxExternal
    /\ deleteConfirm \in BOOLEAN
    /\ rowConfirm \in Names \cup {""}
    /\ preview \in [row: ImageNames \cup {""}, inst: 0..MaxRequests,
                    url: {<<>>} \cup (Prefixes \X Names)]

-----------------------------------------------------------------------------
(***************************************************************************)
(* The list shown is a listing of the prefix the user is in: every name in *)
(* objects.list is stored, or was once stored, under currentPrefix.  A     *)
(* ListObjects answer for a prefix the user has since left must not be     *)
(* shown (the prefix comparison in the .then of fetchObjects).             *)
(***************************************************************************)
ListFromCurrentLocation == list \subseteq seen[currentPrefix]

(***************************************************************************)
(* The loading indicator set by fetchObjects always goes off again: every  *)
(* settled ListObjects call for the current prefix, success or failure,    *)
(* dispatches setListLoading(false).                                       *)
(***************************************************************************)
LoadingEventuallyEnds == listLoading ~> ~listLoading

(***************************************************************************)
(* A row's delete confirmation goes away once its RemoveObject succeeded:  *)
(* ObjectActions.deleteObject never hides it; it closes only because the  *)
(* .then of deleteObject dispatches removeObject, the REMOVE case drops    *)
(* the name from the list and ObjectContainer unmounts the row.  Listings  *)
(* and other removals may settle in between, in any order.                 *)
(***************************************************************************)
RemovedRowConfirmationCloses ==
    (/\ rowConfirm # ""
     /\ \E r \in DOMAIN pending :
           r.kind = "remove" /\ r.name = rowConfirm /\ IsCurrent(r) /\ r.answered /\ r.ok)
      ~> rowConfirm = ""

(***************************************************************************)
(* A settlement the caller no longer cares about is ignored: when, in a    *)
(* tab still logged in, the callback of a ListObjects call for a prefix    *)
(* the user has left runs, the list and the loading indicator of the       *)
(* current prefix stay as they are.  The .then of fetchObjects does so;    *)
(* the logged-in branch of its .catch resets the list and the loading.     *)
(* (A logged-out tab's .catch navigates to /login instead.)                *)
(***************************************************************************)
StaleListingIgnored ==
    [][\A r \in DOMAIN pending :
          (CopiesIn(r, pending') < CopiesIn(r, pending) /\ r.answered
           /\ r.kind = "list" /\ r.prefix # currentPrefix /\ loggedIn)
          => UNCHANGED <<list, listLoading>>]_vars

(***************************************************************************)
(* Every share link and every download URL names an object of the prefix   *)
(* it carries: downloadObject and shareObject build it from the prefix and *)
(* name read when the user clicked, never from the prefix current when the *)
(* CreateURLToken or PresignedGet answer arrives.                          *)
(***************************************************************************)
LinksNameTheirObject ==
    /\ \A d \in downloaded : d[2] \in seen[d[1]]
    /\ shareObject.show => shareObject.url[2] \in seen[shareObject.url[1]]

(***************************************************************************)
(* The share modal opened on a row of the list shows the link of that row's *)
(* object: when ObjectActions renders ShareObjectModal on the row named    *)
(* shareObject.object of the current prefix, the URL is of that prefix.    *)
(***************************************************************************)
ShareModalMatchesRow ==
    (shareObject.show /\ shareObject.object \in list)
        => shareObject.url = <<currentPrefix, shareObject.object>>

(***************************************************************************)
(* RemoveObject is only ever sent for an object stored under the prefix   *)
(* it names.  deleteObject takes the name from a row of the list, and     *)
(* deleteCheckedObjects from the checked list, both relative names that   *)
(* the thunk joins to the prefix current when it runs; this is right only *)
(* because selectPrefix resets the checked list, so that a name checked   *)
(* in one folder is never deleted from another, even when the confirm     *)
(* modal of the bulk-actions bar is answered after callbacks have run.    *)
(***************************************************************************)
RemovalsNameStoredObjects ==
    \A r \in DOMAIN pending : r.kind = "remove" => r.name \in seen[r.prefix]

(***************************************************************************)
(* An open preview shows the image of its own row: a url, once set, is the *)
(* download URL of the row's object in the prefix being shown.  The       *)
(* CreateURLToken of a preview closed before it answered must not reach a  *)
(* preview opened since, on another row or in another prefix: its callback *)
(* is bound to the PreviewObjectModal instance that called getObjectURL.   *)
(***************************************************************************)
PreviewShowsItsRow ==
    preview.url # <<>> =>
        /\ preview.row \in list
        /\ preview.url = <<currentPrefix, preview.row>>

=============================================================================
