------------------------------- MODULE Uploads -------------------------------
(***************************************************************************)
(* The uploads in progress: the uploads reducer (uploads/reducer.js), the  *)
(* progress summary UploadModal renders from it, and the Abort button of   *)
(* AbortConfirmModal.                                                      *)
(*                                                                         *)
(* The thunks that drive the reducer (uploads/actions.js: uploadFile,      *)
(* abortUpload, showAbortModal, hideAbortModal) are imported but not part  *)
(* of the repository; their effect is taken from how the present code uses *)
(* them: a dropped file is ADDed under a fresh slug with its size, its     *)
(* XMLHttpRequest reports UPDATE_PROGRESS with the bytes sent so far (never *)
(* decreasing, never above the size), and the upload is STOPped when the   *)
(* request ends or is aborted; no event of a request follows its end.      *)
(***************************************************************************)
EXTENDS Naturals, FiniteSetsExt, Functions

CONSTANTS
    Slugs,          \* slugs uploadFile can give uploads
    Sizes           \* file sizes, 0 (an empty file) included

VARIABLES
    files,          \* uploads.files: slug -> [loaded, size]
    showAbortModal, \* uploads.showAbortModal
    used            \* slugs given out so far (a slug is never reused)

vars == <<files, showAbortModal, used>>

\* the reducer's helpers: files is a function on the slugs it holds
add(fs, slug, size) == [s \in DOMAIN fs \cup {slug} |->
                          IF s = slug THEN [loaded |-> 0, size |-> size] ELSE fs[s]]

\* the loaded count added to the previous one instead of replacing it
updateProgressAdding(fs, slug, loaded) ==
    [fs EXCEPT ![slug].loaded = @ + loaded]

updateProgress(fs, slug, loaded) == [fs EXCEPT ![slug].loaded = loaded]

stop(fs, slug) == Restrict(fs, DOMAIN fs \ {slug})

-----------------------------------------------------------------------------
Init ==
    /\ files = <<>>
    /\ showAbortModal = FALSE
    /\ used = {}

\* Dropzone.onDrop: uploadFile(file) ADDs the file under a new slug
Add(slug, size) ==
    /\ slug \notin used
    /\ files' = add(files, slug, size)
    /\ used' = used \cup {slug}
    /\ UNCHANGED showAbortModal

\* the request of an upload has sent more bytes
Progress(slug, loaded) ==
    /\ slug \in DOMAIN files
    /\ files[slug].loaded < loaded /\ loaded <= files[slug].size
    /\ files' = updateProgress(files, slug, loaded)
    /\ UNCHANGED <<showAbortModal, used>>

\* the request has ended
Stop(slug) ==
    /\ slug \in DOMAIN files
    /\ files' = stop(files, slug)
    /\ UNCHANGED <<showAbortModal, used>>

\* the close button of the progress bar, and the Upload (cancel) button
ShowAbortModal ==
    /\ DOMAIN files # {} /\ ~showAbortModal
    /\ showAbortModal' = TRUE
    /\ UNCHANGED <<files, used>>

HideAbortModal ==
    /\ showAbortModal
    /\ showAbortModal' = FALSE
    /\ UNCHANGED <<files, used>>

\* Abort: abortUpload(slug) for every upload in the store; each request is
\* aborted and its upload STOPped
AbortUploads ==
    /\ showAbortModal
    /\ files' = Restrict(files, {})
    /\ UNCHANGED <<showAbortModal, used>>

Next ==
    \/ \E slug \in Slugs, size \in Sizes : Add(slug, size)
    \/ \E slug \in Slugs, loaded \in Sizes : Progress(slug, loaded)
    \/ \E slug \in Slugs : Stop(slug)
    \/ ShowAbortModal \/ HideAbortModal \/ AbortUploads

Spec == Init /\ [][Next]_vars

-----------------------------------------------------------------------------
(***************************************************************************)
(* What UploadModal renders while some upload is in the store: the sums   *)
(* of loaded and size over the uploads, and totalLoaded / totalSize * 100, *)
(* which is NaN when the total size is 0.                                  *)
(***************************************************************************)
Uploading == DOMAIN files

totalLoaded == SumFunction([s \in Uploading |-> files[s].loaded])

totalSize == SumFunction([s \in Uploading |-> files[s].size])

\* totalLoaded / totalSize * 100 is a number (not NaN, not Infinity)
percentIsNumber == totalSize > 0

TypeOK ==
    /\ \A s \in Uploading : files[s] \in [loaded: 0..Max(Sizes), size: Sizes]
    /\ Uploading \subseteq Slugs /\ used \subseteq Slugs
    /\ showAbortModal \in BOOLEAN

=============================================================================
