----------------------------- MODULE Dashboard ------------------------------
(* The dashboard page: lists that are loaded on mount, on request and after  *)
(* every upload, and the upload form in its modal.  Handlers of one page run *)
(* one after another; what overlaps are the requests they wait for.          *)
EXTENDS Integers, FiniteSets

CONSTANTS
  MaxUploads,     \* bound on uploads submitted
  MaxRefreshes,   \* bound on clicks on "refresh"
  MaxReports,     \* bound on alerts raised
  Unanswered      \* "the server has not answered yet"

ASSUME BoundsAssumption == {MaxUploads, MaxRefreshes, MaxReports} \subseteq Nat
ASSUME UnansweredAssumption ==
  /\ Unanswered \notin Nat
  /\ \A answer \in SUBSET (1..MaxUploads) : answer # Unanswered

VARIABLES
  server,        \* how many files of this page the server has, 1 being the first
  reported,      \* which of them have an alert
  acknowledged,  \* history: how many it had when the page last saw a 201
  givenUp,       \* uploads the page has reported as failed while the server has them
  lost,          \* history: files it stored of uploads reported as failed
  loads,         \* calls of loadData waiting for listFiles and listAlerts
  started,       \* calls of loadData so far
  refreshes,     \* those of the refresh button
  shown,         \* the two lists on the page, as the pair of answers they came from
  isLoading, error,
  uploads,       \* upload requests in flight
  submitted,     \* upload requests so far
  isSubmitting, uploadError,
  show, draft    \* the modal; draft: title and file are there

serverVars == <<server, reported, acknowledged, givenUp, lost>>
dataVars == <<loads, started, refreshes, shown, isLoading, error>>
uploadVars == <<uploads, submitted, isSubmitting, uploadError>>
formVars == <<show, draft>>
vars == <<serverVars, dataVars, uploadVars, formVars>>

\* The pair of list requests of one loadData, as the number of files and the
\* alerts they were answered with; the pair fails when either does.
Load ==
  [id: Nat,
   files: Nat \cup {Unanswered},
   alerts: (SUBSET (1..MaxUploads)) \cup {Unanswered}]
NewLoad(id) == [id |-> id, files |-> Unanswered, alerts |-> Unanswered]
Answered(load) == Unanswered \notin {load.files, load.alerts}
\* file: the one the server stored for it, if any.
NoFile == 0
Upload == [id: Nat, status: {"sent", "accepted", "refused"}, file: 0..MaxUploads]

TypeOK ==
  /\ server \in 0..MaxUploads /\ reported \subseteq 1..server /\ acknowledged \in 0..server
  /\ givenUp \in 0..MaxUploads /\ lost \subseteq 1..server
  /\ loads \subseteq Load /\ started \in Nat /\ refreshes \in 0..MaxRefreshes
  /\ shown \in Load /\ Answered(shown)
  /\ shown.files \in 0..server /\ shown.alerts \subseteq reported
  /\ isLoading \in BOOLEAN /\ error \in BOOLEAN
  /\ uploads \subseteq Upload /\ submitted \in 0..MaxUploads
  /\ isSubmitting \in BOOLEAN /\ uploadError \in BOOLEAN
  /\ show \in BOOLEAN /\ draft \in BOOLEAN

\* The page is mounted and its effect has called loadData.
Init ==
  /\ server = 0 /\ reported = {} /\ acknowledged = 0 /\ givenUp = 0 /\ lost = {}
  /\ loads = {NewLoad(1)} /\ started = 1 /\ refreshes = 0
  /\ shown = [id |-> 0, files |-> 0, alerts |-> {}]
  /\ isLoading = TRUE /\ error = FALSE
  /\ uploads = {} /\ submitted = 0
  /\ isSubmitting = FALSE /\ uploadError = FALSE
  /\ show = FALSE /\ draft = FALSE

-----------------------------------------------------------------------------
(* useDashboardData                                                          *)

\* loadData up to its await.
StartLoad ==
  /\ loads' = loads \cup {NewLoad(started + 1)}
  /\ started' = started + 1
  /\ isLoading' = TRUE
  /\ error' = FALSE
  /\ UNCHANGED shown

\* The refresh button, which is disabled while the page is loading.
Refresh ==
  /\ ~isLoading
  /\ refreshes < MaxRefreshes
  /\ refreshes' = refreshes + 1
  /\ StartLoad
  /\ UNCHANGED <<serverVars, uploadVars, formVars>>

\* The server reads table files, or table alerts; the two requests of a load are
\* answered apart and in any order.
AnswerLists(load) ==
  /\ \/ /\ load.files = Unanswered
        /\ loads' = (loads \ {load}) \cup {[load EXCEPT !.files = server]}
     \/ /\ load.alerts = Unanswered
        /\ loads' = (loads \ {load}) \cup {[load EXCEPT !.alerts = reported]}
  /\ UNCHANGED <<serverVars, started, refreshes, shown, isLoading, error,
                 uploadVars, formVars>>

\* Seeded bug: the spinner is stopped by failures only.
LoadDoneSpinning(load) ==
  /\ Answered(load)
  /\ loads' = loads \ {load}
  /\ shown' = load
  /\ UNCHANGED <<serverVars, started, refreshes, isLoading, error, uploadVars, formVars>>

\* Seeded bug: the answers are shown without being awaited.
LoadDoneUnawaited(load) ==
  /\ loads' = loads \ {load}
  /\ shown' = load
  /\ isLoading' = FALSE
  /\ UNCHANGED <<serverVars, started, refreshes, error, uploadVars, formVars>>

\* Both answers have arrived.
LoadDone(load) ==
  /\ Answered(load)
  /\ loads' = loads \ {load}
  /\ shown' = load
  /\ isLoading' = FALSE
  /\ UNCHANGED <<serverVars, started, refreshes, error, uploadVars, formVars>>

\* Either request is refused or lost.
LoadFails(load) ==
  /\ loads' = loads \ {load}
  /\ error' = TRUE
  /\ isLoading' = FALSE
  /\ UNCHANGED <<serverVars, started, refreshes, shown, uploadVars, formVars>>

-----------------------------------------------------------------------------
(* UploadFileModal                                                           *)

\* The button of the page header.
OpenModal ==
  /\ ~show
  /\ show' = TRUE
  /\ UNCHANGED <<serverVars, dataVars, uploadVars, draft>>

\* Cancel or close, also while an upload is in flight; the form keeps its state.
HideModal ==
  /\ show
  /\ show' = FALSE
  /\ UNCHANGED <<serverVars, dataVars, uploadVars, draft>>

\* The user fills the form or clears a field.
Edit ==
  /\ show
  /\ draft' \in BOOLEAN
  /\ UNCHANGED <<serverVars, dataVars, uploadVars, show>>

\* handleSubmit and upload, up to the await of the request; without title or file
\* handleSubmit returns with a message.
SendUpload ==
  /\ submitted < MaxUploads
  /\ draft
  /\ isSubmitting' = TRUE
  /\ uploadError' = FALSE
  /\ submitted' = submitted + 1
  /\ uploads' = uploads \cup {[id |-> submitted + 1, status |-> "sent", file |-> NoFile]}
  /\ UNCHANGED <<serverVars, dataVars, show, draft>>

\* Seeded bug: only the visibility of the form guards the button.
SubmitWheneverShown == show /\ SendUpload

\* The submit button is disabled while an upload is in flight.
Submit == show /\ ~isSubmitting /\ SendUpload

\* The server stores the file, and answers 201 or, when create() fails after its
\* commit, with an error; or it refuses the file.
AnswerUpload(upload) ==
  /\ upload.status = "sent"
  /\ \/ \E status \in {"accepted", "refused"} :
          /\ server' = server + 1
          /\ uploads' = (uploads \ {upload})
                         \cup {[upload EXCEPT !.status = status, !.file = server + 1]}
     \/ /\ server' = server
        /\ uploads' = (uploads \ {upload}) \cup {[upload EXCEPT !.status = "refused"]}
  /\ UNCHANGED <<reported, acknowledged, givenUp, lost, dataVars, submitted, isSubmitting,
                 uploadError, formVars>>

\* Seeded bug: the modal closes and the page is not told.
UploadDoneSilently(upload) ==
  /\ upload.status = "accepted"
  /\ uploads' = uploads \ {upload}
  /\ acknowledged' = server
  /\ show' = FALSE /\ draft' = FALSE
  /\ isSubmitting' = FALSE
  /\ UNCHANGED <<server, reported, givenUp, lost, dataVars, submitted, uploadError>>

\* The 201 arrives: onSuccess clears and hides the form and calls loadData, then
\* isSubmitting is reset; there is no await in between.
UploadDone(upload) ==
  /\ upload.status = "accepted"
  /\ uploads' = uploads \ {upload}
  /\ acknowledged' = server
  /\ show' = FALSE /\ draft' = FALSE
  /\ StartLoad
  /\ isSubmitting' = FALSE
  /\ UNCHANGED <<server, reported, givenUp, lost, refreshes, submitted, uploadError>>

\* The page takes an upload for failed, whatever the server has made or will
\* make of it.
GiveUp(upload) ==
  /\ givenUp' = IF upload.status = "sent" THEN givenUp + 1 ELSE givenUp
  /\ lost' = lost \cup ({upload.file} \ {NoFile})
  /\ UNCHANGED <<server, reported, acknowledged>>

\* Seeded bug: the form is reset whatever the outcome.
UploadFailsReset(upload) ==
  /\ GiveUp(upload)
  /\ uploads' = uploads \ {upload}
  /\ uploadError' = TRUE
  /\ isSubmitting' = FALSE
  /\ draft' = FALSE
  /\ UNCHANGED <<dataVars, submitted, show>>

\* The answer is an error, or none arrives: connection lost, timeout of a proxy.
UploadFails(upload) ==
  /\ GiveUp(upload)
  /\ uploads' = uploads \ {upload}
  /\ uploadError' = TRUE
  /\ isSubmitting' = FALSE
  /\ UNCHANGED <<dataVars, submitted, formVars>>

-----------------------------------------------------------------------------

\* The handler of an upload that was given up goes on and stores the file; a
\* request that never reached it, or that it refuses, is one it does not take up.
StoreGivenUp ==
  /\ givenUp > 0
  /\ givenUp' = givenUp - 1
  /\ server' = server + 1
  /\ lost' = lost \cup {server + 1}
  /\ UNCHANGED <<reported, acknowledged, dataVars, uploadVars, formVars>>

\* The pipeline of a stored file ends with its alert, in no order.
SendAlert ==
  /\ Cardinality(reported) < MaxReports
  /\ \E n \in 1..server \ reported : reported' = reported \cup {n}
  /\ UNCHANGED <<server, acknowledged, givenUp, lost, dataVars, uploadVars, formVars>>

LoadStep == \E load \in loads : AnswerLists(load) \/ LoadDone(load) \/ LoadFails(load)
UploadStep ==
  \E upload \in uploads : AnswerUpload(upload) \/ UploadDone(upload) \/ UploadFails(upload)

UserStep ==
  \/ Refresh
  \/ OpenModal
  \/ HideModal
  \/ Edit
  \/ Submit

Next == LoadStep \/ UploadStep \/ UserStep \/ StoreGivenUp \/ SendAlert

\* Every request the page waits for is answered or fails; the user need not do
\* anything.
Spec == Init /\ [][Next]_vars
FairSpec == Spec /\ WF_vars(LoadStep) /\ WF_vars(UploadStep)

-----------------------------------------------------------------------------

\* The page has one upload at a time, although the modal may be closed and reopened while a
\* request is in flight: the form stays mounted and isSubmitting with it.
UploadsSerial == Cardinality(uploads) <= 1 /\ (isSubmitting <=> uploads # {})

\* The spinner never outlives the last load, however loads overlap.
SpinnerHonest == isLoading => loads # {}

\* A file the server has stored for an upload the page still waits for appears on
\* the page once, or an error does.
EventuallyShown ==
  \A n \in 1..MaxUploads :
    (\E upload \in uploads : upload.file = n) ~> shown.files >= n \/ error \/ uploadError

\* Files and alerts are read by two requests, in either order, while uploads and
\* pipelines go on: the page may show the alert of a file it does not list.  When
\* the newest load is the one on the page, such a file is of an upload that is
\* still under way, or of one the page has called failed: neither reloads it.
AlertsListed ==
  shown.id = started =>
    \A n \in shown.alerts : \/ n <= shown.files
                            \/ n \in lost
                            \/ \E upload \in uploads : upload.file = n

\* What the user has typed is lost only by the user, while the form is open, or
\* when the server has stored an upload: not by a failing one, and by a
\* load at no time, however the modal was closed and opened meanwhile.
DraftKept ==
  [][draft /\ ~draft' =>
       \/ show /\ uploads' = uploads
       \/ \E upload \in uploads \ uploads' : upload.status = "accepted"]_vars

\* "Reloads data when loadData is called" (useDashboardData.test.ts): with every
\* load finished and no error shown, the page lists what was uploaded before
\* the last of them.
ListIsCurrent == loads = {} /\ ~error => shown.files >= acknowledged
=============================================================================
