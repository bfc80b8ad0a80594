--------------------------- MODULE DashboardProofs ----------------------------
(* Theorems about the dashboard page, for any number of uploads, refreshes   *)
(* and alerts.                                                               *)
EXTENDS Dashboard, FiniteSetTheorems, TLAPS

-----------------------------------------------------------------------------
(* The inductive invariants                                                  *)

\* One upload at a time; one that the server has not answered, and one it will
\* store after the page gave it up, is not yet among the files it has.
Serial ==
  /\ \A upload, other \in uploads : upload = other
  /\ isSubmitting <=> uploads # {}
  /\ \A upload \in uploads :
       /\ upload.file <= server
       /\ upload.status = "sent" => upload.file = NoFile /\ server + givenUp < submitted
  /\ server + givenUp <= submitted

\* A list was read from the server that is there.
ListsRead ==
  \A load \in loads :
    /\ load.files = Unanswered \/ load.files \in 0..server
    /\ load.alerts = Unanswered \/ load.alerts \in SUBSET reported

Shape == TypeOK /\ Serial /\ ListsRead

\* Loads are numbered, and the newest reads its list after the last 201: it lists
\* all the server had then.
NewestLoad ==
  /\ \A load \in loads :
       /\ load.id <= started
       /\ load.id = started /\ load.files # Unanswered => load.files >= acknowledged
  /\ shown.id <= started
  /\ shown.id = started => shown.files >= acknowledged

\* What the server has stored since is of an upload under way or called failed.
Unacknowledged ==
  \A n \in 1..server : \/ n <= acknowledged
                      \/ n \in lost
                      \/ \E upload \in uploads : upload.file = n

-----------------------------------------------------------------------------
(* Loads                                                                     *)

\* What the state of the loads and the lists they bring has to be, for a server
\* that has answered so much.
LoadsRight ==
  /\ loads \subseteq Load /\ started \in Nat /\ refreshes \in 0..MaxRefreshes
  /\ shown \in Load /\ Answered(shown)
  /\ shown.files \in 0..server /\ shown.alerts \subseteq reported
  /\ isLoading \in BOOLEAN /\ error \in BOOLEAN
  /\ ListsRead

FilesAnswer == Nat \cup {Unanswered}
AlertsAnswer == (SUBSET (1..MaxUploads)) \cup {Unanswered}

\* A load is made of a number and two answers.
LEMMA LoadFields ==
  /\ \A id \in Nat : NewLoad(id) \in Load
  /\ \A load \in Load, files \in FilesAnswer : [load EXCEPT !.files = files] \in Load
  /\ \A load \in Load, alerts \in AlertsAnswer : [load EXCEPT !.alerts = alerts] \in Load
  /\ \A load \in Load : load.id \in Nat /\ load.files \in FilesAnswer /\ load.alerts \in AlertsAnswer
<1>1. Load = [id: Nat, files: FilesAnswer, alerts: AlertsAnswer]
  BY DEF Load, FilesAnswer, AlertsAnswer
<1>2. Unanswered \in FilesAnswer /\ Unanswered \in AlertsAnswer
  BY DEF FilesAnswer, AlertsAnswer
<1> QED BY <1>1, <1>2 DEF NewLoad

\* A new load has no answers.
LEMMA StartLoadRight ==
  ASSUME LoadsRight, StartLoad, UNCHANGED <<server, reported>>, refreshes' \in 0..MaxRefreshes
  PROVE  LoadsRight'
<1>1. NewLoad(started + 1) \in Load
  BY LoadFields DEF LoadsRight
<1>2. NewLoad(started + 1).files = Unanswered /\ NewLoad(started + 1).alerts = Unanswered
  BY DEF NewLoad
<1>3. Answered(shown)'
  BY DEF StartLoad, LoadsRight, Answered
<1>4. ListsRead'
  BY <1>2 DEF StartLoad, LoadsRight, ListsRead
<1>5. loads' \subseteq Load /\ started' \in Nat
  BY <1>1 DEF StartLoad, LoadsRight
<1> QED BY <1>3, <1>4, <1>5 DEF StartLoad, LoadsRight

\* Answers are read from the tables; a load ends with both, or fails.
LEMMA LoadStepRight ==
  ASSUME LoadsRight, server \in 0..MaxUploads, reported \subseteq 1..server, LoadStep
  PROVE  LoadsRight'
<1> USE DEF LoadsRight
<1> PICK load \in loads : AnswerLists(load) \/ LoadDone(load) \/ LoadFails(load)
  BY DEF LoadStep
<1>0. load \in Load
  OBVIOUS
<1>1. CASE AnswerLists(load)
  <2>1. [load EXCEPT !.files = server] \in Load /\ [load EXCEPT !.alerts = reported] \in Load
    <3>1. server \in FilesAnswer /\ reported \in AlertsAnswer
      <4>1. 1..server \subseteq 1..MaxUploads
        BY BoundsAssumption
      <4> QED BY <4>1 DEF FilesAnswer, AlertsAnswer
    <3> QED BY <1>0, <3>1, LoadFields
  <2>2. /\ [load EXCEPT !.files = server].files = server
        /\ [load EXCEPT !.files = server].alerts = load.alerts
        /\ [load EXCEPT !.alerts = reported].files = load.files
        /\ [load EXCEPT !.alerts = reported].alerts = reported
    BY <1>0 DEF Load
  <2>3. /\ UNCHANGED <<server, reported, started, refreshes, shown, isLoading, error>>
        /\ \/ loads' = (loads \ {load}) \cup {[load EXCEPT !.files = server]}
           \/ loads' = (loads \ {load}) \cup {[load EXCEPT !.alerts = reported]}
    BY <1>1 DEF AnswerLists, serverVars
  <2>4. ListsRead'
    <3> SUFFICES ASSUME NEW other \in loads'
                 PROVE  /\ other.files = Unanswered \/ other.files \in 0..server
                        /\ other.alerts = Unanswered \/ other.alerts \in SUBSET reported
      BY <2>3 DEF ListsRead
    <3>1. CASE other \in loads
      BY <3>1 DEF ListsRead
    <3>2. CASE other = [load EXCEPT !.files = server]
      BY <3>2, <2>2 DEF ListsRead
    <3>3. CASE other = [load EXCEPT !.alerts = reported]
      BY <3>3, <2>2 DEF ListsRead
    <3> QED BY <3>1, <3>2, <3>3, <2>3
  <2>5. Answered(shown)'
    BY <2>3 DEF Answered
  <2> QED BY <2>1, <2>3, <2>4, <2>5
<1>2. CASE LoadDone(load)
  <2>1. /\ Answered(load) /\ loads' = loads \ {load} /\ shown' = load /\ isLoading' = FALSE
        /\ UNCHANGED <<server, reported, started, refreshes, error>>
    BY <1>2 DEF LoadDone, serverVars
  <2>2. Answered(shown)' /\ load.files # Unanswered /\ load.alerts # Unanswered
    BY <2>1 DEF Answered
  <2>3. load.files \in 0..server /\ load.alerts \subseteq reported
    BY <2>2 DEF ListsRead
  <2> QED BY <1>0, <2>1, <2>2, <2>3 DEF ListsRead
<1>3. CASE LoadFails(load)
  <2>1. /\ loads' = loads \ {load} /\ error' = TRUE /\ isLoading' = FALSE
        /\ UNCHANGED <<server, reported, started, refreshes, shown>>
    BY <1>3 DEF LoadFails, serverVars
  <2>2. Answered(shown)'
    BY <2>1 DEF Answered
  <2> QED BY <2>1, <2>2 DEF ListsRead
<1> QED BY <1>1, <1>2, <1>3

\* The server only gains files and alerts, so what was read stays right.
LEMMA LoadsStayRight ==
  ASSUME LoadsRight, server \in Nat, server' \in Nat, server <= server', reported \subseteq reported',
         UNCHANGED dataVars
  PROVE  LoadsRight'
<1>1. Answered(shown)'
  BY DEF LoadsRight, dataVars, Answered
<1>2. 0..server \subseteq 0..server'
  OBVIOUS
<1> QED BY <1>1, <1>2 DEF LoadsRight, ListsRead, dataVars

-----------------------------------------------------------------------------
(* Uploads                                                                   *)

UploadsRight ==
  /\ server \in 0..MaxUploads /\ reported \subseteq 1..server /\ acknowledged \in 0..server
  /\ givenUp \in 0..MaxUploads /\ lost \subseteq 1..server
  /\ uploads \subseteq Upload /\ submitted \in 0..MaxUploads
  /\ isSubmitting \in BOOLEAN /\ uploadError \in BOOLEAN
  /\ show \in BOOLEAN /\ draft \in BOOLEAN
  /\ Serial

\* The button is disabled until the upload in flight has ended.
LEMMA SubmitRight ==
  ASSUME UploadsRight, Submit
  PROVE  UploadsRight'
<1> USE DEF UploadsRight
<1> DEFINE new == [id |-> submitted + 1, status |-> "sent", file |-> NoFile]
<1>1. /\ submitted < MaxUploads /\ ~isSubmitting
      /\ isSubmitting' = TRUE /\ uploadError' = FALSE /\ submitted' = submitted + 1
      /\ uploads' = uploads \cup {new}
      /\ UNCHANGED <<server, reported, acknowledged, givenUp, lost, show, draft>>
  BY DEF Submit, SendUpload, serverVars
<1>2. new \in Upload /\ new.status = "sent" /\ new.file = NoFile
  BY BoundsAssumption DEF Upload, NoFile
<1>3. uploads' = {new}
  BY <1>1 DEF Serial
<1>4. submitted \in Nat /\ server \in Nat /\ givenUp \in Nat /\ MaxUploads \in Nat
  BY BoundsAssumption
<1> HIDE DEF new
<1>5. Serial'
  BY <1>1, <1>2, <1>3, <1>4 DEF Serial, NoFile
<1>6. submitted' \in 0..MaxUploads
  BY <1>1, <1>4
<1> QED BY <1>1, <1>2, <1>3, <1>5, <1>6

\* Each upload is answered once and ends once.
LEMMA UploadStepRight ==
  ASSUME UploadsRight, UploadStep
  PROVE  UploadsRight'
<1> PICK upload \in uploads : AnswerUpload(upload) \/ UploadDone(upload) \/ UploadFails(upload)
  BY DEF UploadStep
<1>0. /\ upload \in Upload /\ uploads = {upload} /\ isSubmitting
      /\ reported \subseteq 1..server /\ acknowledged \in 0..server /\ lost \subseteq 1..server
  BY DEF Serial, UploadsRight
<1>n. /\ server \in Nat /\ submitted \in Nat /\ givenUp \in Nat /\ MaxUploads \in Nat
      /\ submitted <= MaxUploads
  BY BoundsAssumption DEF UploadsRight
<1>b. /\ upload.file <= server
      /\ upload.status = "sent" => upload.file = NoFile /\ server + givenUp < submitted
      /\ server + givenUp <= submitted
  BY DEF Serial, UploadsRight
<1>1. CASE AnswerUpload(upload)
  <2>1. /\ upload.status = "sent"
        /\ UNCHANGED <<reported, acknowledged, givenUp, lost, submitted, isSubmitting,
                       uploadError, show, draft>>
    BY <1>1 DEF AnswerUpload, formVars
  <2>2. server + givenUp < submitted /\ upload.file = NoFile
    BY <2>1, <1>b
  <2>3. \E answered \in Upload : /\ uploads' = {answered} /\ answered.status # "sent"
                                /\ answered.file <= server'
    <3>1. CASE server' = server /\ uploads' = (uploads \ {upload})
                                              \cup {[upload EXCEPT !.status = "refused"]}
      <4>1. uploads' = {[upload EXCEPT !.status = "refused"]}
        BY <3>1, <1>0, <1>n
      <4>2. /\ [upload EXCEPT !.status = "refused"] \in Upload
            /\ [upload EXCEPT !.status = "refused"].status # "sent"
            /\ [upload EXCEPT !.status = "refused"].file <= server'
        BY <3>1, <2>2, <1>0, <1>n DEF Upload, NoFile
      <4> QED BY <4>1, <4>2
    <3>2. ASSUME NEW status \in {"accepted", "refused"}, server' = server + 1,
                 uploads' = (uploads \ {upload})
                            \cup {[upload EXCEPT !.status = status, !.file = server + 1]}
          PROVE  \E answered \in Upload : /\ uploads' = {answered} /\ answered.status # "sent"
                                         /\ answered.file <= server'
      <4>1. uploads' = {[upload EXCEPT !.status = status, !.file = server + 1]}
        BY <3>2, <1>0, <1>n
      <4>2. server + 1 \in 0..MaxUploads
        BY <1>0, <1>n, <2>2
      <4>3. /\ [upload EXCEPT !.status = status, !.file = server + 1] \in Upload
            /\ [upload EXCEPT !.status = status, !.file = server + 1].status # "sent"
            /\ [upload EXCEPT !.status = status, !.file = server + 1].file = server + 1
        BY <1>0, <1>n, <4>2 DEF Upload
      <4>4. [upload EXCEPT !.status = status, !.file = server + 1].file <= server'
        BY <4>3, <3>2, <1>0, <1>n
      <4> QED BY <4>1, <4>3, <4>4
    <3> QED BY <1>1, <3>1, <3>2 DEF AnswerUpload
  <2>4. server' \in {server, server + 1}
    BY <1>1 DEF AnswerUpload
  <2>5. server' \in 0..MaxUploads /\ server <= server' /\ server' + givenUp <= submitted
    <3>1. PICK more \in Nat : server' = more /\ server <= more /\ more + givenUp <= submitted
      BY <1>n, <2>2, <2>4
    <3>2. more \in 0..MaxUploads
      BY <1>n, <3>1
    <3> QED BY <3>1, <3>2
  <2>6. 1..server \subseteq 1..server' /\ 0..server \subseteq 0..server'
    BY <1>0, <1>n, <2>5
  <2>7. Serial'
    BY <1>0, <1>n, <2>1, <2>3, <2>5 DEF Serial
  <2> QED BY <2>1, <2>3, <2>5, <2>6, <2>7, <1>0 DEF UploadsRight
<1>2. CASE UploadDone(upload)
  <2>1. /\ uploads' = {} /\ acknowledged' = server /\ isSubmitting' = FALSE
        /\ show' = FALSE /\ draft' = FALSE
        /\ UNCHANGED <<server, reported, givenUp, lost, submitted, uploadError>>
    BY <1>2, <1>0, <1>n DEF UploadDone
  <2>2. Serial'
    BY <2>1, <1>b DEF Serial
  <2>3. server \in 0..server /\ {} \subseteq Upload
    BY <1>0, <1>n
  <2> QED BY <2>1, <2>2, <2>3 DEF UploadsRight
<1>3. CASE UploadFails(upload)
  <2>1. /\ uploads' = {} /\ uploadError' = TRUE /\ isSubmitting' = FALSE
        /\ UNCHANGED <<server, reported, acknowledged, submitted, show, draft>>
        /\ givenUp' = IF upload.status = "sent" THEN givenUp + 1 ELSE givenUp
        /\ lost' = lost \cup ({upload.file} \ {NoFile})
    BY <1>3, <1>0, <1>n DEF UploadFails, GiveUp, formVars
  <2>2. givenUp' \in Nat /\ server + givenUp' <= submitted
    BY <2>1, <1>n, <1>b
  <2>3. givenUp' \in 0..MaxUploads
    <3>1. PICK more \in Nat : givenUp' = more /\ server + more <= submitted
      BY <2>2
    <3>2. more \in 0..MaxUploads
      BY <1>n, <3>1
    <3> QED BY <3>1, <3>2
  <2>4. upload.file \in 0..server
    BY <1>0, <1>n, <1>b DEF Upload
  <2>5. lost' \subseteq 1..server
    <3>1. upload.file = NoFile \/ upload.file \in 1..server
      BY <2>4, <1>0, <1>n DEF NoFile
    <3> QED BY <3>1, <2>1, <1>0, <1>n
  <2>6. Serial'
    BY <2>1, <2>2, <1>n DEF Serial
  <2> QED BY <2>1, <2>3, <2>5, <2>6, <1>0 DEF UploadsRight
<1> QED BY <1>1, <1>2, <1>3

\* An upload that was given up is stored once, if at all.
LEMMA StoreGivenUpRight ==
  ASSUME UploadsRight, StoreGivenUp
  PROVE  UploadsRight'
<1> USE DEF UploadsRight
<1>1. /\ givenUp > 0 /\ givenUp' = givenUp - 1 /\ server' = server + 1
      /\ lost' = lost \cup {server + 1}
      /\ UNCHANGED <<reported, acknowledged, uploads, submitted, isSubmitting, uploadError,
                     show, draft>>
  BY DEF StoreGivenUp, uploadVars, formVars
<1>2. /\ server \in Nat /\ submitted \in Nat /\ givenUp \in Nat /\ MaxUploads \in Nat
      /\ server + givenUp <= submitted /\ submitted <= MaxUploads
  BY BoundsAssumption DEF Serial
<1>3. server' \in 0..MaxUploads /\ givenUp' \in 0..MaxUploads
      /\ server' + givenUp' = server + givenUp
  BY <1>1, <1>2
<1>4. 1..server' = 1..server \cup {server + 1} /\ 0..server \subseteq 0..server'
  BY <1>1, <1>2
<1>5. \A upload \in uploads : upload.file \in Nat
  BY DEF Upload
<1>6. Serial'
  BY <1>1, <1>2, <1>3, <1>5 DEF Serial
<1> QED BY <1>1, <1>3, <1>4, <1>6

-----------------------------------------------------------------------------
(* The page                                                                  *)

LEMMA ShapeInvariant == Spec => []Shape
<1>1. Init => Shape
  <2> SUFFICES ASSUME Init PROVE Shape
    OBVIOUS
  <2>1. /\ NewLoad(1) \in Load
        /\ NewLoad(1).files = Unanswered /\ NewLoad(1).alerts = Unanswered
    BY LoadFields DEF NewLoad
  <2>2. shown \in Load /\ shown.files = 0 /\ shown.alerts = {}
    BY DEF Init, Load
  <2>3. Answered(shown)
    BY <2>2, UnansweredAssumption DEF Answered
  <2>4. loads \subseteq Load /\ ListsRead
    BY <2>1 DEF Init, ListsRead
  <2>5. Serial
    BY DEF Init, Serial
  <2>b. MaxUploads \in Nat /\ MaxRefreshes \in Nat
    BY BoundsAssumption
  <2>c. /\ isLoading \in BOOLEAN /\ error \in BOOLEAN
        /\ isSubmitting \in BOOLEAN /\ uploadError \in BOOLEAN
        /\ show \in BOOLEAN /\ draft \in BOOLEAN
    BY DEF Init
  <2>d. /\ server \in 0..MaxUploads /\ reported \subseteq 1..server /\ acknowledged \in 0..server
        /\ givenUp \in 0..MaxUploads /\ lost \subseteq 1..server
        /\ uploads \subseteq Upload /\ submitted \in 0..MaxUploads
    BY <2>b DEF Init
  <2>e. /\ started \in Nat /\ refreshes \in 0..MaxRefreshes
        /\ shown.files \in 0..server /\ shown.alerts \subseteq reported
    BY <2>b, <2>2 DEF Init
  <2>6. UploadsRight
    BY <2>5, <2>c, <2>d DEF UploadsRight
  <2>7. LoadsRight
    BY <2>2, <2>3, <2>4, <2>c, <2>e DEF LoadsRight
  <2> QED BY <2>6, <2>7 DEF Shape, TypeOK, LoadsRight, UploadsRight
<1>2. Shape /\ [Next]_vars => Shape'
  <2> SUFFICES ASSUME LoadsRight, UploadsRight, [Next]_vars
               PROVE  LoadsRight' /\ UploadsRight'
    BY DEF Shape, TypeOK, LoadsRight, UploadsRight
  <2>0. server \in Nat
    BY DEF UploadsRight
  <2>a. ASSUME UNCHANGED <<serverVars, uploadVars>>, show' \in BOOLEAN, draft' \in BOOLEAN
        PROVE  UploadsRight'
    BY <2>a DEF UploadsRight, Serial, serverVars, uploadVars
  <2>1. CASE LoadStep
    <3>1. UNCHANGED <<serverVars, uploadVars, formVars>>
      BY <2>1 DEF LoadStep, AnswerLists, LoadDone, LoadFails
    <3>2. LoadsRight'
      BY <2>1, LoadStepRight DEF UploadsRight
    <3> QED BY <3>1, <3>2, <2>a DEF formVars, UploadsRight
  <2>2. CASE UploadStep
    <3>1. UploadsRight'
      BY <2>2, UploadStepRight
    <3>2. PICK upload \in uploads :
            AnswerUpload(upload) \/ UploadDone(upload) \/ UploadFails(upload)
      BY <2>2 DEF UploadStep
    <3>3. CASE AnswerUpload(upload)
      <4>1. server <= server' /\ reported' = reported /\ UNCHANGED dataVars
        BY <3>3, <2>0 DEF AnswerUpload
      <4>2. server' \in Nat
        BY <3>1 DEF UploadsRight
      <4> QED BY <4>1, <4>2, <3>1, <2>0, LoadsStayRight
    <3>4. CASE UploadDone(upload)
      <4>1. StartLoad /\ UNCHANGED <<server, reported, refreshes>>
        BY <3>4 DEF UploadDone
      <4> QED BY <4>1, <3>1, StartLoadRight DEF LoadsRight
    <3>5. CASE UploadFails(upload)
      <4>1. server' = server /\ reported' = reported /\ UNCHANGED dataVars
        BY <3>5 DEF UploadFails, GiveUp
      <4> QED BY <4>1, <3>1, <2>0, LoadsStayRight
    <3> QED BY <3>2, <3>3, <3>4, <3>5
  <2>3. CASE Refresh
    <3>1. StartLoad /\ UNCHANGED <<serverVars, uploadVars, formVars>> /\ refreshes' = refreshes + 1
          /\ refreshes < MaxRefreshes
      BY <2>3 DEF Refresh
    <3>2. refreshes' \in 0..MaxRefreshes
      BY <3>1, BoundsAssumption DEF LoadsRight
    <3>3. LoadsRight'
      BY <3>1, <3>2, StartLoadRight DEF serverVars
    <3> QED BY <3>1, <3>3, <2>a DEF formVars, UploadsRight
  <2>4. CASE OpenModal \/ HideModal \/ Edit \/ UNCHANGED vars
    <3>1. /\ UNCHANGED <<serverVars, uploadVars, dataVars>>
          /\ show' \in BOOLEAN /\ draft' \in BOOLEAN
      BY <2>4 DEF OpenModal, HideModal, Edit, vars, formVars, UploadsRight
    <3>2. LoadsRight'
      BY <3>1, <2>0, LoadsStayRight DEF serverVars
    <3> QED BY <3>1, <3>2, <2>a
  <2>5. CASE Submit
    <3>1. server' = server /\ reported' = reported /\ UNCHANGED dataVars
      BY <2>5 DEF Submit, SendUpload, serverVars
    <3> QED BY <3>1, <2>5, <2>0, SubmitRight, LoadsStayRight
  <2>6. CASE SendAlert
    <3>1. /\ reported \subseteq reported' /\ reported' \subseteq 1..server
          /\ UNCHANGED <<server, acknowledged, givenUp, lost, dataVars, uploadVars, formVars>>
      BY <2>6 DEF SendAlert, UploadsRight
    <3>2. LoadsRight'
      BY <3>1, <2>0, LoadsStayRight
    <3>3. UploadsRight'
      BY <3>1 DEF UploadsRight, Serial, uploadVars, formVars
    <3> QED BY <3>2, <3>3
  <2>7. CASE StoreGivenUp
    <3>1. UploadsRight'
      BY <2>7, StoreGivenUpRight
    <3>2. server <= server' /\ server' \in Nat /\ reported' = reported /\ UNCHANGED dataVars
      BY <2>7, <2>0 DEF StoreGivenUp
    <3> QED BY <3>1, <3>2, <2>0, LoadsStayRight
  <2> QED BY <2>1, <2>2, <2>3, <2>4, <2>5, <2>6, <2>7 DEF Next, UserStep
<1> QED BY <1>1, <1>2, PTL DEF Spec

\* The variables of the page have their types, and what it shows was read from
\* the server: LoadDone shows a load only with both answers, never a part of one.
THEOREM TypeCorrect == Spec => []TypeOK
<1>1. Shape => TypeOK
  BY DEF Shape
<1> QED BY <1>1, ShapeInvariant, PTL

\* However often the modal is closed and reopened while a request is in flight,
\* UploadFileModal has one upload at a time and isSubmitting says so.
THEOREM OneUploadAtATime == Spec => []UploadsSerial
<1>1. Shape => UploadsSerial
  <2> SUFFICES ASSUME Shape PROVE UploadsSerial
    OBVIOUS
  <2>0. \A upload, other \in uploads : upload = other
    BY DEF Shape, Serial
  <2>1. uploads = {} \/ \E upload : uploads = {upload}
    BY <2>0
  <2>2. Cardinality(uploads) \in {0, 1}
    BY <2>1, FS_EmptySet, FS_Singleton
  <2> QED BY <2>2 DEF UploadsSerial, Shape, Serial
<1> QED BY <1>1, ShapeInvariant, PTL

\* isLoading is reset by the first load that ends, whichever that is, so that it
\* never stays set when no load is left.
THEOREM SpinnerStops == Spec => []SpinnerHonest
<1>1. Init => SpinnerHonest
  BY DEF Init, SpinnerHonest
<1>2. SpinnerHonest /\ [Next]_vars => SpinnerHonest'
  <2> SUFFICES ASSUME SpinnerHonest, [Next]_vars PROVE SpinnerHonest'
    OBVIOUS
  <2>1. CASE StartLoad
    BY <2>1 DEF StartLoad, SpinnerHonest
  <2>2. ASSUME NEW load, AnswerLists(load) PROVE SpinnerHonest'
    <3>1. isLoading' = isLoading /\ loads' # {}
      BY <2>2 DEF AnswerLists
    <3> QED BY <3>1 DEF SpinnerHonest
  <2>3. ASSUME NEW load, LoadDone(load) \/ LoadFails(load) PROVE SpinnerHonest'
    <3>1. isLoading' = FALSE
      BY <2>3 DEF LoadDone, LoadFails
    <3> QED BY <3>1 DEF SpinnerHonest
  <2>4. CASE UNCHANGED dataVars
    BY <2>4 DEF SpinnerHonest, dataVars
  <2> QED BY <2>1, <2>2, <2>3, <2>4
          DEF Next, LoadStep, UploadStep, AnswerUpload, UploadDone, UploadFails, UserStep, Refresh,
              OpenModal, HideModal, Edit, Submit, SendUpload, StoreGivenUp, SendAlert, vars
<1> QED BY <1>1, <1>2, PTL DEF Spec

-----------------------------------------------------------------------------
(* The newest load                                                           *)

\* A load begun after the last 201 reads a list with everything acknowledged.
LEMMA StartLoadNewest ==
  ASSUME Shape, NewestLoad, StartLoad
  PROVE  NewestLoad'
<1>1. started \in Nat /\ shown.id \in Nat /\ \A load \in loads : load.id \in Nat
  BY LoadFields DEF Shape, TypeOK
<1>2. NewLoad(started + 1).id = started + 1 /\ NewLoad(started + 1).files = Unanswered
  BY DEF NewLoad
<1>3. /\ loads' = loads \cup {NewLoad(started + 1)} /\ started' = started + 1
      /\ shown' = shown
  BY DEF StartLoad
<1>4. \A load \in loads' : load.id <= started'
                           /\ (load.id = started' => load.files = Unanswered)
  <2> SUFFICES ASSUME NEW load \in loads'
               PROVE  load.id <= started' /\ (load.id = started' => load.files = Unanswered)
    OBVIOUS
  <2>1. CASE load \in loads
    BY <2>1, <1>1, <1>3 DEF NewestLoad
  <2>2. CASE load = NewLoad(started + 1)
    BY <2>2, <1>1, <1>2, <1>3
  <2> QED BY <2>1, <2>2, <1>3
<1>5. shown'.id <= started' /\ shown'.id # started'
  BY <1>1, <1>3 DEF NewestLoad
<1> QED BY <1>4, <1>5 DEF NewestLoad

\* The newest load is answered after it was begun.
LEMMA LoadStepNewest ==
  ASSUME Shape, NewestLoad, LoadStep
  PROVE  NewestLoad'
<1> PICK load \in loads : AnswerLists(load) \/ LoadDone(load) \/ LoadFails(load)
  BY DEF LoadStep
<1>0. /\ load \in Load /\ load.id \in Nat /\ started \in Nat
      /\ server \in Nat /\ acknowledged \in Nat /\ acknowledged <= server
  BY LoadFields, BoundsAssumption DEF Shape, TypeOK
<1>1. CASE AnswerLists(load)
  <2>1. /\ UNCHANGED <<started, shown, acknowledged>>
        /\ \/ loads' = (loads \ {load}) \cup {[load EXCEPT !.files = server]}
           \/ loads' = (loads \ {load}) \cup {[load EXCEPT !.alerts = reported]}
    BY <1>1 DEF AnswerLists, serverVars
  <2>2. /\ [load EXCEPT !.files = server].files = server
        /\ [load EXCEPT !.files = server].id = load.id
        /\ [load EXCEPT !.alerts = reported].files = load.files
        /\ [load EXCEPT !.alerts = reported].id = load.id
    BY <1>0 DEF Load
  <2>3. ASSUME NEW other \in loads'
        PROVE  /\ other.id <= started
               /\ other.id = started /\ other.files # Unanswered => other.files >= acknowledged
    <3>1. CASE other \in loads
      BY <3>1 DEF NewestLoad
    <3>2. CASE other = [load EXCEPT !.files = server]
      BY <3>2, <2>2, <1>0 DEF NewestLoad
    <3>3. CASE other = [load EXCEPT !.alerts = reported]
      BY <3>3, <2>2 DEF NewestLoad
    <3> QED BY <3>1, <3>2, <3>3, <2>1
  <2> QED BY <2>1, <2>3 DEF NewestLoad
<1>2. CASE LoadDone(load)
  <2>1. /\ UNCHANGED <<started, acknowledged>> /\ shown' = load /\ loads' \subseteq loads
        /\ load.files # Unanswered
    BY <1>2 DEF LoadDone, serverVars, Answered
  <2> QED BY <2>1 DEF NewestLoad
<1>3. CASE LoadFails(load)
  <2>1. UNCHANGED <<started, shown, acknowledged>> /\ loads' \subseteq loads
    BY <1>3 DEF LoadFails, serverVars
  <2> QED BY <2>1 DEF NewestLoad
<1> QED BY <1>1, <1>2, <1>3

Settling == NewestLoad /\ Unacknowledged

\* Whatever the server stores more, the page is told with a 201, or will be, or
\* has called the upload failed.
LEMMA ServerStepKnown ==
  ASSUME Shape, Unacknowledged, UploadStep \/ StoreGivenUp
  PROVE  Unacknowledged'
<1>0. /\ server \in Nat /\ acknowledged \in Nat
      /\ \A upload \in uploads : upload \in Upload /\ uploads = {upload}
  BY BoundsAssumption DEF Shape, TypeOK, Serial
<1>1. ASSUME NEW upload \in uploads, AnswerUpload(upload)
      PROVE  Unacknowledged'
  <2>1. acknowledged' = acknowledged /\ lost' = lost /\ upload.file = NoFile
    BY <1>1 DEF AnswerUpload, Shape, Serial
  <2>2. \A n \in 1..server : n <= acknowledged \/ n \in lost
    BY <2>1, <1>0 DEF Unacknowledged, NoFile
  <2>3. server' = server \/ (server' = server + 1 /\ \E new \in uploads' : new.file = server + 1)
    <3>1. ASSUME NEW status \in {"accepted", "refused"},
                 uploads' = (uploads \ {upload})
                            \cup {[upload EXCEPT !.status = status, !.file = server + 1]}
          PROVE  \E new \in uploads' : new.file = server + 1
      <4>1. [upload EXCEPT !.status = status, !.file = server + 1].file = server + 1
        BY <1>0 DEF Upload
      <4> QED BY <3>1, <4>1
    <3> QED BY <1>1, <3>1 DEF AnswerUpload
  <2>4. \A n \in 1..(server + 1) : n \in 1..server \/ n = server + 1
    BY <1>0
  <2> QED BY <2>1, <2>2, <2>3, <2>4 DEF Unacknowledged
<1>2. ASSUME NEW upload \in uploads, UploadDone(upload)
      PROVE  Unacknowledged'
  <2>1. acknowledged' = server /\ server' = server
    BY <1>2 DEF UploadDone
  <2>2. \A n \in 1..server : n <= server
    BY <1>0
  <2> QED BY <2>1, <2>2 DEF Unacknowledged
<1>3. ASSUME NEW upload \in uploads, UploadFails(upload)
      PROVE  Unacknowledged'
  <2>1. /\ acknowledged' = acknowledged /\ server' = server
        /\ lost' = lost \cup ({upload.file} \ {NoFile})
    BY <1>3 DEF UploadFails, GiveUp
  <2>2. \A n \in 1..server : n # NoFile
    BY <1>0 DEF NoFile
  <2> QED BY <2>1, <2>2, <1>0 DEF Unacknowledged
<1>4. CASE StoreGivenUp
  <2>1. /\ UNCHANGED <<acknowledged, uploads>> /\ server' = server + 1
        /\ lost' = lost \cup {server + 1}
    BY <1>4 DEF StoreGivenUp, uploadVars
  <2>2. \A n \in 1..(server + 1) : n \in 1..server \/ n = server + 1
    BY <1>0
  <2> QED BY <2>1, <2>2 DEF Unacknowledged
<1> QED BY <1>1, <1>2, <1>3, <1>4 DEF UploadStep

LEMMA SettlingInvariant == Spec => []Settling
<1>1. Init => Settling
  <2> SUFFICES ASSUME Init PROVE NewestLoad /\ Unacknowledged
    BY DEF Settling
  <2>1. NewLoad(1).id = 1 /\ NewLoad(1).files = Unanswered
    BY DEF NewLoad
  <2>2. 1..server = {}
    BY DEF Init
  <2> QED BY <2>1, <2>2 DEF Init, NewestLoad, Unacknowledged
<1>2. Shape /\ Settling /\ [Next]_vars => Settling'
  <2> SUFFICES ASSUME Shape, NewestLoad, Unacknowledged, [Next]_vars
               PROVE  NewestLoad' /\ Unacknowledged'
    BY DEF Settling
  <2>a. ASSUME UNCHANGED <<acknowledged, dataVars>>
        PROVE  NewestLoad'
    BY <2>a DEF NewestLoad, dataVars
  <2>b. ASSUME UNCHANGED <<server, acknowledged, lost>>, uploads \subseteq uploads'
        PROVE  Unacknowledged'
    BY <2>b DEF Unacknowledged
  <2>1. CASE LoadStep
    <3>1. UNCHANGED <<serverVars, uploadVars>>
      BY <2>1 DEF LoadStep, AnswerLists, LoadDone, LoadFails
    <3> QED BY <3>1, <2>1, <2>b, LoadStepNewest DEF serverVars, uploadVars
  <2>2. CASE UploadStep
    <3>1. NewestLoad'
      <4>1. PICK upload \in uploads :
              AnswerUpload(upload) \/ UploadDone(upload) \/ UploadFails(upload)
        BY <2>2 DEF UploadStep
      <4>2. CASE UploadDone(upload)
        <5>1. StartLoad /\ acknowledged' = server
          BY <4>2 DEF UploadDone
        <5> QED BY <5>1, StartLoadNewest
      <4>3. CASE AnswerUpload(upload) \/ UploadFails(upload)
        BY <4>3, <2>a DEF AnswerUpload, UploadFails, GiveUp
      <4> QED BY <4>1, <4>2, <4>3
    <3> QED BY <3>1, <2>2, ServerStepKnown
  <2>3. CASE Refresh
    <3>1. StartLoad /\ UNCHANGED <<serverVars, uploadVars>>
      BY <2>3 DEF Refresh
    <3> QED BY <3>1, <2>b, StartLoadNewest DEF serverVars, uploadVars
  <2>4. CASE OpenModal \/ HideModal \/ Edit \/ Submit \/ SendAlert \/ UNCHANGED vars
    <3>1. UNCHANGED <<server, acknowledged, lost, dataVars>> /\ uploads \subseteq uploads'
      BY <2>4 DEF OpenModal, HideModal, Edit, Submit, SendUpload, SendAlert, vars, serverVars,
         uploadVars
    <3> QED BY <3>1, <2>a, <2>b
  <2>5. CASE StoreGivenUp
    <3>1. UNCHANGED <<acknowledged, dataVars>>
      BY <2>5 DEF StoreGivenUp
    <3> QED BY <3>1, <2>5, <2>a, ServerStepKnown
  <2> QED BY <2>1, <2>2, <2>3, <2>4, <2>5 DEF Next, UserStep
<1> QED BY <1>1, <1>2, ShapeInvariant, PTL DEF Spec

\* While the newest load is on the page, an alert of a file it does not list is of
\* an upload under way or of one the page has called failed, in whatever order
\* requests were answered and uploads stored.
THEOREM AlertsBecomeListed == Spec => []AlertsListed
<1>1. Shape /\ Settling => AlertsListed
  <2> SUFFICES ASSUME Shape, Settling, shown.id = started, NEW n \in shown.alerts
               PROVE  \/ n <= shown.files
                      \/ n \in lost
                      \/ \E upload \in uploads : upload.file = n
    BY DEF AlertsListed
  <2>1. shown.files >= acknowledged
    BY DEF Settling, NewestLoad
  <2>2. /\ server \in Nat /\ acknowledged \in 0..server /\ shown.files \in 0..server
        /\ n \in 1..server
    <3>1. /\ server \in 0..MaxUploads /\ acknowledged \in 0..server
          /\ shown.files \in 0..server
          /\ shown.alerts \subseteq reported /\ reported \subseteq 1..server
      BY DEF Shape, TypeOK
    <3>2. server \in Nat /\ acknowledged \in 0..server /\ shown.files \in 0..server
      BY <3>1, BoundsAssumption
    <3>3. n \in 1..server
      BY <3>1
    <3> QED BY <3>2, <3>3
  <2>3. \/ n <= acknowledged
        \/ n \in lost
        \/ \E upload \in uploads : upload.file = n
    BY <2>2 DEF Settling, Unacknowledged
  <2> QED BY <2>1, <2>2, <2>3
<1> QED BY <1>1, ShapeInvariant, SettlingInvariant, PTL

-----------------------------------------------------------------------------
(* The form                                                                  *)

\* A failing upload or a load never clears what the user has typed; the user can,
\* in the open modal, and so does an upload that succeeds.
THEOREM DraftsSurvive == Spec => DraftKept
<1>1. [Next]_vars =>
        [draft /\ ~draft' =>
           \/ show /\ uploads' = uploads
           \/ \E upload \in uploads \ uploads' : upload.status = "accepted"]_vars
  <2> SUFFICES ASSUME Next, draft, ~draft'
               PROVE  \/ show /\ uploads' = uploads
                      \/ \E upload \in uploads \ uploads' : upload.status = "accepted"
    OBVIOUS
  <2>1. draft' # draft
    OBVIOUS
  <2>2. Edit \/ \E upload \in uploads : UploadDone(upload)
    BY <2>1 DEF Next, LoadStep, AnswerLists, LoadDone, LoadFails, UploadStep, AnswerUpload,
       UploadFails, UserStep, Refresh, OpenModal, HideModal, Submit, SendUpload, StoreGivenUp,
       SendAlert, formVars
  <2>3. CASE Edit
    BY <2>3 DEF Edit, uploadVars
  <2>4. ASSUME NEW upload \in uploads, UploadDone(upload)
        PROVE  \E done \in uploads \ uploads' : done.status = "accepted"
    BY <2>4 DEF UploadDone
  <2> QED BY <2>2, <2>3, <2>4
<1> QED BY <1>1, PTL DEF Spec, DraftKept
=============================================================================
