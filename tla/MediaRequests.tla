--------------------------- MODULE MediaRequests ---------------------------
(***************************************************************************)
(* Requests for pictures and films (images.py and video.py) and what they   *)
(* do with accounts and with the files of MediaCache. A request is a "job"  *)
(* (POST /v1/videos, a background task), a "film" (a video asked for in a   *)
(* chat), one task of the batch of a "lite" generation, an image "edit",    *)
(* or a "paint" on the image websocket; edits and paints are streamed.      *)
(* A job is in progress until its phase is "ended"; its status is then its  *)
(* result. One picture per request; a film is made of one segment.          *)
(***************************************************************************)
EXTENDS MediaCache

CONSTANTS Account, NoAccount,
          Admin,         \* the keepers whose pages the operator uses
          Mix,           \* which kinds of requests come together
          FileOf,        \* request -> the file it saves
          Referring,     \* requests for a film that bring pictures to start from
          MaxRetries,    \* of a selection
          RetryCodes     \* failures after which a lite request tries another account

Request == Thread \ Keeper
ASSUME MediaAssumption ==
  /\ Admin \subseteq Keeper /\ Referring \subseteq Request /\ NoAccount \notin Account /\ FileOf \in [Request -> File] /\ MaxRetries \in Nat

VARIABLES
  kind, phase, account, tried, result,
  left,      \* the client has left
  inflight,  \* worker -> account -> count
  usable     \* accounts no worker has found refused

lives == <<kind, phase, account, tried, result, left>>
pool  == <<inflight, usable>>
vars  == <<cache, lives, pool>>

Video(r)  == kind[r] \in {"job", "film"}
Lite      == {r \in Request : kind[r] = "lite"}
Started(r) == phase[r] # "new" \/ tried[r] # {}
Begun(r)  == /\ phase[r] # "ended"
             /\ \/ Started(r)
                \/ r \in Lite /\ \E s \in Lite : Started(s)

-----------------------------------------------------------------------------
(* Accounts *)

GivenBack(r) == [inflight EXCEPT ![Home[r]][account[r]] = @ - 1]

\* The finally block of a request: release, then what is reported of the account. A credential
\* that was refused takes the account out; no other report matters here.
Settles(r, verdict) ==
  IF account[r] = NoAccount
  THEN UNCHANGED <<account, pool>>
  ELSE /\ inflight' = GivenBack(r) /\ account' = [account EXCEPT ![r] = NoAccount]
       /\ usable' = IF verdict = "unauthorized" THEN usable \ {account[r]} ELSE usable

Goes(r, p) == phase' = [phase EXCEPT ![r] = p]
Ends(r, how) == Goes(r, "ended") /\ result' = [result EXCEPT ![r] = how]

\* A lite request goes to another account after some failures; the others give up.
Retries(r, verdict) == /\ kind[r] = "lite" /\ verdict \in RetryCodes
                       /\ Cardinality(tried[r]) < MaxRetries
Fails(r, verdict) ==
  /\ Settles(r, verdict)
  /\ \/ /\ Retries(r, verdict) /\ Goes(r, "new")
        /\ tried' = [tried EXCEPT ![r] = @ \cup {account[r]}] /\ UNCHANGED result
     \/ /\ ~ Retries(r, verdict) /\ Ends(r, "failed") /\ UNCHANGED tried
Delivers(r) == Settles(r, "success") /\ Ends(r, "ok") /\ UNCHANGED tried

Untried(r) == usable \ tried[r]
FirstPhase(r) == CASE Video(r) -> "probing" [] kind[r] = "edit" -> "uploading" [] OTHER -> "working"
Reserves(r) ==
  /\ phase[r] = "new" /\ kind[r] # "none" /\ Cardinality(tried[r]) <= MaxRetries
  /\ \E a \in Untried(r) :
       /\ account' = [account EXCEPT ![r] = a]
       /\ inflight' = [inflight EXCEPT ![Home[r]][a] = @ + 1]
  /\ Goes(r, FirstPhase(r))
  /\ UNCHANGED <<cache, kind, tried, result, left, usable>>

NoneLeft(r) ==
  /\ phase[r] = "new" /\ kind[r] # "none" /\ (Untried(r) = {} \/ Cardinality(tried[r]) > MaxRetries)
  /\ Ends(r, "failed")
  /\ UNCHANGED <<cache, kind, account, tried, left, pool>>

\* _reserve_video_account: the live quota of the account, asked for before a film is ordered. An
\* answer of zero gives the account back; no answer keeps it.
SkipsHeld(r) == /\ account' = [account EXCEPT ![r] = NoAccount]
                /\ tried' = [tried EXCEPT ![r] = @ \cup {account[r]}] /\ UNCHANGED pool
Skips(r) == /\ inflight' = GivenBack(r) /\ account' = [account EXCEPT ![r] = NoAccount]
            /\ tried' = [tried EXCEPT ![r] = @ \cup {account[r]}] /\ UNCHANGED usable

\* What the quota endpoint says; a refusal takes the account out at once, and the film is ordered
\* with it all the same.
QuotaAnswers == {"some", "none", "nothing", "refused"}
Condemned(r, answer) == IF answer = "refused" THEN usable \ {account[r]} ELSE usable
Probes(r) ==
  /\ phase[r] = "probing"
  /\ \E answer \in QuotaAnswers :
       IF answer = "none" THEN Goes(r, "new") /\ Skips(r)
       ELSE /\ Goes(r, IF r \in Referring THEN "uploading" ELSE "working")
            /\ usable' = Condemned(r, answer) /\ UNCHANGED <<account, tried, inflight>>
  /\ UNCHANGED <<cache, kind, result, left>>

-----------------------------------------------------------------------------
(* The upstream's answers *)

Failure == {"unauthorized", "broken"}

\* The input of an upload is fetched from where it is, whose 401 counts like the upstream's own.
InputFetched == {"fetched"} \cup Failure
\* _upload_file_inner
LegacyUpload == {"uploaded"} \cup Failure
\* _upload_imagine_image_inner: where the region is refused, the older endpoint is tried.
DirectUpload == Failure \cup {IF x = "uploaded" THEN x ELSE "broken" : x \in LegacyUpload}
Uploaded(r) == LET Way == IF kind[r] = "edit" THEN DirectUpload ELSE LegacyUpload
               IN  Way \cup (InputFetched \cap Failure)

\* edit uploads its references before it streams; a failure gives the account back, unreported.
UploadsEdit(r) ==
  \E x \in Uploaded(r) :
    IF x = "uploaded" THEN Goes(r, "working") /\ UNCHANGED <<account, tried, result, pool>>
    ELSE Ends(r, "failed") /\ Settles(r, "unreported") /\ UNCHANGED tried
\* A film uploads with its account at stake.
UploadsFilm(r) ==
  \E x \in Uploaded(r) :
    IF x = "uploaded" THEN Goes(r, "working") /\ UNCHANGED <<account, tried, result, pool>>
    ELSE Fails(r, x)
Uploads(r) ==
  /\ phase[r] = "uploading"
  /\ IF Video(r) THEN UploadsFilm(r) ELSE UploadsEdit(r)
  /\ UNCHANGED <<cache, kind, left>>

\* A chat request for a picture, and for a film: the status of the answer, an error inside the
\* stream, or a stream that breaks.
PictureStream == {"streamed"} \cup Failure
FilmStream == {"streamed"} \cup Failure
\* The image websocket tells its failures apart for the proxy alone: all of them end as "error"
\* events without a status. (A round whose pictures were all moderated is asked for again; that
\* this ends is an assumption.)
Socket == {"streamed", "broken"}
Streamed(r) == CASE Video(r) -> FilmStream [] kind[r] = "paint" -> Socket [] OTHER -> PictureStream

\* A picture may be handed on as a URL of the upstream or inline, or is fetched; a job always
\* fetches its film.
Pictured(r) == \/ kind[r] # "job" /\ Delivers(r)
               \/ Goes(r, "fetching") /\ UNCHANGED <<account, tried, result, pool>>

\* Who collects a stream fails if there was nothing in it, but for the websocket.
CollectsEdit(r) == kind[r] = "edit" /\ (Fails(r, "broken") \/ Pictured(r))
CollectsLite(r) == kind[r] = "lite" /\ (Fails(r, "broken") \/ Pictured(r))
CollectsFilm(r) == Video(r) /\ (Fails(r, "broken") \/ Pictured(r))
CollectsPaint(r) == kind[r] = "paint" /\ Pictured(r)
Works(r) ==
  /\ phase[r] = "working"
  /\ \E x \in Streamed(r) :
       IF x = "streamed"
       THEN CollectsEdit(r) \/ CollectsLite(r) \/ CollectsFilm(r) \/ CollectsPaint(r)
       ELSE Fails(r, x)
  /\ UNCHANGED <<cache, kind, left>>

\* download_asset
Fetched == {"bytes"} \cup Failure
\* A film whose fetch fails is handed on as a URL; a job is done with its account now.
Fetches(r) ==
  /\ phase[r] = "fetching"
  /\ \E x \in Fetched :
       IF x = "bytes"
       THEN /\ Goes(r, "saving") /\ UNCHANGED <<tried, result>>
            /\ IF kind[r] = "job" THEN Settles(r, "success") ELSE UNCHANGED <<account, pool>>
       ELSE IF kind[r] = "film" THEN Delivers(r) ELSE Fails(r, x)
  /\ UNCHANGED <<cache, kind, left>>

-----------------------------------------------------------------------------
(* Saving. Pictures and films are saved by a thread that outlives a cancelled request. *)

AsksForSave(r) ==
  /\ phase[r] = "saving" /\ AsksToSave(r, FileOf[r]) /\ Goes(r, "stored")
  /\ UNCHANGED <<kind, account, tried, result, left, pool>>
SavesAtOnce(r) ==
  /\ phase[r] = "saving" /\ SavesUncounted(r, FileOf[r]) /\ Delivers(r)
  /\ UNCHANGED <<kind, left>>
SaveReturns(r) ==
  /\ Commits(r)
  /\ IF phase[r] = "stored" THEN Delivers(r) ELSE UNCHANGED <<phase, account, tried, result, pool>>
  /\ UNCHANGED <<kind, left>>

\* Only a film survives a failed save, as a URL; the error is none that leads to another account.
Unsaved(r) == IF kind[r] = "film" THEN Delivers(r)
              ELSE Settles(r, "broken") /\ Ends(r, "failed") /\ UNCHANGED tried
SaveRaises(r) ==
  /\ \/ phase[r] = "saving" /\ limit[Home[r]] = 0 /\ UNCHANGED cache /\ Unsaved(r)
     \/ phase[r] = "stored" /\ SaveFails(r) /\ Unsaved(r)
     \/ phase[r] = "ended" /\ SaveFails(r) /\ UNCHANGED <<phase, account, tried, result, pool>>
  /\ UNCHANGED <<kind, left>>

-----------------------------------------------------------------------------
(* Cancellation *)

\* The task group of a lite batch cancels the other tasks when one fails; each settles its account
\* as if the account had failed.
Cancelled(r) ==
  /\ r \in Lite /\ phase[r] # "ended" /\ \E s \in Lite : result[s] = "failed"
  /\ Settles(r, "broken") /\ Ends(r, "cancelled")
  /\ UNCHANGED <<cache, kind, tried, left>>

\* The client of a stream leaves. The websocket generator ends with it; an edit settles its account
\* but the task that works with it goes on.
Leaves(r) ==
  /\ kind[r] \in {"edit", "paint"} /\ phase[r] \in {"working", "fetching", "saving", "stored"}
  /\ ~ left[r] /\ left' = [left EXCEPT ![r] = TRUE]
  /\ Settles(r, "broken")
  /\ IF kind[r] = "paint" THEN Ends(r, "cancelled") ELSE UNCHANGED <<phase, result>>
  /\ UNCHANGED <<cache, kind, tried>>

-----------------------------------------------------------------------------
(* The processes *)

RequestStep(r) ==
  \/ Reserves(r) \/ NoneLeft(r) \/ Probes(r) \/ Uploads(r) \/ Works(r) \/ Fetches(r)
  \/ AsksForSave(r) \/ SavesAtOnce(r) \/ SaveReturns(r) \/ SaveRaises(r) \/ Cancelled(r)

Beside == UNCHANGED <<lives, pool>>

\* The task dies with its worker: its job is lost, and the counts of the worker start anew.
Crashes(w) ==
  /\ Restarts(w)
  /\ LET lost == {r \in Request : Home[r] = w /\ Begun(r)} IN
     /\ phase' = [r \in Request |-> IF r \in lost THEN "ended" ELSE phase[r]]
     /\ result' = [r \in Request |-> IF r \in lost THEN "lost" ELSE result[r]]
     /\ account' = [r \in Request |-> IF r \in lost THEN NoAccount ELSE account[r]]
  /\ inflight' = [inflight EXCEPT ![w] = [a \in Account |-> 0]]
  /\ UNCHANGED <<kind, tried, left, usable>>

Console(t) == Beside /\ (RemovalBegins(t) \/ \E m \in Limit : SavesLimit(t, m))
Reconciled(t) == Beside /\ Commits(t)

Init ==
  /\ CacheInit
  /\ kind \in Mix
  /\ phase = [r \in Request |-> "new"] /\ result = [r \in Request |-> "none"]
  /\ account = [r \in Request |-> NoAccount] /\ tried = [r \in Request |-> {}]
  /\ left = [r \in Request |-> FALSE]
  /\ inflight = [w \in Worker |-> [a \in Account |-> 0]] /\ usable = Account

Next ==
  \/ \E r \in Request : RequestStep(r) \/ Leaves(r)
  \/ \E t \in Thread : CacheStep(t) /\ Beside
  \/ \E t \in Admin : Console(t)
  \/ \E t \in Keeper : Reconciled(t)
  \/ \E w \in Worker : LoadsLimit(w) /\ Beside
  \/ \E w \in Worker : Crashes(w)

Spec == Init /\ [][Next]_vars

\* What has begun goes on: tasks, and threads under the lock.
ThreadStep(t) ==
  \/ CacheStep(t) /\ Beside
  \/ t \in Request /\ ((Begun(t) /\ RequestStep(t)) \/ SaveReturns(t))
  \/ t \in Keeper /\ Reconciled(t)
FairSpec == Spec /\ \A t \in Thread : WF_vars(ThreadStep(t))

-----------------------------------------------------------------------------
MediaTypeOK ==
  /\ CacheTypeOK
  /\ phase \in [Request -> {"new", "probing", "uploading", "working", "fetching", "saving", "stored", "ended"}]
  /\ result \in [Request -> {"none", "ok", "failed", "cancelled", "lost"}]
  /\ account \in [Request -> Account \cup {NoAccount}] /\ tried \in [Request -> SUBSET Account]
  /\ left \in [Request -> BOOLEAN] /\ usable \subseteq Account
  /\ inflight \in [Worker -> [Account -> 0..Cardinality(Request)]]

\* The in-flight count of an account in a worker is the number of the worker's requests that hold
\* it, through probes, retries, cancelled batches, clients that leave and restarts; a request that
\* is over holds none, so an answered batch leaves no account in use.
LeasesSettle ==
  /\ \A w \in Worker, a \in Account :
       inflight[w][a] = Cardinality({r \in Request : Home[r] = w /\ account[r] = a})
  /\ \A r \in Request : phase[r] = "ended" => account[r] = NoAccount

\* Whatever has begun ends: also a request that waits for the lock while another worker, who may
\* die there, saves, trims or clears; a job does not stay in progress for ever. (A request begins
\* once, so a time when none is under way comes for each of them.)
RequestsEnd == (\E r \in Request : Begun(r)) ~> (\A r \in Request : ~ Begun(r))
=============================================================================
