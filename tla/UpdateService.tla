--------------------------- MODULE UpdateService ---------------------------
(***************************************************************************)
(* Everything that asks the Downloader: UpdatableFile with its cache and   *)
(* its dirty marks, the configuration (ReaderConfiguration,                *)
(* ProviderConfiguration) that marks the images it names, AppUpdater and   *)
(* the Service that starts them. Main thread; the slots of a signal run    *)
(* inside the step that emits it.                                          *)
(*                                                                         *)
(* A version of the configuration is published together with the images it *)
(* names. Published configurations can be parsed, a torn one cannot. The   *)
(* program may be killed between two slots, not in the middle of one.      *)
(***************************************************************************)
EXTENDS Downloader

CONSTANTS
  Config,        \* the configuration file, a member of Files
  MaxChecks,     \* bound: checks for an update of the application at once
  MaxQueue       \* bound: requests and posted calls that wait

ASSUME ConfigAssumption == Config \in Files /\ AppUrls = {"json", "notes"}
ASSUME ChecksAssumption == MaxChecks \in Nat /\ MaxQueue \in Nat

Images == Files \ {Config}

VARIABLES
  mUpdateRunning,  \* [Files -> an update runs, the file listens to the Downloader]
  dirty,           \* [Files -> there is a mark in the cache folder]
  cached,          \* [Files -> newest version in the cache folder, 0: none]
  torn,            \* [Files -> only a part of that version is there]
  lost,            \* history: [Images -> its last data did not reach the disk whole]
  infos,           \* version of the configuration that is in use
  named,           \* history: [versions of the configuration -> [Images -> version]]
  listening,       \* how often AppUpdater is connected to the Downloader
  mAppUpdateData,  \* AppUpdater knows a version and the URL of its notes
  mIgnoreNextVersionskip,
  posted,          \* calls posted to Service
  mUpdateScheduled

cacheVars == <<cached, torn, lost, infos>>
fileVars == <<mUpdateRunning, dirty, cached, torn, lost, infos, named>>
appVars  == <<listening, mAppUpdateData, mIgnoreNextVersionskip>>
serviceVars == <<posted, mUpdateScheduled>>
vars == <<downloadVars, fileVars, appVars, serviceVars>>

Calls == {"doConfigurationsUpdate", "doAppUpdate", "doAppUpdateIgnoringSkip"}

\* The ranges of all variables: versions stay below the bound, AppUpdater's
\* connections are never undone more often than they were made.
TypeOK ==
  /\ DownloadTypeOK
  /\ mUpdateRunning \in [Files -> BOOLEAN] /\ dirty \in [Files -> BOOLEAN]
  /\ cached \in [Files -> 0..MaxVersion] /\ torn \in [Files -> BOOLEAN]
  /\ lost \in [Images -> BOOLEAN] /\ infos \in 0..MaxVersion
  /\ named \in [0..MaxVersion -> [Images -> 0..MaxVersion]]
  /\ listening \in 0..MaxChecks
  /\ mAppUpdateData \in BOOLEAN /\ mIgnoreNextVersionskip \in BOOLEAN
  /\ posted \in Seq(Calls) /\ mUpdateScheduled \in BOOLEAN

Init ==
  /\ DownloadInit
  /\ mUpdateRunning = [f \in Files |-> FALSE] /\ dirty = [f \in Files |-> FALSE]
  /\ cached = [f \in Files |-> 0] /\ torn = [f \in Files |-> FALSE]
  /\ lost = [i \in Images |-> FALSE] /\ infos = 0
  /\ named = [v \in 0..MaxVersion |-> [i \in Images |-> IF v = 0 THEN 0 ELSE 1]]
  /\ listening = 0 /\ mAppUpdateData = FALSE /\ mIgnoreNextVersionskip = FALSE
  /\ posted = <<>> /\ mUpdateScheduled = TRUE

UnchangedWorld == UNCHANGED <<version, mApplicationExitInProgress, named>>

-----------------------------------------------------------------------------
(* UpdatableFile. *)

Update(f) ==
  /\ ~mUpdateRunning[f]
  /\ mUpdateRunning' = [mUpdateRunning EXCEPT ![f] = TRUE]
  /\ ScheduleDownload([url |-> f, since |-> cached[f]])
  /\ UnchangedWorld /\ UNCHANGED <<dirty, cacheVars>>

\* The user interface shows the image; a running update is not started again.
LookupPath(i) == dirty[i] /\ Update(i) /\ UNCHANGED <<appVars, serviceVars>>

\* cleanupAfterUpdate: the reply of f is dealt with.
Cleanup(f) == mUpdateRunning' = [mUpdateRunning EXCEPT ![f] = FALSE]

\* onFileUpdated of the configuration: every image it names is marked.
MarkedAfter(f) == IF f = Config THEN [g \in Files |-> g # Config] ELSE [dirty EXCEPT ![f] = FALSE]

Saves(f, v) ==
  /\ v > cached[f]
  /\ cached' = [cached EXCEPT ![f] = v] /\ torn' = [torn EXCEPT ![f] = FALSE]
  /\ lost' = [i \in Images |-> lost[i] /\ i # f]
  /\ infos' = IF f = Config THEN v ELSE infos
  /\ dirty' = MarkedAfter(f)

\* A part of the file is saved under the name of the whole: the disk is full,
\* or the reply was broken off after its headers. The mark goes all the same;
\* a configuration that cannot be parsed is not put to use.
SavesPart(f, v) ==
  /\ v > cached[f]
  /\ cached' = [cached EXCEPT ![f] = v] /\ torn' = [torn EXCEPT ![f] = TRUE]
  /\ lost' = [i \in Images |-> lost[i] \/ i = f]
  /\ dirty' = [dirty EXCEPT ![f] = FALSE]
  /\ UNCHANGED infos

\* The file is there already, or cannot be opened; the mark goes here as well.
DoesNotSave(f, v) ==
  /\ lost' = [i \in Images |-> lost[i] \/ (i = f /\ v > cached[f])]
  /\ dirty' = [dirty EXCEPT ![f] = FALSE]
  /\ UNCHANGED <<cached, torn, infos>>

OnDownloadSuccess(f) ==
  /\ \E v \in 1..MaxVersion : Brings(v) /\ (Saves(f, v) \/ SavesPart(f, v) \/ DoesNotSave(f, v))
  /\ Cleanup(f)

\* The headers have come with status 200, the rest will not: the Downloader
\* looks at the status only, and what there is arrives as a success.
OnDownloadCutShort(f) ==
  /\ \E v \in 1..MaxVersion : Brings(v) /\ (SavesPart(f, v) \/ DoesNotSave(f, v))
  /\ Cleanup(f)

OnDownloadUnnecessary(f) ==
  /\ IsUnmodified
  /\ dirty' = [dirty EXCEPT ![f] = FALSE]
  /\ Cleanup(f) /\ UNCHANGED cacheVars

\* Mutant: the mark goes.
OnDownloadFailedMutant(f) ==
  Cleanup(f) /\ dirty' = [dirty EXCEPT ![f] = FALSE] /\ UNCHANGED cacheVars
\* The mark stays: the next lookup tries again.
OnDownloadFailed(f) == Cleanup(f) /\ UNCHANGED <<dirty, cacheVars>>

\* A timeout or a cut connection fails before the headers and is a success
\* with a part of the file after them.
ReplyToFile ==
  /\ mCurrentReply.url \in Files
  /\ LET f == mCurrentReply.url IN
       \/ ~mApplicationExitInProgress /\ OnDownloadSuccess(f)
       \/ ~mApplicationExitInProgress /\ OnDownloadUnnecessary(f)
       \/ OnDownloadFailed(f)
  /\ Finished(<<>>)
  /\ UnchangedWorld /\ UNCHANGED <<appVars, serviceVars>>

-----------------------------------------------------------------------------
(* AppUpdater. *)

NotesRequest == [url |-> "notes", since |-> 0]
Times(n, r) == [k \in 1..n |-> r]

\* connect is not unique: a check during another connects once more.
CheckAppUpdate(ignore) ==
  /\ listening < MaxChecks
  /\ listening' = listening + 1 /\ mAppUpdateData' = FALSE
  /\ mIgnoreNextVersionskip' = ignore
  /\ ScheduleDownload([url |-> "json", since |-> 0])
  /\ UnchangedWorld /\ UNCHANGED fileVars

\* clearDownloaderConnection disconnects all of them at once.
ClearDownloaderConnection == listening' = 0

\* A newer version, not to be skipped: every connection asks for the notes.
NewVersion ==
  /\ mAppUpdateData' = TRUE /\ mIgnoreNextVersionskip' = FALSE
  /\ UNCHANGED listening
  /\ Finished(Times(listening, NotesRequest))

\* A version to be skipped. The first connection may ignore that once, a
\* second one skips it then.
SkippedVersion ==
  /\ mAppUpdateData' = TRUE /\ mIgnoreNextVersionskip' = FALSE
  /\ IF mIgnoreNextVersionskip /\ listening = 1 THEN UNCHANGED listening ELSE ClearDownloaderConnection
  /\ Finished(IF mIgnoreNextVersionskip THEN <<NotesRequest>> ELSE <<>>)

NoNewVersion ==
  /\ mAppUpdateData' = TRUE /\ UNCHANGED mIgnoreNextVersionskip
  /\ ClearDownloaderConnection /\ Finished(<<>>)

\* The list of versions did not come or cannot be parsed.
CheckFailed ==
  /\ UNCHANGED <<mAppUpdateData, mIgnoreNextVersionskip>>
  /\ ClearDownloaderConnection /\ Finished(<<>>)

\* The notes have come or have failed: the check is reported, if it is still
\* about the version these notes belong to.
Notes ==
  /\ IF mAppUpdateData THEN ClearDownloaderConnection ELSE UNCHANGED listening
  /\ UNCHANGED <<mAppUpdateData, mIgnoreNextVersionskip>>
  /\ Finished(<<>>)

\* Mutant: an answer nobody listens to takes a connection away.
UnheardMutant ==
  /\ listening' = listening - 1 /\ UNCHANGED <<mAppUpdateData, mIgnoreNextVersionskip>>
  /\ Finished(<<>>)
Unheard == UNCHANGED appVars /\ Finished(<<>>)

ReplyToApp ==
  /\ mCurrentReply.url \in AppUrls
  /\ IF listening = 0 THEN Unheard
     ELSE IF mCurrentReply.url = "notes" THEN Notes
     ELSE \/ ~mApplicationExitInProgress /\ NewVersion
          \/ ~mApplicationExitInProgress /\ SkippedVersion
          \/ ~mApplicationExitInProgress /\ NoNewVersion
          \/ CheckFailed
  /\ UnchangedWorld /\ UNCHANGED <<mUpdateRunning, dirty, cacheVars, serviceVars>>

-----------------------------------------------------------------------------
(* Service. *)

PostCalls(calls) == Len(posted) + Len(calls) <= MaxQueue /\ posted' = posted \o calls

UpdateApp ==
  /\ PostCalls(<<"doAppUpdateIgnoringSkip">>)
  /\ UNCHANGED <<mUpdateScheduled, downloadVars, fileVars, appVars>>

RunUpdateIfNeeded ==
  /\ mUpdateScheduled /\ mUpdateScheduled' = FALSE
  /\ \/ PostCalls(<<"doConfigurationsUpdate">>)
     \/ PostCalls(<<"doConfigurationsUpdate", "doAppUpdate">>)
  /\ UNCHANGED <<downloadVars, fileVars, appVars>>

\* A day has passed.
OnTimedUpdateTriggered ==
  /\ mUpdateScheduled' = TRUE
  /\ UNCHANGED <<posted, downloadVars, fileVars, appVars>>

DoConfigurationsUpdate ==
  IF mUpdateRunning[Config] THEN UNCHANGED <<downloadVars, fileVars, appVars>>
  ELSE Update(Config) /\ UNCHANGED appVars

CallService ==
  /\ posted # <<>> /\ posted' = Tail(posted)
  /\ Len(mPendingRequests) < MaxQueue
  /\ \/ Head(posted) = "doConfigurationsUpdate" /\ DoConfigurationsUpdate
     \/ Head(posted) = "doAppUpdate" /\ CheckAppUpdate(FALSE)
     \/ Head(posted) = "doAppUpdateIgnoringSkip" /\ CheckAppUpdate(TRUE)
  /\ UNCHANGED mUpdateScheduled

-----------------------------------------------------------------------------
(* The end of the program and its next start; the cache folder survives.   *)

\* The reply that runs is aborted, before its headers or after them.
OnShutdown ==
  /\ ~mApplicationExitInProgress /\ mApplicationExitInProgress' = TRUE
  /\ IF mCurrentReply.url \in Files
     THEN /\ OnDownloadFailed(mCurrentReply.url) \/ OnDownloadCutShort(mCurrentReply.url)
          /\ Finished(<<>>) /\ UNCHANGED appVars
     ELSE /\ UNCHANGED <<mUpdateRunning, dirty, cacheVars>>
          /\ IF mCurrentReply = NoReply
             THEN UNCHANGED <<mPendingRequests, mCurrentReply, appVars>>
             ELSE IF listening = 0 THEN Unheard
             ELSE IF mCurrentReply.url = "notes" THEN Notes
             ELSE CheckFailed
  /\ UNCHANGED <<version, named, serviceVars>>

Restart ==
  /\ mPendingRequests' = <<>> /\ mCurrentReply' = NoReply
  /\ mApplicationExitInProgress' = FALSE
  /\ mUpdateRunning' = [f \in Files |-> FALSE]
  /\ infos' = IF torn[Config] THEN 0 ELSE cached[Config]
  /\ listening' = 0 /\ mAppUpdateData' = FALSE /\ mIgnoreNextVersionskip' = FALSE
  /\ posted' = <<>> /\ mUpdateScheduled' = TRUE
  /\ UNCHANGED <<version, named, dirty, cached, torn, lost>>

\* The world: a new image is published with a configuration that names it.
Publish(i) ==
  /\ version[i] < MaxVersion /\ version[Config] < MaxVersion
  /\ version' = [version EXCEPT ![i] = @ + 1, ![Config] = @ + 1]
  /\ named' = [named EXCEPT ![version[Config] + 1] = [j \in Images |-> version'[j]]]
  /\ UNCHANGED <<mPendingRequests, mCurrentReply, mApplicationExitInProgress>>
  /\ UNCHANGED <<mUpdateRunning, dirty, cacheVars, appVars, serviceVars>>

-----------------------------------------------------------------------------
Network == ReplyToFile \/ ReplyToApp

Next ==
  \/ Network
  \/ CallService
  \/ \E i \in Images : LookupPath(i) \/ Publish(i)
  \/ UpdateApp
  \/ RunUpdateIfNeeded
  \/ OnTimedUpdateTriggered
  \/ OnShutdown
  \/ Restart

\* Every reply ends, by its timeout at the latest (NetworkReplyTimeout).
Spec == Init /\ [][Next]_vars /\ WF_vars(Network)

-----------------------------------------------------------------------------
(* Properties. *)

\* Who waits for an answer of the Downloader is among those who will get one:
\* an update that runs has its request in the queue or on the way, and a check
\* of AppUpdater waits for the list of versions or for the notes of the one it
\* knows. An abort that re-enters the finished handler, a duplicate connection
\* or a request scheduled from a slot must not lose one.
WaitersAreServed ==
  /\ \A f \in Files : mUpdateRunning[f] => f \in Outstanding
  /\ listening > 0 => "json" \in Outstanding \/ (mAppUpdateData /\ "notes" \in Outstanding)
  /\ mCurrentReply = NoReply => mPendingRequests = <<>>

\* An image that is not marked is whole and as new as the configuration in
\* use names it, unless its last data did not reach the disk whole (the disk
\* refused it, or a reply was broken off after its headers; the code takes
\* the mark of those away): no other update of an image is lost, neither by
\* one that runs while the configuration changes nor by a restart.
FreshOrDirty ==
  \A i \in Images : dirty[i] \/ lost[i] \/ (~torn[i] /\ cached[i] >= named[infos][i])

\* Every update of a file and every check of AppUpdater comes to an end.
UpdatesEnd ==
  /\ \A f \in Files : mUpdateRunning[f] ~> ~mUpdateRunning[f]
  /\ (listening > 0) ~> (listening = 0)
=============================================================================
