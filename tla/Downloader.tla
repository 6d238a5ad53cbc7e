----------------------------- MODULE Downloader -----------------------------
(***************************************************************************)
(* The Downloader: one queue of requests to the update server, one reply   *)
(* at a time. Everybody who has asked for something listens to the same    *)
(* three signals and recognises its answer by the URL.                     *)
(*                                                                         *)
(* The update server is external. It holds a version of every file; a      *)
(* reply carries the version of some moment between its start and its end. *)
(***************************************************************************)
EXTENDS Naturals, Sequences

CONSTANTS
  Files,          \* the files that are updated from the server
  AppUrls,        \* what AppUpdater downloads
  MaxVersion      \* bound: versions the server publishes of a file

Urls == Files \cup AppUrls

ASSUME UrlsAssumption == "none" \notin Urls /\ Files \cap AppUrls = {}
ASSUME VersionAssumption == MaxVersion \in Nat \ {0}

VARIABLES
  mPendingRequests, \* sequence of requests [url, since]
  mCurrentReply,    \* NoReply or the running one [url, since, from]
  version,          \* [Files -> version the server holds] (the world)
  mApplicationExitInProgress

downloadVars == <<mPendingRequests, mCurrentReply, version, mApplicationExitInProgress>>

\* "since" is the timestamp of If-Modified-Since, 0 when there is none.
Requests == [url : Urls, since : Nat]
NoReply == [url |-> "none", since |-> 0, from |-> 0]
Replies == [url : Urls, since : Nat, from : Nat]

DownloadTypeOK ==
  /\ mPendingRequests \in Seq(Requests)
  /\ mCurrentReply \in Replies \cup {NoReply}
  /\ version \in [Files -> 1..MaxVersion]
  /\ mApplicationExitInProgress \in BOOLEAN

DownloadInit ==
  /\ mPendingRequests = <<>> /\ mCurrentReply = NoReply
  /\ version = [f \in Files |-> 1]
  /\ mApplicationExitInProgress = FALSE

Reply(r) ==
  [url |-> r.url, since |-> r.since, from |-> IF r.url \in Files THEN version[r.url] ELSE 0]

\* No reply is running and queue is what waits.
StartDownloadIfPending(queue) ==
  IF queue = <<>>
  THEN mPendingRequests' = <<>> /\ mCurrentReply' = NoReply
  ELSE mPendingRequests' = Tail(queue) /\ mCurrentReply' = Reply(Head(queue))

\* Mutant: a request that comes while a reply runs is lost.
ScheduleDownloadMutant(r) ==
  IF mCurrentReply = NoReply
  THEN StartDownloadIfPending(Append(mPendingRequests, r))
  ELSE UNCHANGED <<mPendingRequests, mCurrentReply>>
ScheduleDownload(r) ==
  IF mCurrentReply = NoReply
  THEN StartDownloadIfPending(Append(mPendingRequests, r))
  ELSE mPendingRequests' = Append(mPendingRequests, r) /\ UNCHANGED mCurrentReply

\* Mutant: the next request is not started.
FinishedMutant(more) ==
  mPendingRequests' = mPendingRequests \o more /\ mCurrentReply' = NoReply
\* The end of onNetworkReplyFinished, where its guard releases the reply;
\* the slots of its signal have scheduled more meanwhile.
Finished(more) == StartDownloadIfPending(mPendingRequests \o more)

\* What a reply may bring: a version of the file, or that there is none newer.
Brings(v) == v \in mCurrentReply.from..version[mCurrentReply.url]
IsUnmodified == \E v \in 1..mCurrentReply.since : Brings(v)

\* The URLs that have been asked for and not been answered.
Outstanding ==
  {mPendingRequests[k].url : k \in DOMAIN mPendingRequests} \cup ({mCurrentReply.url} \cap Urls)
=============================================================================
