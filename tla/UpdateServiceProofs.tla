------------------------ MODULE UpdateServiceProofs ------------------------
(***************************************************************************)
(* UpdateService for any files, any number of versions and checks: type    *)
(* correctness, that nobody waits for an answer that will not come, and    *)
(* that no update of an image is lost.                                     *)
(***************************************************************************)
EXTENDS UpdateService, SequenceTheorems, TLAPS

UrlsOf(q) == {q[k].url : k \in DOMAIN q}

-----------------------------------------------------------------------------
(* Queues of requests. *)

LEMMA HeadAndTail ==
  ASSUME NEW q \in Seq(Requests), q # <<>>
  PROVE  /\ Head(q) \in Requests /\ Tail(q) \in Seq(Requests)
         /\ 1 \in DOMAIN q /\ Head(q) = q[1]
         /\ \A k \in DOMAIN Tail(q) : k + 1 \in DOMAIN q /\ Tail(q)[k] = q[k + 1]
         /\ UrlsOf(q) = {Head(q).url} \cup UrlsOf(Tail(q))
<1>1. /\ Head(q) \in Requests /\ Tail(q) \in Seq(Requests)
      /\ Len(Tail(q)) = Len(q) - 1
      /\ \A i \in 1 .. Len(Tail(q)) : Tail(q)[i] = q[i + 1]
  BY HeadTailProperties
<1>2. /\ DOMAIN q = 1 .. Len(q) /\ DOMAIN Tail(q) = 1 .. (Len(q) - 1)
      /\ Len(q) \in Nat \ {0}
  BY <1>1, LenProperties, EmptySeq
<1>3. 1 \in DOMAIN q /\ Head(q) = q[1]
  BY <1>2
<1>4. ASSUME NEW k \in DOMAIN Tail(q) PROVE k + 1 \in DOMAIN q /\ Tail(q)[k] = q[k + 1]
  BY <1>1, <1>2
<1>5. ASSUME NEW k \in DOMAIN q, k # 1 PROVE k - 1 \in DOMAIN Tail(q) /\ Tail(q)[k - 1] = q[k]
  <2>1. k \in Nat /\ k - 1 \in 1 .. Len(Tail(q)) /\ (k - 1) + 1 = k
    BY <1>1, <1>2, <1>5
  <2>2. Tail(q)[k - 1] = q[(k - 1) + 1]
    BY <1>1, <2>1
  <2> QED BY <1>1, <1>2, <2>1, <2>2
<1>6. UrlsOf(q) \subseteq {Head(q).url} \cup UrlsOf(Tail(q))
  <2> SUFFICES ASSUME NEW k \in DOMAIN q PROVE q[k].url \in {Head(q).url} \cup UrlsOf(Tail(q))
    BY DEF UrlsOf
  <2> QED BY <1>3, <1>5 DEF UrlsOf
<1>7. {Head(q).url} \cup UrlsOf(Tail(q)) \subseteq UrlsOf(q)
  BY <1>3, <1>4 DEF UrlsOf
<1> QED BY <1>1, <1>3, <1>4, <1>6, <1>7

LEMMA Concatenated ==
  ASSUME NEW q \in Seq(Requests), NEW more \in Seq(Requests)
  PROVE  /\ q \o more \in Seq(Requests)
         /\ UrlsOf(q \o more) = UrlsOf(q) \cup UrlsOf(more)
         /\ \A k \in DOMAIN (q \o more) :
              \/ k \in DOMAIN q /\ (q \o more)[k] = q[k]
              \/ \E j \in DOMAIN more : (q \o more)[k] = more[j]
<1>1. /\ q \o more \in Seq(Requests)
      /\ Len(q \o more) = Len(q) + Len(more)
      /\ \A i \in 1 .. Len(q) + Len(more) :
           (q \o more)[i] = IF i <= Len(q) THEN q[i] ELSE more[i - Len(q)]
  BY ConcatProperties
<1>2. /\ DOMAIN q = 1 .. Len(q) /\ DOMAIN more = 1 .. Len(more)
      /\ DOMAIN (q \o more) = 1 .. (Len(q) + Len(more))
      /\ Len(q) \in Nat /\ Len(more) \in Nat
  BY <1>1, LenProperties
<1>3. ASSUME NEW k \in DOMAIN (q \o more)
      PROVE  \/ k \in DOMAIN q /\ (q \o more)[k] = q[k]
             \/ \E j \in DOMAIN more : (q \o more)[k] = more[j]
  <2>1. CASE k <= Len(q)
    BY <2>1, <1>1, <1>2
  <2>2. CASE ~(k <= Len(q))
    <3>1. k - Len(q) \in DOMAIN more /\ (q \o more)[k] = more[k - Len(q)]
      BY <2>2, <1>1, <1>2
    <3> QED BY <3>1
  <2> QED BY <2>1, <2>2
<1>4. ASSUME NEW k \in DOMAIN q PROVE k \in DOMAIN (q \o more) /\ (q \o more)[k] = q[k]
  BY <1>1, <1>2
<1>5. ASSUME NEW k \in DOMAIN more
      PROVE  k + Len(q) \in DOMAIN (q \o more) /\ (q \o more)[k + Len(q)] = more[k]
  BY <1>1, <1>2
<1>6. UrlsOf(q \o more) \subseteq UrlsOf(q) \cup UrlsOf(more)
  <2> SUFFICES ASSUME NEW k \in DOMAIN (q \o more)
               PROVE  (q \o more)[k].url \in UrlsOf(q) \cup UrlsOf(more)
    BY DEF UrlsOf
  <2> QED BY <1>3 DEF UrlsOf
<1>7. UrlsOf(q) \subseteq UrlsOf(q \o more)
  BY <1>4 DEF UrlsOf
<1>8. UrlsOf(more) \subseteq UrlsOf(q \o more)
  BY <1>5 DEF UrlsOf
<1> QED BY <1>1, <1>3, <1>6, <1>7, <1>8

LEMMA Single ==
  ASSUME NEW r \in Requests
  PROVE  <<r>> \in Seq(Requests) /\ UrlsOf(<<r>>) = {r.url} /\ DOMAIN <<r>> = {1} /\ <<r>>[1] = r
BY DEF UrlsOf

LEMMA AppendAsConcat ==
  ASSUME NEW q \in Seq(Requests), NEW r \in Requests
  PROVE  Append(q, r) = q \o <<r>>
OBVIOUS

-----------------------------------------------------------------------------
(* What a call of the Downloader leaves in its queue. *)

LEMMA Started ==
  ASSUME TypeOK, NEW q \in Seq(Requests), StartDownloadIfPending(q)
  PROVE  /\ mPendingRequests' \in Seq(Requests) /\ mCurrentReply' \in Replies \cup {NoReply}
         /\ Outstanding' = UrlsOf(q)
         /\ mCurrentReply' = NoReply => mPendingRequests' = <<>>
         /\ \A k \in DOMAIN mPendingRequests' : \E j \in DOMAIN q : mPendingRequests'[k] = q[j]
         /\ mCurrentReply' = NoReply \/ \E j \in DOMAIN q : mCurrentReply' = Reply(q[j])
<1>1. CASE q = <<>>
  <2>1. mPendingRequests' = <<>> /\ mCurrentReply' = NoReply
    BY <1>1 DEF StartDownloadIfPending
  <2>2. Outstanding' = {} /\ UrlsOf(q) = {}
    BY <1>1, <2>1, UrlsAssumption DEF Outstanding, UrlsOf, NoReply
  <2> QED BY <2>1, <2>2
<1>2. CASE q # <<>>
  <2>1. mPendingRequests' = Tail(q) /\ mCurrentReply' = Reply(Head(q))
    BY <1>2 DEF StartDownloadIfPending
  <2>2. Reply(Head(q)) \in Replies /\ Reply(Head(q)).url = Head(q).url /\ Head(q).url \in Urls
    <3>1. Head(q) \in Requests
      BY <1>2, HeadAndTail
    <3>2. Head(q).url \in Urls /\ Head(q).since \in Nat
      BY <3>1 DEF Requests
    <3>3. Head(q).url \in Files => version[Head(q).url] \in Nat
      BY VersionAssumption DEF TypeOK, DownloadTypeOK
    <3> QED BY <3>2, <3>3 DEF Reply, Replies
  <2>3. mCurrentReply' # NoReply
    BY <2>1, <2>2, UrlsAssumption DEF NoReply
  <2>4. Outstanding' = UrlsOf(Tail(q)) \cup {Head(q).url}
    BY <2>1, <2>2 DEF Outstanding, UrlsOf
  <2> QED BY <1>2, <2>1, <2>2, <2>3, <2>4, HeadAndTail
<1> QED BY <1>1, <1>2

Quiet == mCurrentReply = NoReply => mPendingRequests = <<>>

LEMMA Finishes ==
  ASSUME TypeOK, NEW more \in Seq(Requests), Finished(more)
  PROVE  /\ mPendingRequests' \in Seq(Requests) /\ mCurrentReply' \in Replies \cup {NoReply}
         /\ Quiet'
         /\ Outstanding' = UrlsOf(mPendingRequests) \cup UrlsOf(more)
<1>1. mPendingRequests \in Seq(Requests)
  BY DEF TypeOK, DownloadTypeOK
<1>2. /\ mPendingRequests \o more \in Seq(Requests)
      /\ UrlsOf(mPendingRequests \o more) = UrlsOf(mPendingRequests) \cup UrlsOf(more)
  BY <1>1, Concatenated
<1> QED BY <1>2, Started DEF Finished, Quiet

LEMMA Scheduled ==
  ASSUME TypeOK, Quiet, NEW r \in Requests, ScheduleDownload(r)
  PROVE  /\ mPendingRequests' \in Seq(Requests) /\ mCurrentReply' \in Replies \cup {NoReply}
         /\ Quiet'
         /\ Outstanding' = Outstanding \cup {r.url}
<1>1. mPendingRequests \in Seq(Requests) /\ mCurrentReply \in Replies \cup {NoReply}
  BY DEF TypeOK, DownloadTypeOK
<1>2. /\ Append(mPendingRequests, r) \in Seq(Requests)
      /\ UrlsOf(Append(mPendingRequests, r)) = UrlsOf(mPendingRequests) \cup {r.url}
  <2>1. Append(mPendingRequests, r) = mPendingRequests \o <<r>>
    BY <1>1, AppendAsConcat
  <2>2. <<r>> \in Seq(Requests) /\ UrlsOf(<<r>>) = {r.url}
    BY Single
  <2>3. /\ mPendingRequests \o <<r>> \in Seq(Requests)
        /\ UrlsOf(mPendingRequests \o <<r>>) = UrlsOf(mPendingRequests) \cup UrlsOf(<<r>>)
    BY <1>1, <2>2, Concatenated, Zenon
  <2> QED BY <2>1, <2>2, <2>3, Zenon
<1>3. Outstanding = UrlsOf(mPendingRequests) \cup ({mCurrentReply.url} \cap Urls)
  BY DEF Outstanding, UrlsOf
<1>4. CASE mCurrentReply = NoReply
  <2>1. StartDownloadIfPending(Append(mPendingRequests, r))
    BY <1>4 DEF ScheduleDownload
  <2>2. {mCurrentReply.url} \cap Urls = {}
    BY <1>4, UrlsAssumption DEF NoReply
  <2> QED BY <1>2, <1>3, <2>1, <2>2, Started DEF Quiet
<1>5. CASE mCurrentReply # NoReply
  <2>1. mPendingRequests' = Append(mPendingRequests, r) /\ mCurrentReply' = mCurrentReply
    BY <1>5 DEF ScheduleDownload
  <2>2. Outstanding' = UrlsOf(Append(mPendingRequests, r)) \cup ({mCurrentReply.url} \cap Urls)
    BY <2>1 DEF Outstanding, UrlsOf
  <2> QED BY <1>1, <1>2, <1>3, <1>5, <2>1, <2>2 DEF Quiet
<1> QED BY <1>4, <1>5

-----------------------------------------------------------------------------
(* Types, and that who waits is served. *)

Served == TypeOK /\ WaitersAreServed

FileTypes == /\ mUpdateRunning \in [Files -> BOOLEAN] /\ dirty \in [Files -> BOOLEAN]
             /\ cached \in [Files -> 0..MaxVersion] /\ torn \in [Files -> BOOLEAN]
             /\ lost \in [Images -> BOOLEAN] /\ infos \in 0..MaxVersion

(* The slots of UpdatableFile for the reply of f. *)
FileReply(f) ==
  \/ OnDownloadSuccess(f) \/ OnDownloadCutShort(f)
  \/ OnDownloadUnnecessary(f) \/ OnDownloadFailed(f)

LEMMA Data ==
  ASSUME NEW f \in Files, OnDownloadSuccess(f) \/ OnDownloadCutShort(f)
  PROVE  \E v \in 1..MaxVersion : Brings(v) /\ (Saves(f, v) \/ SavesPart(f, v) \/ DoesNotSave(f, v))
BY DEF OnDownloadSuccess, OnDownloadCutShort

LEMMA FileAnswered ==
  ASSUME TypeOK, NEW f \in Files, FileReply(f)
  PROVE  FileTypes' /\ mUpdateRunning' = [mUpdateRunning EXCEPT ![f] = FALSE]
<1>1. FileTypes /\ MaxVersion \in Nat
  BY VersionAssumption DEF TypeOK, FileTypes
<1>2. mUpdateRunning' = [mUpdateRunning EXCEPT ![f] = FALSE]
  BY DEF FileReply, OnDownloadSuccess, OnDownloadCutShort, OnDownloadUnnecessary,
         OnDownloadFailed, Cleanup
<1>3. mUpdateRunning' \in [Files -> BOOLEAN]
  BY <1>1, <1>2 DEF FileTypes
<1>4. CASE OnDownloadSuccess(f) \/ OnDownloadCutShort(f)
  <2>1. PICK v \in 1..MaxVersion : Saves(f, v) \/ SavesPart(f, v) \/ DoesNotSave(f, v)
    BY <1>4, Data
  <2>2. v \in 0..MaxVersion
    BY <1>1
  <2>3. lost' \in [Images -> BOOLEAN]
    BY <2>1 DEF Saves, SavesPart, DoesNotSave
  <2>4. dirty' \in [Files -> BOOLEAN]
    BY <1>1, <2>1 DEF Saves, SavesPart, DoesNotSave, MarkedAfter, FileTypes
  <2>5. cached' \in [Files -> 0..MaxVersion] /\ torn' \in [Files -> BOOLEAN]
    BY <1>1, <2>1, <2>2 DEF Saves, SavesPart, DoesNotSave, FileTypes
  <2>6. infos' \in 0..MaxVersion
    BY <1>1, <2>1, <2>2 DEF Saves, SavesPart, DoesNotSave, FileTypes
  <2> QED BY <1>2, <1>3, <2>3, <2>4, <2>5, <2>6 DEF FileTypes
<1>5. CASE OnDownloadUnnecessary(f)
  <2>1. dirty' = [dirty EXCEPT ![f] = FALSE] /\ UNCHANGED cacheVars
    BY <1>5 DEF OnDownloadUnnecessary
  <2>2. dirty' \in [Files -> BOOLEAN]
    BY <1>1, <2>1 DEF FileTypes
  <2> QED BY <1>1, <1>2, <1>3, <2>1, <2>2 DEF FileTypes, cacheVars
<1>6. CASE OnDownloadFailed(f)
  BY <1>1, <1>2, <1>3, <1>6 DEF OnDownloadFailed, FileTypes, cacheVars
<1> QED BY <1>2, <1>4, <1>5, <1>6 DEF FileReply

(* What the other urls lose when a reply ends: nothing. *)
LEMMA OthersStay ==
  ASSUME TypeOK
  PROVE  \A u : u \in Outstanding /\ u # mCurrentReply.url => u \in UrlsOf(mPendingRequests)
BY DEF Outstanding, UrlsOf

LEMMA FileReplyServed ==
  ASSUME Served, NEW f \in Files, mCurrentReply.url = f,
         FileReply(f), Finished(<<>>), UNCHANGED <<version, named, appVars, serviceVars>>,
         mApplicationExitInProgress' \in BOOLEAN
  PROVE  Served'
<1>1. TypeOK
  BY DEF Served
<1>2. <<>> \in Seq(Requests) /\ UrlsOf(<<>>) = {}
  BY EmptySeq DEF UrlsOf
<1>3. /\ mPendingRequests' \in Seq(Requests) /\ mCurrentReply' \in Replies \cup {NoReply}
      /\ Quiet' /\ Outstanding' = UrlsOf(mPendingRequests)
  BY <1>1, <1>2, Finishes
<1>4. FileTypes' /\ mUpdateRunning' = [mUpdateRunning EXCEPT ![f] = FALSE]
  BY <1>1, FileAnswered
<1>5. TypeOK'
  BY <1>1, <1>3, <1>4 DEF TypeOK, DownloadTypeOK, FileTypes, appVars, serviceVars
<1>6. ASSUME NEW g \in Files, mUpdateRunning'[g] PROVE g \in Outstanding'
  <2>1. g # f /\ mUpdateRunning[g]
    BY <1>1, <1>4, <1>6 DEF TypeOK
  <2>2. g \in Outstanding
    BY <2>1 DEF Served, WaitersAreServed
  <2> QED BY <1>1, <1>3, <2>1, <2>2, OthersStay
<1>7. listening' > 0 => "json" \in Outstanding' \/ (mAppUpdateData' /\ "notes" \in Outstanding')
  <2>1. "json" # f /\ "notes" # f
    BY ConfigAssumption, UrlsAssumption
  <2>2. listening > 0 => "json" \in Outstanding \/ (mAppUpdateData /\ "notes" \in Outstanding)
    BY DEF Served, WaitersAreServed
  <2> QED BY <1>1, <1>3, <2>1, <2>2, OthersStay DEF appVars
<1> QED BY <1>3, <1>5, <1>6, <1>7 DEF Served, WaitersAreServed, Quiet

LEMMA NotesRequests ==
  /\ \A n \in Nat : /\ Times(n, NotesRequest) \in Seq(Requests)
                    /\ UrlsOf(Times(n, NotesRequest)) = IF n = 0 THEN {} ELSE {"notes"}
  /\ <<NotesRequest>> \in Seq(Requests) /\ UrlsOf(<<NotesRequest>>) = {"notes"}
  /\ <<>> \in Seq(Requests) /\ UrlsOf(<<>>) = {}
<1>1. NotesRequest \in Requests /\ NotesRequest.url = "notes"
  BY ConfigAssumption DEF NotesRequest, Requests, Urls
<1>2. ASSUME NEW n \in Nat
      PROVE  /\ Times(n, NotesRequest) \in Seq(Requests)
             /\ UrlsOf(Times(n, NotesRequest)) = IF n = 0 THEN {} ELSE {"notes"}
  <2>1. Times(n, NotesRequest) \in [1..n -> Requests]
    BY <1>1 DEF Times
  <2>2. Times(n, NotesRequest) \in Seq(Requests)
    BY <2>1, <1>2
  <2>3. UrlsOf(Times(n, NotesRequest)) = {NotesRequest.url : k \in 1..n}
    BY DEF UrlsOf, Times
  <2> QED BY <1>1, <1>2, <2>2, <2>3
<1>3. <<NotesRequest>> \in Seq(Requests) /\ UrlsOf(<<NotesRequest>>) = {"notes"}
  BY <1>1, Single
<1>4. <<>> \in Seq(Requests) /\ UrlsOf(<<>>) = {}
  BY EmptySeq DEF UrlsOf
<1> QED BY <1>2, <1>3, <1>4

(* What a step must leave of AppUpdater, for the queue it leaves. *)
AppServed == listening > 0 => "json" \in Outstanding \/ (mAppUpdateData /\ "notes" \in Outstanding)

AppTypes == listening \in 0..MaxChecks /\ mAppUpdateData \in BOOLEAN /\ mIgnoreNextVersionskip \in BOOLEAN

AppReply ==
  \/ listening = 0 /\ Unheard
  \/ listening # 0 /\ mCurrentReply.url = "notes" /\ Notes
  \/ /\ listening # 0 /\ mCurrentReply.url = "json"
     /\ NewVersion \/ SkippedVersion \/ NoNewVersion \/ CheckFailed

LEMMA AppReplied ==
  ASSUME Served, AppReply
  PROVE  /\ AppTypes' /\ AppServed' /\ Quiet'
         /\ mPendingRequests' \in Seq(Requests) /\ mCurrentReply' \in Replies \cup {NoReply}
         /\ UrlsOf(mPendingRequests) \subseteq Outstanding'
<1>1. /\ TypeOK /\ AppServed
      /\ listening \in 0..MaxChecks /\ mAppUpdateData \in BOOLEAN /\ mIgnoreNextVersionskip \in BOOLEAN
      /\ listening \in Nat /\ 0 \in 0..MaxChecks /\ MaxChecks \in Nat
  BY ChecksAssumption DEF Served, TypeOK, WaitersAreServed, AppServed
<1>2. ASSUME NEW more \in Seq(Requests), Finished(more)
      PROVE  /\ Quiet' /\ Outstanding' = UrlsOf(mPendingRequests) \cup UrlsOf(more)
             /\ mPendingRequests' \in Seq(Requests) /\ mCurrentReply' \in Replies \cup {NoReply}
  BY <1>1, <1>2, Finishes
<1>10. ASSUME Finished(<<>>) \/ Finished(<<NotesRequest>>)
       PROVE  /\ Quiet' /\ UrlsOf(mPendingRequests) \subseteq Outstanding'
              /\ mPendingRequests' \in Seq(Requests) /\ mCurrentReply' \in Replies \cup {NoReply}
  <2>1. CASE Finished(<<>>)
    BY <1>2, <2>1, NotesRequests
  <2>2. CASE Finished(<<NotesRequest>>)
    BY <1>2, <2>2, NotesRequests
  <2> QED BY <1>10, <2>1, <2>2
<1>3. CASE /\ Finished(<<>>) \/ Finished(<<NotesRequest>>)
           /\ listening' = 0 /\ mAppUpdateData' \in BOOLEAN
           /\ mIgnoreNextVersionskip' \in BOOLEAN
  <2>1. AppTypes' /\ AppServed'
    BY <1>1, <1>3 DEF AppTypes, AppServed
  <2> QED BY <1>3, <1>10, <2>1
<1>4. CASE listening = 0 /\ Unheard
  <2>1. Finished(<<>>) /\ listening' = 0 /\ mAppUpdateData' = mAppUpdateData
        /\ mIgnoreNextVersionskip' = mIgnoreNextVersionskip
    BY <1>4 DEF Unheard, appVars
  <2>2. mAppUpdateData' \in BOOLEAN /\ mIgnoreNextVersionskip' \in BOOLEAN
    BY <1>1, <2>1
  <2> QED BY <1>3, <2>1, <2>2
<1>5. CASE listening # 0 /\ mCurrentReply.url = "notes" /\ Notes
  <2>1. CASE mAppUpdateData
    BY <1>1, <1>3, <1>5, <2>1 DEF Notes, ClearDownloaderConnection
  <2>2. CASE ~mAppUpdateData
    <3>1. UNCHANGED appVars /\ Finished(<<>>)
      BY <1>5, <2>2 DEF Notes, appVars
    <3>2. "json" \in Outstanding
      BY <1>1, <1>5, <2>2 DEF AppServed
    <3>3. "json" \in UrlsOf(mPendingRequests)
      BY <1>1, <1>5, <3>2, OthersStay
    <3> QED BY <1>1, <1>2, <3>1, <3>3, NotesRequests DEF AppTypes, AppServed, appVars
  <2> QED BY <2>1, <2>2
<1>6. CASE listening # 0 /\ NewVersion
  <2>1. Finished(Times(listening, NotesRequest)) /\ listening' = listening
        /\ mAppUpdateData' = TRUE /\ mIgnoreNextVersionskip' = FALSE
    BY <1>6 DEF NewVersion
  <2> QED BY <1>1, <1>2, <1>6, <2>1, NotesRequests DEF AppTypes, AppServed
<1>7. CASE listening # 0 /\ SkippedVersion
  <2>1. mAppUpdateData' = TRUE /\ mIgnoreNextVersionskip' = FALSE
    BY <1>7 DEF SkippedVersion
  <2>2. CASE mIgnoreNextVersionskip /\ listening = 1
    <3>1. Finished(<<NotesRequest>>) /\ listening' = listening
      BY <1>7, <2>2 DEF SkippedVersion
    <3> QED BY <1>1, <1>2, <2>1, <3>1, NotesRequests DEF AppTypes, AppServed
  <2>3. CASE ~(mIgnoreNextVersionskip /\ listening = 1)
    <3>1. listening' = 0 /\ (Finished(<<NotesRequest>>) \/ Finished(<<>>))
      BY <1>7, <2>3 DEF SkippedVersion, ClearDownloaderConnection
    <3> QED BY <1>3, <2>1, <3>1
  <2> QED BY <2>2, <2>3
<1>8. CASE NoNewVersion \/ CheckFailed
  BY <1>1, <1>3, <1>8 DEF NoNewVersion, CheckFailed, ClearDownloaderConnection
<1>9. \/ listening = 0 /\ Unheard
      \/ listening # 0 /\ mCurrentReply.url = "notes" /\ Notes
      \/ listening # 0 /\ NewVersion
      \/ listening # 0 /\ SkippedVersion
      \/ NoNewVersion \/ CheckFailed
  BY DEF AppReply
<1> QED BY <1>4, <1>5, <1>6, <1>7, <1>8, <1>9

LEMMA AppReplyServed ==
  ASSUME Served, mCurrentReply.url \in AppUrls, AppReply,
         UNCHANGED <<version, named, mUpdateRunning, dirty, cacheVars, serviceVars>>,
         mApplicationExitInProgress' \in BOOLEAN
  PROVE  Served'
<1>1. TypeOK
  BY DEF Served
<1>2. /\ AppTypes' /\ AppServed' /\ Quiet'
      /\ mPendingRequests' \in Seq(Requests) /\ mCurrentReply' \in Replies \cup {NoReply}
      /\ UrlsOf(mPendingRequests) \subseteq Outstanding'
  BY AppReplied
<1>3. TypeOK'
  BY <1>1, <1>2 DEF TypeOK, DownloadTypeOK, AppTypes, cacheVars, serviceVars
<1>4. ASSUME NEW g \in Files, mUpdateRunning'[g] PROVE g \in Outstanding'
  <2>1. g \in Outstanding /\ g # mCurrentReply.url
    BY <1>4, UrlsAssumption DEF Served, WaitersAreServed
  <2> QED BY <1>1, <1>2, <2>1, OthersStay
<1> QED BY <1>2, <1>3, <1>4 DEF Served, WaitersAreServed, AppServed, Quiet

LEMMA Asked ==
  ASSUME Served, NEW r \in Requests, ScheduleDownload(r)
  PROVE  /\ mPendingRequests' \in Seq(Requests) /\ mCurrentReply' \in Replies \cup {NoReply}
         /\ Quiet' /\ Outstanding' = Outstanding \cup {r.url}
BY Scheduled DEF Served, WaitersAreServed, Quiet

LEMMA UpdateServed ==
  ASSUME Served, NEW f \in Files, Update(f), UNCHANGED appVars,
         posted' \in Seq(Calls), mUpdateScheduled' \in BOOLEAN
  PROVE  Served'
<1>1. TypeOK /\ cached[f] \in Nat
  BY VersionAssumption DEF Served, TypeOK
<1>2. [url |-> f, since |-> cached[f]] \in Requests
  BY <1>1 DEF Requests, Urls
<1>3. /\ mPendingRequests' \in Seq(Requests) /\ mCurrentReply' \in Replies \cup {NoReply}
      /\ Quiet' /\ Outstanding' = Outstanding \cup {f}
  BY <1>2, Asked DEF Update
<1>4. mUpdateRunning' = [mUpdateRunning EXCEPT ![f] = TRUE]
  BY DEF Update
<1>5. mUpdateRunning' \in [Files -> BOOLEAN]
  BY <1>1, <1>4 DEF TypeOK
<1>6. TypeOK'
  BY <1>1, <1>3, <1>5 DEF TypeOK, DownloadTypeOK, Update, UnchangedWorld, cacheVars, appVars
<1>7. ASSUME NEW g \in Files, mUpdateRunning'[g] PROVE g \in Outstanding'
  <2>1. g = f \/ mUpdateRunning[g]
    BY <1>1, <1>4, <1>7 DEF TypeOK
  <2> QED BY <1>3, <2>1 DEF Served, WaitersAreServed
<1>8. AppServed'
  BY <1>3 DEF AppServed, Served, WaitersAreServed, appVars
<1> QED BY <1>3, <1>6, <1>7, <1>8 DEF Served, WaitersAreServed, AppServed, Quiet

LEMMA CheckServed ==
  ASSUME Served, NEW ignore \in BOOLEAN, CheckAppUpdate(ignore),
         posted' \in Seq(Calls), mUpdateScheduled' \in BOOLEAN
  PROVE  Served'
<1>1. TypeOK
  BY DEF Served
<1>2. [url |-> "json", since |-> 0] \in Requests
  BY ConfigAssumption DEF Requests, Urls
<1>3. /\ mPendingRequests' \in Seq(Requests) /\ mCurrentReply' \in Replies \cup {NoReply}
      /\ Quiet' /\ Outstanding' = Outstanding \cup {"json"}
  BY <1>2, Asked DEF CheckAppUpdate
<1>4. listening' \in 0..MaxChecks
  BY <1>1, ChecksAssumption DEF TypeOK, CheckAppUpdate
<1>5. TypeOK'
  BY <1>1, <1>3, <1>4 DEF TypeOK, DownloadTypeOK, CheckAppUpdate, UnchangedWorld, fileVars
<1>6. ASSUME NEW g \in Files, mUpdateRunning'[g] PROVE g \in Outstanding'
  BY <1>3, <1>6 DEF Served, WaitersAreServed, CheckAppUpdate, fileVars
<1> QED BY <1>3, <1>5, <1>6 DEF Served, WaitersAreServed, Quiet

LEMMA CallServed ==
  ASSUME Served, CallService
  PROVE  Served'
<1>1. posted \in Seq(Calls) /\ posted # <<>> /\ posted' = Tail(posted)
      /\ mUpdateScheduled' \in BOOLEAN
  BY DEF Served, TypeOK, CallService
<1>2. posted' \in Seq(Calls)
  BY <1>1, HeadTailProperties
<1>3. CASE DoConfigurationsUpdate
  <2>1. CASE mUpdateRunning[Config]
    <3>1. UNCHANGED <<downloadVars, fileVars, appVars>>
      BY <1>3, <2>1 DEF DoConfigurationsUpdate
    <3> QED BY <1>1, <1>2, <3>1
            DEF Served, TypeOK, DownloadTypeOK, WaitersAreServed, Outstanding, downloadVars, fileVars, appVars
  <2>2. CASE ~mUpdateRunning[Config]
    BY <1>1, <1>2, <1>3, <2>2, UpdateServed, ConfigAssumption DEF DoConfigurationsUpdate
  <2> QED BY <2>1, <2>2
<1>4. CASE CheckAppUpdate(FALSE) \/ CheckAppUpdate(TRUE)
  BY <1>1, <1>2, <1>4, CheckServed
<1> QED BY <1>3, <1>4 DEF CallService

LEMMA ShutdownServed ==
  ASSUME Served, OnShutdown
  PROVE  Served'
<1>1. /\ mApplicationExitInProgress' \in BOOLEAN /\ UNCHANGED <<version, named, serviceVars>>
  BY DEF OnShutdown
<1>2. CASE mCurrentReply.url \in Files
  <2>1. FileReply(mCurrentReply.url) /\ Finished(<<>>) /\ UNCHANGED appVars
    BY <1>2 DEF OnShutdown, FileReply
  <2> QED BY <1>1, <1>2, <2>1, FileReplyServed
<1>3. CASE mCurrentReply.url \notin Files
  <2>1. UNCHANGED <<mUpdateRunning, dirty, cacheVars>>
    BY <1>3 DEF OnShutdown
  <2>2. CASE mCurrentReply = NoReply
    <3>1. UNCHANGED <<mPendingRequests, mCurrentReply, appVars>>
      BY <1>3, <2>2 DEF OnShutdown
    <3> QED BY <1>1, <2>1, <3>1
            DEF Served, TypeOK, DownloadTypeOK, WaitersAreServed, Outstanding,
                cacheVars, appVars, serviceVars
  <2>3. CASE mCurrentReply # NoReply
    <3>1. mCurrentReply.url \in {"json", "notes"}
      BY <1>3, <2>3, ConfigAssumption DEF Served, TypeOK, DownloadTypeOK, Replies, Urls
    <3>2. AppReply
      BY <1>3, <2>3, <3>1 DEF OnShutdown, AppReply
    <3> QED BY <1>1, <2>1, <3>1, <3>2, AppReplyServed, ConfigAssumption
  <2> QED BY <2>2, <2>3
<1> QED BY <1>2, <1>3

LEMMA RestartServed ==
  ASSUME Served, Restart
  PROVE  Served'
<1>1. mPendingRequests' \in Seq(Requests) /\ posted' \in Seq(Calls)
  BY EmptySeq DEF Restart
<1>2. /\ TypeOK
      /\ UNCHANGED <<version, named, dirty, cached, torn, lost>>
      /\ mCurrentReply' = NoReply /\ mApplicationExitInProgress' = FALSE
      /\ mUpdateRunning' = [f \in Files |-> FALSE]
      /\ infos' = (IF torn[Config] THEN 0 ELSE cached[Config])
      /\ listening' = 0 /\ mAppUpdateData' = FALSE /\ mIgnoreNextVersionskip' = FALSE
      /\ mUpdateScheduled' = TRUE
  BY DEF Served, Restart
<1>3. DownloadTypeOK'
  BY <1>1, <1>2 DEF TypeOK, DownloadTypeOK
<1>4. infos' \in 0..MaxVersion
  BY <1>2, ConfigAssumption, VersionAssumption DEF TypeOK
<1>5. mUpdateRunning' \in [Files -> BOOLEAN]
  BY <1>2
<1>6. listening' \in 0..MaxChecks
  BY <1>2, ChecksAssumption
<1>7. TypeOK'
  BY <1>1, <1>2, <1>3, <1>4, <1>5, <1>6 DEF TypeOK
<1>8. WaitersAreServed'
  BY <1>2 DEF WaitersAreServed, Restart
<1> QED BY <1>7, <1>8 DEF Served

LEMMA PublishServed ==
  ASSUME Served, NEW i \in Images, Publish(i)
  PROVE  Served'
<1>1. /\ version \in [Files -> 1..MaxVersion]
      /\ named \in [0..MaxVersion -> [Images -> 0..MaxVersion]]
      /\ i \in Files /\ i # Config /\ Config \in Files /\ Images \subseteq Files
  BY ConfigAssumption DEF Served, TypeOK, DownloadTypeOK, Images
<1>2. version' = [version EXCEPT ![i] = @ + 1, ![Config] = @ + 1]
      /\ version[i] < MaxVersion /\ version[Config] < MaxVersion
  BY DEF Publish
<1>3. version' \in [Files -> 1..MaxVersion]
  <2>1. version[i] + 1 \in 1..MaxVersion /\ version[Config] + 1 \in 1..MaxVersion
    <3>1. \A f \in Files : version[f] \in 1..MaxVersion
      BY <1>1
    <3>2. \A n \in 1..MaxVersion : n < MaxVersion => n + 1 \in 1..MaxVersion
      BY VersionAssumption
    <3> QED BY <1>1, <1>2, <3>1, <3>2, Zenon
  <2>2. [version EXCEPT ![i] = @ + 1] \in [Files -> 1..MaxVersion]
    BY <1>1, <2>1
  <2>3. [version EXCEPT ![i] = @ + 1][Config] = version[Config]
    BY <1>1
  <2>4. version' = [[version EXCEPT ![i] = @ + 1] EXCEPT ![Config] = version[Config] + 1]
    BY <1>2, <2>3, SMTT(30)
  <2> QED BY <1>1, <2>1, <2>2, <2>4
<1>4. [j \in Images |-> version'[j]] \in [Images -> 0..MaxVersion]
  BY <1>1, <1>3, VersionAssumption
<1>5. named' \in [0..MaxVersion -> [Images -> 0..MaxVersion]]
  BY <1>1, <1>4 DEF Publish
<1>6. TypeOK'
  BY <1>3, <1>5 DEF Served, TypeOK, DownloadTypeOK, Publish, cacheVars, appVars, serviceVars
<1> QED BY <1>6 DEF Served, WaitersAreServed, Outstanding, Publish, appVars, serviceVars

LEMMA PostedServed ==
  ASSUME Served, UpdateApp \/ RunUpdateIfNeeded \/ OnTimedUpdateTriggered \/ UNCHANGED vars
  PROVE  Served'
<1>1. posted \in Seq(Calls) /\ mUpdateScheduled \in BOOLEAN
  BY DEF Served, TypeOK
<1>2. /\ <<"doAppUpdateIgnoringSkip">> \in Seq(Calls) /\ <<"doConfigurationsUpdate">> \in Seq(Calls)
      /\ <<"doConfigurationsUpdate", "doAppUpdate">> \in Seq(Calls)
  BY DEF Calls
<1>3. posted' \in Seq(Calls)
  <2>1. ASSUME NEW calls \in Seq(Calls) PROVE posted \o calls \in Seq(Calls)
    BY <1>1, <2>1, ConcatProperties
  <2>2. \/ posted' = posted
        \/ posted' = posted \o <<"doAppUpdateIgnoringSkip">>
        \/ posted' = posted \o <<"doConfigurationsUpdate">>
        \/ posted' = posted \o <<"doConfigurationsUpdate", "doAppUpdate">>
    BY DEF UpdateApp, RunUpdateIfNeeded, OnTimedUpdateTriggered, PostCalls, vars, serviceVars
  <2> QED BY <1>1, <1>2, <2>1, <2>2, Zenon
<1>4. mUpdateScheduled' \in BOOLEAN
  BY <1>1 DEF UpdateApp, RunUpdateIfNeeded, OnTimedUpdateTriggered, vars, serviceVars
<1>5. UNCHANGED <<downloadVars, fileVars, appVars>>
  BY DEF UpdateApp, RunUpdateIfNeeded, OnTimedUpdateTriggered, vars
<1> QED BY <1>3, <1>4, <1>5
        DEF Served, TypeOK, DownloadTypeOK, WaitersAreServed, Outstanding, downloadVars, fileVars, appVars

LEMMA NextServed == Served /\ [Next]_vars => Served'
<1> SUFFICES ASSUME Served, [Next]_vars PROVE Served'
  OBVIOUS
<1>1. CASE ReplyToFile
  BY <1>1, FileReplyServed DEF ReplyToFile, FileReply, UnchangedWorld, Served, TypeOK, DownloadTypeOK
<1>2. CASE ReplyToApp
  <2>1. AppReply
    BY <1>2, ConfigAssumption DEF ReplyToApp, AppReply
  <2> QED BY <1>2, <2>1, AppReplyServed
          DEF ReplyToApp, UnchangedWorld, Served, TypeOK, DownloadTypeOK
<1>3. CASE CallService
  BY <1>3, CallServed
<1>4. ASSUME NEW i \in Images, LookupPath(i) PROVE Served'
  BY <1>4, UpdateServed DEF LookupPath, Images, serviceVars, Served, TypeOK
<1>5. ASSUME NEW i \in Images, Publish(i) PROVE Served'
  BY <1>5, PublishServed
<1>6. CASE OnShutdown
  BY <1>6, ShutdownServed
<1>7. CASE Restart
  BY <1>7, RestartServed
<1>8. CASE UpdateApp \/ RunUpdateIfNeeded \/ OnTimedUpdateTriggered \/ UNCHANGED vars
  BY <1>8, PostedServed
<1> QED BY <1>1, <1>2, <1>3, <1>4, <1>5, <1>6, <1>7, <1>8 DEF Next, Network

LEMMA InitServed == Init => Served
<1> SUFFICES ASSUME Init PROVE Served
  OBVIOUS
<1>1. mPendingRequests \in Seq(Requests) /\ posted \in Seq(Calls)
  BY EmptySeq DEF Init, DownloadInit
<1>2. named \in [0..MaxVersion -> [Images -> 0..MaxVersion]]
  BY VersionAssumption DEF Init
<1>3. /\ version \in [Files -> 1..MaxVersion] /\ cached \in [Files -> 0..MaxVersion]
      /\ infos \in 0..MaxVersion /\ listening \in 0..MaxChecks
  BY VersionAssumption, ChecksAssumption DEF Init, DownloadInit
<1>4. TypeOK
  BY <1>1, <1>2, <1>3 DEF Init, DownloadInit, TypeOK, DownloadTypeOK
<1> QED BY <1>4 DEF Served, WaitersAreServed, Init, DownloadInit

(* The ranges of all variables, for any number of files, versions, checks. *)
THEOREM TypeCorrect == Spec => []TypeOK
<1>1. Served => TypeOK
  BY DEF Served
<1> QED BY <1>1, InitServed, NextServed, PTL DEF Spec

(* No answer the files and AppUpdater wait for gets lost: not by an abort   *)
(* at shutdown that re-enters the finished handler, not by slots that       *)
(* schedule more inside it, not by AppUpdater's duplicate connections.      *)
THEOREM WaitersServed == Spec => []WaitersAreServed
<1>1. Served => WaitersAreServed
  BY DEF Served
<1> QED BY <1>1, InitServed, NextServed, PTL DEF Spec

-----------------------------------------------------------------------------
(* No update of an image is lost. What makes FreshOrDirty inductive: a     *)
(* request tells the server no version newer than the cached one, the      *)
(* reply on its way is not older than what the configuration in use names, *)
(* and a part of an image is only there when its last data were lost.      *)

Honest(r) == r.url \in Files => r.since <= cached[r.url]

QueueHonest == \A k \in DOMAIN mPendingRequests : Honest(mPendingRequests[k])

ReplyHonest ==
  mCurrentReply.url \in Files =>
    /\ Honest(mCurrentReply)
    /\ mCurrentReply.url # Config => named[infos][mCurrentReply.url] <= mCurrentReply.from

Published ==
  /\ infos <= cached[Config] /\ (torn[Config] \/ infos = cached[Config])
  /\ \A f \in Files : cached[f] <= version[f]
  /\ \A v \in 0..version[Config] : \A i \in Images : named[v][i] <= version[i]
  /\ \A i \in Images : named[0][i] = 0 /\ (torn[i] => lost[i])

Fresh == Published /\ QueueHonest /\ ReplyHonest /\ FreshOrDirty

LEMMA StartedHonest ==
  ASSUME TypeOK, TypeOK', NEW q \in Seq(Requests), StartDownloadIfPending(q),
         UNCHANGED <<version, named>>, Published',
         \A j \in DOMAIN q : q[j].url \in Files => q[j].since <= cached'[q[j].url]
  PROVE  QueueHonest' /\ ReplyHonest'
<1>1. /\ \A k \in DOMAIN mPendingRequests' : \E j \in DOMAIN q : mPendingRequests'[k] = q[j]
      /\ mCurrentReply' = NoReply \/ \E j \in DOMAIN q : mCurrentReply' = Reply(q[j])
  BY Started
<1>2. QueueHonest'
  BY <1>1 DEF QueueHonest, Honest
<1>3. ASSUME mCurrentReply'.url \in Files
      PROVE  /\ mCurrentReply'.since <= cached'[mCurrentReply'.url]
             /\ mCurrentReply'.url # Config => named'[infos'][mCurrentReply'.url] <= mCurrentReply'.from
  <2>1. mCurrentReply' # NoReply
    BY <1>3, UrlsAssumption DEF NoReply, Urls
  <2>2. PICK j \in DOMAIN q : mCurrentReply' = Reply(q[j])
    BY <1>1, <2>1
  <2>3. /\ mCurrentReply'.url = q[j].url /\ mCurrentReply'.since = q[j].since
        /\ mCurrentReply'.from = version[q[j].url]
    BY <1>3, <2>2 DEF Reply
  <2>4. infos' \in 0..version'[Config]
    <3>1. infos' <= cached'[Config] /\ cached'[Config] <= version'[Config]
      BY ConfigAssumption DEF Published
    <3>2. infos' \in Nat /\ cached'[Config] \in Nat /\ version'[Config] \in Nat
      BY ConfigAssumption, VersionAssumption DEF TypeOK, DownloadTypeOK
    <3> QED BY <3>1, <3>2
  <2>5. q[j].url # Config => named'[infos'][q[j].url] <= version'[q[j].url]
    BY <1>3, <2>3, <2>4 DEF Published, Images
  <2> QED BY <1>3, <2>3, <2>5
<1> QED BY <1>2, <1>3 DEF ReplyHonest, Honest

LEMMA FinishedHonest ==
  ASSUME TypeOK, TypeOK', QueueHonest, NEW more \in Seq(Requests), Finished(more),
         UNCHANGED <<version, named>>, Published',
         \A f \in Files : cached[f] <= cached'[f],
         \A j \in DOMAIN more : more[j].url \notin Files
  PROVE  QueueHonest' /\ ReplyHonest'
<1>1. mPendingRequests \in Seq(Requests)
  BY DEF TypeOK, DownloadTypeOK
<1>2. /\ mPendingRequests \o more \in Seq(Requests)
      /\ \A k \in DOMAIN (mPendingRequests \o more) :
           \/ k \in DOMAIN mPendingRequests /\ (mPendingRequests \o more)[k] = mPendingRequests[k]
           \/ \E j \in DOMAIN more : (mPendingRequests \o more)[k] = more[j]
  BY <1>1, Concatenated
<1>3. ASSUME NEW k \in DOMAIN mPendingRequests, mPendingRequests[k].url \in Files
      PROVE  mPendingRequests[k].since <= cached'[mPendingRequests[k].url]
  <2> DEFINE r == mPendingRequests[k]
  <2>1. r \in Requests
    BY <1>1
  <2>2. r.since \in Nat /\ r.since <= cached[r.url]
    BY <1>3, <2>1 DEF QueueHonest, Honest, Requests
  <2>3. cached[r.url] \in Nat /\ cached'[r.url] \in Nat /\ cached[r.url] <= cached'[r.url]
    BY <1>3, VersionAssumption DEF TypeOK
  <2> HIDE DEF r
  <2>4. r.since <= cached'[r.url]
    BY <2>2, <2>3
  <2> QED BY <2>4 DEF r
<1>4. ASSUME NEW k \in DOMAIN (mPendingRequests \o more), (mPendingRequests \o more)[k].url \in Files
      PROVE  (mPendingRequests \o more)[k].since <= cached'[(mPendingRequests \o more)[k].url]
  BY <1>2, <1>3, <1>4
<1>5. StartDownloadIfPending(mPendingRequests \o more)
  BY DEF Finished
<1> QED BY <1>2, <1>4, <1>5, StartedHonest

LEMMA ScheduledHonest ==
  ASSUME TypeOK, TypeOK', Fresh, NEW r \in Requests, ScheduleDownload(r), Honest(r),
         UNCHANGED <<version, named, dirty, cacheVars>>
  PROVE  Fresh'
<1>1. /\ mPendingRequests \in Seq(Requests) /\ Published' /\ FreshOrDirty'
      /\ UNCHANGED <<cached, infos>>
  BY DEF TypeOK, DownloadTypeOK, Fresh, Published, FreshOrDirty, cacheVars
<1>2. Append(mPendingRequests, r) = mPendingRequests \o <<r>>
  BY <1>1, AppendAsConcat
<1>3. /\ <<r>> \in Seq(Requests) /\ DOMAIN <<r>> = {1} /\ <<r>>[1] = r
  BY Single
<1>4. /\ Append(mPendingRequests, r) \in Seq(Requests)
      /\ \A k \in DOMAIN Append(mPendingRequests, r) :
           \/ k \in DOMAIN mPendingRequests /\ Append(mPendingRequests, r)[k] = mPendingRequests[k]
           \/ Append(mPendingRequests, r)[k] = r
  BY <1>1, <1>2, <1>3, Concatenated
<1>5. \A k \in DOMAIN Append(mPendingRequests, r) :
        LET p == Append(mPendingRequests, r)[k]
        IN p.url \in Files => p.since <= cached'[p.url]
  BY <1>1, <1>4 DEF Fresh, QueueHonest, Honest
<1>6. CASE mCurrentReply = NoReply
  <2>1. StartDownloadIfPending(Append(mPendingRequests, r))
    BY <1>6 DEF ScheduleDownload
  <2> QED BY <1>1, <1>4, <1>5, <2>1, StartedHonest DEF Fresh
<1>7. CASE mCurrentReply # NoReply
  <2>1. mPendingRequests' = Append(mPendingRequests, r) /\ mCurrentReply' = mCurrentReply
    BY <1>7 DEF ScheduleDownload
  <2>2. QueueHonest'
    BY <1>5, <2>1 DEF QueueHonest, Honest
  <2>3. ReplyHonest'
    BY <1>1, <2>1 DEF Fresh, ReplyHonest, Honest
  <2> QED BY <1>1, <2>2, <2>3 DEF Fresh
<1> QED BY <1>6, <1>7

LEMMA AtLeast ==
  ASSUME NEW name \in Nat, NEW from \in Nat, NEW v \in Nat, NEW have \in Nat,
         name <= from, from <= v
  PROVE  v > have \/ have >= name
OBVIOUS

(* What FreshOrDirty says of one image. *)
ImageFresh(i) == dirty[i] \/ lost[i] \/ (~torn[i] /\ cached[i] >= named[infos][i])

LEMMA FileReplyFresh ==
  ASSUME TypeOK, TypeOK', Fresh, NEW f \in Files, mCurrentReply.url = f, FileReply(f),
         Finished(<<>>), UNCHANGED <<version, named>>
  PROVE  Fresh'
<1>1. /\ cached \in [Files -> 0..MaxVersion] /\ dirty \in [Files -> BOOLEAN]
      /\ torn \in [Files -> BOOLEAN] /\ lost \in [Images -> BOOLEAN]
      /\ infos \in 0..MaxVersion /\ version \in [Files -> 1..MaxVersion] /\ MaxVersion \in Nat
      /\ Config \in Files /\ Images \subseteq Files /\ Config \notin Images
      /\ named \in [0..MaxVersion -> [Images -> 0..MaxVersion]]
      /\ f \in Images <=> f # Config
  BY ConfigAssumption, VersionAssumption DEF TypeOK, DownloadTypeOK, Images
<1>2. /\ mCurrentReply.since \in Nat /\ mCurrentReply.from \in Nat
      /\ mCurrentReply.since <= cached[f]
      /\ f # Config => named[infos][f] <= mCurrentReply.from
  BY UrlsAssumption DEF TypeOK, DownloadTypeOK, Replies, NoReply, Urls, Fresh, ReplyHonest, Honest
<1>3. Published' /\ (\A i \in Images : ImageFresh(i)') /\ \A g \in Files : cached[g] <= cached'[g]
  <2>1. CASE OnDownloadSuccess(f) \/ OnDownloadCutShort(f)
    <3>1. PICK v \in 1..MaxVersion : Brings(v) /\ (Saves(f, v) \/ SavesPart(f, v) \/ DoesNotSave(f, v))
      BY <2>1, Data
    <3>2. mCurrentReply.from <= v /\ v <= version[f]
      BY <1>1, <1>2, <3>1 DEF Brings
    <3>3. CASE Saves(f, v)
      <4>1. /\ v > cached[f] /\ cached' = [cached EXCEPT ![f] = v]
            /\ torn' = [torn EXCEPT ![f] = FALSE]
            /\ lost' = [i \in Images |-> lost[i] /\ i # f]
            /\ infos' = (IF f = Config THEN v ELSE infos) /\ dirty' = MarkedAfter(f)
        BY <3>3 DEF Saves
      <4>2. \A g \in Files : cached[g] <= cached'[g] /\ cached'[g] <= version'[g]
        BY <1>1, <3>2, <4>1 DEF Fresh, Published
      <4>3. Published'
        <5>1. infos' <= cached'[Config] /\ (torn'[Config] \/ infos' = cached'[Config])
          <6>1. CASE f = Config
            BY <1>1, <4>1, <6>1
          <6>2. CASE f # Config
            <7>1. /\ infos' = infos /\ cached'[Config] = cached[Config]
                  /\ torn'[Config] = torn[Config]
              BY <1>1, <4>1, <6>2
            <7> QED BY <7>1 DEF Fresh, Published
          <6> QED BY <6>1, <6>2
        <5>2. \A i \in Images : torn'[i] => lost'[i]
          BY <1>1, <4>1 DEF Fresh, Published
        <5> QED BY <4>2, <5>1, <5>2 DEF Fresh, Published
      <4>4. ASSUME NEW i \in Images PROVE ImageFresh(i)'
        <5>1. CASE f = Config
          BY <1>1, <4>1, <5>1 DEF MarkedAfter, ImageFresh
        <5>2. CASE f # Config /\ i = f
          <6>1. cached'[i] = v /\ ~torn'[i] /\ infos' = infos /\ named[infos][i] \in Nat
            BY <1>1, <4>1, <5>2
          <6> QED BY <1>2, <3>2, <5>2, <6>1 DEF ImageFresh
        <5>3. CASE f # Config /\ i # f
          <6>1. /\ cached'[i] = cached[i] /\ torn'[i] = torn[i] /\ infos' = infos
                /\ lost'[i] = lost[i] /\ dirty'[i] = dirty[i]
            BY <1>1, <4>1, <5>3 DEF MarkedAfter
          <6> QED BY <6>1 DEF Fresh, FreshOrDirty, ImageFresh
        <5> QED BY <5>1, <5>2, <5>3
      <4> QED BY <4>2, <4>3, <4>4
    <3>4. CASE SavesPart(f, v)
      <4>1. /\ v > cached[f] /\ cached' = [cached EXCEPT ![f] = v]
            /\ torn' = [torn EXCEPT ![f] = TRUE]
            /\ lost' = [i \in Images |-> lost[i] \/ i = f]
            /\ infos' = infos /\ dirty' = [dirty EXCEPT ![f] = FALSE]
        BY <3>4 DEF SavesPart
      <4>2. \A g \in Files : cached[g] <= cached'[g] /\ cached'[g] <= version'[g]
        BY <1>1, <3>2, <4>1 DEF Fresh, Published
      <4>3. Published'
        <5>1. infos' <= cached'[Config]
          <6>1. infos' <= cached[Config] /\ cached[Config] <= cached'[Config]
            BY <1>1, <4>1, <4>2 DEF Fresh, Published
          <6>2. infos' \in Nat /\ cached[Config] \in Nat /\ cached'[Config] \in Nat
            BY <1>1, <4>1
          <6> QED BY <6>1, <6>2
        <5>2. torn'[Config] \/ infos' = cached'[Config]
          BY <1>1, <4>1 DEF Fresh, Published
        <5>3. \A i \in Images : torn'[i] => lost'[i]
          BY <1>1, <4>1 DEF Fresh, Published
        <5> QED BY <4>2, <5>1, <5>2, <5>3 DEF Fresh, Published
      <4>4. ASSUME NEW i \in Images PROVE ImageFresh(i)'
        <5>1. CASE i = f
          BY <4>1, <5>1 DEF ImageFresh
        <5>2. CASE i # f
          <6>1. /\ cached'[i] = cached[i] /\ torn'[i] = torn[i] /\ infos' = infos
                /\ lost'[i] = lost[i] /\ dirty'[i] = dirty[i]
            BY <1>1, <4>1, <5>2
          <6> QED BY <6>1 DEF Fresh, FreshOrDirty, ImageFresh
        <5> QED BY <5>1, <5>2
      <4> QED BY <4>2, <4>3, <4>4
    <3>5. CASE DoesNotSave(f, v)
      <4>1. /\ lost' = [i \in Images |-> lost[i] \/ (i = f /\ v > cached[f])]
            /\ dirty' = [dirty EXCEPT ![f] = FALSE] /\ UNCHANGED <<cached, torn, infos>>
        BY <3>5 DEF DoesNotSave
      <4>2. Published' /\ \A g \in Files : cached[g] <= cached'[g]
        BY <1>1, <4>1 DEF Fresh, Published
      <4>3. ASSUME NEW i \in Images PROVE ImageFresh(i)'
        <5>1. CASE i = f
          <6>1. lost'[i] = (lost[i] \/ v > cached[f])
            BY <1>1, <4>1, <5>1
          <6>2. cached[f] \in Nat /\ named[infos][f] \in Nat
            BY <1>1, <5>1
          <6>3. v \in Nat /\ mCurrentReply.from <= v /\ named[infos][f] <= mCurrentReply.from
            BY <1>1, <1>2, <3>1, <3>2, <5>1
          <6>4. v > cached[f] \/ cached[f] >= named[infos][f]
            BY <1>2, <6>2, <6>3, AtLeast
          <6>5. torn[i] => lost[i]
            BY DEF Fresh, Published
          <6> QED BY <4>1, <5>1, <6>1, <6>4, <6>5 DEF ImageFresh
        <5>2. CASE i # f
          <6>1. lost'[i] = lost[i] /\ dirty'[i] = dirty[i]
            BY <1>1, <4>1, <5>2
          <6> QED BY <4>1, <6>1 DEF Fresh, FreshOrDirty, ImageFresh
        <5> QED BY <5>1, <5>2
      <4> QED BY <4>2, <4>3
    <3> QED BY <3>1, <3>3, <3>4, <3>5
  <2>2. CASE OnDownloadUnnecessary(f)
    <3>1. dirty' = [dirty EXCEPT ![f] = FALSE] /\ UNCHANGED <<cached, torn, lost, infos>>
      BY <2>2 DEF OnDownloadUnnecessary, cacheVars
    <3>2. PICK v \in 1..mCurrentReply.since : mCurrentReply.from <= v
      BY <1>1, <1>2, <2>2 DEF OnDownloadUnnecessary, IsUnmodified, Brings
    <3>3. Published' /\ \A g \in Files : cached[g] <= cached'[g]
      BY <1>1, <3>1 DEF Fresh, Published
    <3>4. ASSUME NEW i \in Images PROVE ImageFresh(i)'
      <4>1. CASE i = f
        <5>1. cached[f] \in Nat /\ named[infos][f] \in Nat
          BY <1>1, <4>1
        <5>2. v \in Nat /\ v <= mCurrentReply.since /\ mCurrentReply.from <= v
          BY <1>2, <3>2
        <5>3. v <= cached[f]
          BY <1>2, <5>1, <5>2
        <5>4. named[infos][f] <= mCurrentReply.from
          BY <1>1, <1>2, <4>1
        <5>5. cached[f] >= named[infos][f]
          BY <1>2, <5>1, <5>2, <5>3, <5>4, AtLeast
        <5>6. torn[i] => lost[i]
          BY DEF Fresh, Published
        <5> QED BY <3>1, <4>1, <5>5, <5>6 DEF ImageFresh
      <4>2. CASE i # f
        <5>1. dirty'[i] = dirty[i]
          BY <1>1, <3>1, <4>2
        <5> QED BY <3>1, <5>1 DEF Fresh, FreshOrDirty, ImageFresh
      <4> QED BY <4>1, <4>2
    <3> QED BY <3>3, <3>4
  <2>3. CASE OnDownloadFailed(f)
    <3>1. UNCHANGED <<dirty, cached, torn, lost, infos>>
      BY <2>3 DEF OnDownloadFailed, cacheVars
    <3> QED BY <1>1, <3>1 DEF Fresh, Published, FreshOrDirty, ImageFresh
  <2> QED BY <2>1, <2>2, <2>3 DEF FileReply
<1>4. <<>> \in Seq(Requests) /\ \A j \in DOMAIN <<>> : <<>>[j].url \notin Files
  BY EmptySeq
<1>5. FreshOrDirty'
  BY <1>3 DEF FreshOrDirty, ImageFresh
<1> QED BY <1>3, <1>4, <1>5, FinishedHonest DEF Fresh

LEMMA AppReplyFresh ==
  ASSUME TypeOK, TypeOK', Fresh, AppReply,
         UNCHANGED <<version, named, dirty, cacheVars>>
  PROVE  Fresh'
<1>1. "notes" \notin Files
  BY ConfigAssumption, UrlsAssumption
<1>2. \E more \in Seq(Requests) : Finished(more) /\ UrlsOf(more) \cap Files = {}
  <2>1. listening \in Nat
    BY ChecksAssumption DEF TypeOK
  <2>2. \/ Finished(<<>>) \/ Finished(<<NotesRequest>>)
        \/ Finished(Times(listening, NotesRequest))
    <3>1. CASE NewVersion
      BY <3>1 DEF NewVersion
    <3>2. CASE SkippedVersion
      BY <3>2 DEF SkippedVersion
    <3>3. CASE Unheard \/ Notes \/ NoNewVersion \/ CheckFailed
      BY <3>3 DEF Unheard, Notes, NoNewVersion, CheckFailed
    <3> QED BY <3>1, <3>2, <3>3 DEF AppReply
  <2> QED BY <1>1, <2>1, <2>2, NotesRequests
<1>3. PICK more \in Seq(Requests) : Finished(more) /\ UrlsOf(more) \cap Files = {}
  BY <1>2
<1>4. \A j \in DOMAIN more : more[j].url \notin Files
  BY <1>3 DEF UrlsOf
<1>5. Published' /\ FreshOrDirty'
  BY DEF Fresh, Published, FreshOrDirty, cacheVars
<1>6. \A f \in Files : cached[f] <= cached'[f]
  BY VersionAssumption DEF TypeOK, cacheVars
<1> QED BY <1>3, <1>4, <1>5, <1>6, FinishedHonest DEF Fresh

LEMMA UpdateFresh ==
  ASSUME TypeOK, TypeOK', Fresh, NEW f \in Files, Update(f)
  PROVE  Fresh'
<1>1. cached[f] \in Nat
  BY VersionAssumption DEF TypeOK
<1>2. /\ [url |-> f, since |-> cached[f]] \in Requests
      /\ Honest([url |-> f, since |-> cached[f]])
  BY <1>1 DEF Requests, Urls, Honest
<1> QED BY <1>2, ScheduledHonest DEF Update, UnchangedWorld

LEMMA CheckFresh ==
  ASSUME TypeOK, TypeOK', Fresh, NEW ignore \in BOOLEAN, CheckAppUpdate(ignore)
  PROVE  Fresh'
<1>1. /\ [url |-> "json", since |-> 0] \in Requests /\ Honest([url |-> "json", since |-> 0])
  BY ConfigAssumption, UrlsAssumption DEF Requests, Urls, Honest
<1> QED BY <1>1, ScheduledHonest DEF CheckAppUpdate, UnchangedWorld, cacheVars, fileVars

LEMMA SameFilesFresh ==
  ASSUME Fresh, UNCHANGED <<downloadVars, fileVars>>
  PROVE  Fresh'
BY DEF Fresh, Published, QueueHonest, ReplyHonest, Honest, FreshOrDirty, downloadVars, fileVars

LEMMA RestartFresh ==
  ASSUME TypeOK, Fresh, Restart
  PROVE  Fresh'
<1>1. /\ mPendingRequests' = <<>> /\ mCurrentReply' = NoReply
      /\ infos' = (IF torn[Config] THEN 0 ELSE cached[Config])
      /\ UNCHANGED <<version, named, dirty, cached, torn, lost>>
      /\ \A f \in Files : cached[f] \in Nat
      /\ Config \in Files /\ Images \subseteq Files
  BY ConfigAssumption, VersionAssumption DEF Restart, TypeOK, Images
<1>2. infos' = infos \/ (infos' = 0 /\ torn[Config])
  BY <1>1 DEF Fresh, Published
<1>3. Published' /\ FreshOrDirty'
  <2>1. Published'
    BY <1>1, <1>2 DEF Fresh, Published
  <2>2. ASSUME NEW i \in Images, infos' = 0 PROVE ImageFresh(i)'
    BY <1>1, <2>2 DEF Fresh, Published, ImageFresh
  <2>3. ASSUME NEW i \in Images, infos' = infos PROVE ImageFresh(i)'
    BY <1>1, <2>3 DEF Fresh, FreshOrDirty, ImageFresh
  <2> QED BY <1>2, <2>1, <2>2, <2>3 DEF FreshOrDirty, ImageFresh
<1>4. QueueHonest' /\ ReplyHonest'
  BY <1>1, UrlsAssumption DEF QueueHonest, ReplyHonest, NoReply, Urls
<1> QED BY <1>3, <1>4 DEF Fresh

LEMMA Grows ==
  ASSUME NEW a \in Nat, NEW b \in Nat, NEW c \in Nat, a <= b, b <= c
  PROVE  a <= c
OBVIOUS

LEMMA PublishFresh ==
  ASSUME TypeOK, TypeOK', Fresh, NEW i \in Images, Publish(i)
  PROVE  Fresh'
<1>1. /\ version \in [Files -> 1..MaxVersion] /\ cached \in [Files -> 0..MaxVersion]
      /\ named \in [0..MaxVersion -> [Images -> 0..MaxVersion]]
      /\ Config \in Files /\ MaxVersion \in Nat /\ i \in Files /\ i # Config
      /\ Images \subseteq Files /\ Config \notin Images
  BY ConfigAssumption, VersionAssumption DEF TypeOK, DownloadTypeOK, Images
<1>2. /\ version' = [version EXCEPT ![i] = @ + 1, ![Config] = @ + 1]
      /\ named' = [named EXCEPT ![version[Config] + 1] = [j \in Images |-> version'[j]]]
      /\ version[Config] < MaxVersion
      /\ UNCHANGED <<mPendingRequests, mCurrentReply, dirty, cached, torn, lost, infos>>
  BY DEF Publish, cacheVars
<1>3. /\ \A f \in Files : version[f] \in Nat /\ version'[f] \in Nat /\ version[f] <= version'[f]
      /\ version'[Config] = version[Config] + 1
  <2>1. \A f \in Files : version[f] \in Nat
    BY <1>1
  <2>2. \A f \in Files : version'[f] = IF f = i \/ f = Config THEN version[f] + 1 ELSE version[f]
    BY <1>1, <1>2
  <2>3. version'[Config] = version[Config] + 1
    BY <1>1, <2>2
  <2>4. ASSUME NEW f \in Files PROVE version'[f] \in Nat /\ version[f] <= version'[f]
    <3> DEFINE n == version[f]
               m == version'[f]
    <3>1. n \in Nat /\ (m = n \/ m = n + 1)
      BY <2>1, <2>2
    <3> HIDE DEF n, m
    <3>2. m \in Nat /\ n <= m
      BY <3>1
    <3> QED BY <3>2 DEF n, m
  <2> QED BY <2>1, <2>3, <2>4
<1>4. infos \in 0..version[Config] /\ infos # version[Config] + 1 /\ infos \in 0..MaxVersion
  <2>1. infos \in 0..MaxVersion /\ infos <= version[Config] /\ version[Config] \in Nat
    BY <1>1, <1>3 DEF TypeOK, Fresh, Published
  <2> QED BY <2>1
<1>5. \A v \in 0..MaxVersion : v # version[Config] + 1 => named'[v] = named[v]
  BY <1>1, <1>2
<1>6. named'[infos] = named[infos]
  BY <1>4, <1>5
<1>7. ASSUME NEW v \in 0..version'[Config], NEW j \in Images PROVE named'[v][j] <= version'[j]
  <2>0. version[Config] + 1 \in 0..MaxVersion
    BY <1>1, <1>2, <1>3
  <2>1. CASE v = version[Config] + 1
    <3>1. named'[v] = [k \in Images |-> version'[k]]
      BY <1>1, <1>2, <2>0, <2>1
    <3>2. version'[j] \in Nat
      BY <1>1, <1>3
    <3> QED BY <3>1, <3>2
  <2>2. CASE v # version[Config] + 1
    <3>1. v \in 0..version[Config] /\ v \in 0..MaxVersion
      <4> DEFINE c == version[Config]
      <4>1. c \in Nat /\ v \in 0..(c + 1) /\ v # c + 1 /\ c + 1 \in 0..MaxVersion
        BY <1>1, <1>3, <2>0, <2>2
      <4> HIDE DEF c
      <4>2. v \in 0..c /\ v \in 0..MaxVersion
        BY <1>1, <4>1
      <4> QED BY <4>2 DEF c
    <3>2. named'[v][j] = named[v][j]
      BY <1>5, <2>2, <3>1
    <3>3. named[v][j] <= version[j]
      BY <3>1 DEF Fresh, Published
    <3>4. named[v][j] \in Nat
      BY <1>1, <3>1
    <3>5. version[j] \in Nat /\ version'[j] \in Nat /\ version[j] <= version'[j]
      BY <1>1, <1>3
    <3> QED BY <3>2, <3>3, <3>4, <3>5, Grows
  <2> QED BY <2>1, <2>2
<1>8. \A f \in Files : cached'[f] <= version'[f]
  <2> SUFFICES ASSUME NEW f \in Files PROVE cached'[f] <= version'[f]
    OBVIOUS
  <2>1. cached'[f] = cached[f] /\ cached[f] \in Nat /\ cached[f] <= version[f]
    BY <1>1, <1>2 DEF Fresh, Published
  <2>2. version[f] \in Nat /\ version'[f] \in Nat /\ version[f] <= version'[f]
    BY <1>3
  <2> QED BY <2>1, <2>2, Grows
<1>9. Published'
  <2>1. named'[0] = named[0]
    <3>1. version[Config] \in Nat
      BY <1>1, <1>3
    <3>2. 0 # version[Config] + 1 /\ 0 \in 0..MaxVersion
      BY <1>1, <3>1
    <3> QED BY <1>5, <3>2
  <2>2. infos' <= cached'[Config] /\ (torn'[Config] \/ infos' = cached'[Config])
    BY <1>2 DEF Fresh, Published
  <2>3. \A j \in Images : named'[0][j] = 0 /\ (torn'[j] => lost'[j])
    BY <1>2, <2>1 DEF Fresh, Published
  <2> QED BY <1>7, <1>8, <2>2, <2>3 DEF Published
<1>10. QueueHonest' /\ ReplyHonest'
  BY <1>2, <1>6 DEF Fresh, QueueHonest, ReplyHonest, Honest
<1>11. FreshOrDirty'
  BY <1>2, <1>6 DEF Fresh, FreshOrDirty
<1> QED BY <1>9, <1>10, <1>11 DEF Fresh

LEMMA ShutdownFresh ==
  ASSUME TypeOK, TypeOK', Fresh, OnShutdown
  PROVE  Fresh'
<1>1. UNCHANGED <<version, named>>
  BY DEF OnShutdown
<1>2. CASE mCurrentReply.url \in Files
  <2>1. FileReply(mCurrentReply.url) /\ Finished(<<>>)
    BY <1>2 DEF OnShutdown, FileReply
  <2> QED BY <1>1, <1>2, <2>1, FileReplyFresh
<1>3. CASE mCurrentReply.url \notin Files
  <2>1. UNCHANGED <<dirty, cacheVars>>
    BY <1>3 DEF OnShutdown
  <2>2. CASE mCurrentReply = NoReply
    <3>1. UNCHANGED <<mPendingRequests, mCurrentReply>>
      BY <1>3, <2>2 DEF OnShutdown
    <3> QED BY <1>1, <2>1, <3>1
            DEF Fresh, Published, QueueHonest, ReplyHonest, Honest, FreshOrDirty, cacheVars
  <2>3. CASE mCurrentReply # NoReply
    <3>1. mCurrentReply.url \in {"json", "notes"}
      BY <1>3, <2>3, ConfigAssumption DEF TypeOK, DownloadTypeOK, Replies, Urls
    <3>2. AppReply
      BY <1>3, <2>3, <3>1 DEF OnShutdown, AppReply
    <3> QED BY <1>1, <2>1, <3>2, AppReplyFresh
  <2> QED BY <2>2, <2>3
<1> QED BY <1>2, <1>3

IInv == Served /\ Fresh

LEMMA NextFresh == IInv /\ [Next]_vars => IInv'
<1> SUFFICES ASSUME IInv, [Next]_vars PROVE IInv'
  OBVIOUS
<1>1. Served' /\ TypeOK /\ TypeOK' /\ Fresh
  BY NextServed DEF IInv, Served
<1>2. CASE ReplyToFile
  BY <1>1, <1>2, FileReplyFresh DEF ReplyToFile, FileReply, UnchangedWorld, IInv
<1>3. CASE ReplyToApp
  <2>1. AppReply
    BY <1>3, ConfigAssumption DEF ReplyToApp, AppReply
  <2> QED BY <1>1, <1>3, <2>1, AppReplyFresh DEF ReplyToApp, UnchangedWorld, IInv
<1>4. CASE CallService
  <2>1. CASE DoConfigurationsUpdate
    BY <1>1, <2>1, SameFilesFresh, UpdateFresh, ConfigAssumption DEF DoConfigurationsUpdate, IInv
  <2>2. CASE CheckAppUpdate(FALSE) \/ CheckAppUpdate(TRUE)
    BY <1>1, <2>2, CheckFresh DEF IInv
  <2> QED BY <1>4, <2>1, <2>2 DEF CallService
<1>5. ASSUME NEW i \in Images, LookupPath(i) PROVE IInv'
  BY <1>1, <1>5, UpdateFresh DEF LookupPath, Images, IInv
<1>6. ASSUME NEW i \in Images, Publish(i) PROVE IInv'
  BY <1>1, <1>6, PublishFresh DEF IInv
<1>7. CASE OnShutdown
  BY <1>1, <1>7, ShutdownFresh DEF IInv
<1>8. CASE Restart
  BY <1>1, <1>8, RestartFresh DEF IInv
<1>9. CASE UpdateApp \/ RunUpdateIfNeeded \/ OnTimedUpdateTriggered \/ UNCHANGED vars
  BY <1>1, <1>9, SameFilesFresh
     DEF UpdateApp, RunUpdateIfNeeded, OnTimedUpdateTriggered, vars, IInv
<1> QED BY <1>2, <1>3, <1>4, <1>5, <1>6, <1>7, <1>8, <1>9 DEF Next, Network

LEMMA InitFresh == Init => IInv
<1> SUFFICES ASSUME Init PROVE IInv
  OBVIOUS
<1>1. /\ mPendingRequests = <<>> /\ mCurrentReply = NoReply
      /\ version = [f \in Files |-> 1] /\ cached = [f \in Files |-> 0] /\ infos = 0
      /\ torn = [f \in Files |-> FALSE] /\ lost = [i \in Images |-> FALSE]
      /\ named = [v \in 0..MaxVersion |-> [i \in Images |-> IF v = 0 THEN 0 ELSE 1]]
      /\ Config \in Files /\ Images \subseteq Files /\ MaxVersion \in Nat \ {0}
  BY ConfigAssumption, VersionAssumption DEF Init, DownloadInit, Images
<1>2. Published
  BY <1>1 DEF Published
<1>3. QueueHonest /\ ReplyHonest
  BY <1>1, UrlsAssumption DEF QueueHonest, ReplyHonest, NoReply, Urls
<1>4. FreshOrDirty
  BY <1>1 DEF FreshOrDirty
<1> QED BY <1>2, <1>3, <1>4, InitServed DEF IInv, Fresh

(* An image that is not marked is whole and as new as the configuration in  *)
(* use names it, whatever order the answers, the publications, the aborts   *)
(* and the restarts come in. Excepted is an image whose last data did not   *)
(* reach the disk whole: the disk refused them, or a reply was broken off   *)
(* after its headers, which the code takes for a success.                   *)
THEOREM NoUpdateLost == Spec => []FreshOrDirty
<1>1. IInv => FreshOrDirty
  BY DEF IInv, Fresh
<1> QED BY <1>1, InitFresh, NextFresh, PTL DEF Spec

=============================================================================
