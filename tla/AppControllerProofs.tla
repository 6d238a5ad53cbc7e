------------------------ MODULE AppControllerProofs ------------------------
(***************************************************************************)
(* AppController for any number of callers, posted events and quit         *)
(* requests: type correctness, the safety invariants, and the promise of   *)
(* the request desk (module RequestDesk).                                  *)
(***************************************************************************)
EXTENDS AppController, SequenceTheorems, TLAPS

(* What an event queue holds, and what it holds only once. *)
Holds(q, e) == \E i \in DOMAIN q : q[i] = e
Once(q, e)  == \A i, j \in DOMAIN q : q[i] = e /\ q[j] = e => i = j

LEMMA Taken ==
  ASSUME NEW S, NEW q \in Seq(S), q # <<>>
  PROVE  /\ Head(q) \in S /\ Tail(q) \in Seq(S)
         /\ Holds(q, Head(q))
         /\ \A e : Holds(Tail(q), e) => Holds(q, e)
         /\ \A e : Holds(q, e) /\ e # Head(q) => Holds(Tail(q), e)
         /\ \A e : Once(q, e) => Once(Tail(q), e)
         /\ Once(q, Head(q)) => ~Holds(Tail(q), Head(q))
<1>1. /\ Head(q) \in S /\ Tail(q) \in Seq(S)
      /\ Len(Tail(q)) = Len(q) - 1
      /\ \A i \in 1 .. Len(Tail(q)) : Tail(q)[i] = q[i + 1]
  BY HeadTailProperties
<1>2. /\ DOMAIN q = 1 .. Len(q) /\ DOMAIN Tail(q) = 1 .. (Len(q) - 1)
      /\ Len(q) \in Nat \ {0}
  BY <1>1, LenProperties, EmptySeq
<1>3. Head(q) = q[1]
  BY <1>2
<1>4. Holds(q, Head(q))
  BY <1>2, <1>3 DEF Holds
<1>5. ASSUME NEW e, Holds(Tail(q), e) PROVE Holds(q, e)
  <2>1. PICK i \in DOMAIN Tail(q) : Tail(q)[i] = e
    BY <1>5 DEF Holds
  <2>2. i + 1 \in DOMAIN q /\ q[i + 1] = e
    BY <2>1, <1>1, <1>2
  <2> QED BY <2>2 DEF Holds
<1>6. ASSUME NEW e, Holds(q, e), e # Head(q) PROVE Holds(Tail(q), e)
  <2>1. PICK i \in DOMAIN q : q[i] = e
    BY <1>6 DEF Holds
  <2>2. i - 1 \in DOMAIN Tail(q) /\ Tail(q)[i - 1] = e
    BY <2>1, <1>1, <1>2, <1>3, <1>6
  <2> QED BY <2>2 DEF Holds
<1>7. ASSUME NEW e, Once(q, e) PROVE Once(Tail(q), e)
  <2> SUFFICES ASSUME NEW i \in DOMAIN Tail(q), NEW j \in DOMAIN Tail(q),
                      Tail(q)[i] = e, Tail(q)[j] = e
               PROVE  i = j
    BY DEF Once
  <2>1. i + 1 \in DOMAIN q /\ q[i + 1] = e /\ j + 1 \in DOMAIN q /\ q[j + 1] = e
    BY <1>1, <1>2
  <2>2. i + 1 = j + 1
    BY <2>1, <1>7 DEF Once
  <2> QED BY <2>2, <1>2
<1>8. ASSUME Once(q, Head(q)), Holds(Tail(q), Head(q)) PROVE FALSE
  <2>1. PICK i \in DOMAIN Tail(q) : Tail(q)[i] = Head(q)
    BY <1>8 DEF Holds
  <2>2. i + 1 \in DOMAIN q /\ q[i + 1] = Head(q) /\ 1 \in DOMAIN q /\ i + 1 # 1
    BY <2>1, <1>1, <1>2
  <2> QED BY <2>2, <1>3, <1>8 DEF Once
<1> QED BY <1>1, <1>4, <1>5, <1>6, <1>7, <1>8

LEMMA Added ==
  ASSUME NEW S, NEW q \in Seq(S), NEW x \in S
  PROVE  /\ Append(q, x) \in Seq(S)
         /\ \A e : Holds(Append(q, x), e) <=> Holds(q, e) \/ e = x
         /\ \A e : Once(q, e) /\ (e = x => ~Holds(q, e)) => Once(Append(q, x), e)
<1>1. /\ Append(q, x) \in Seq(S)
      /\ Len(Append(q, x)) = Len(q) + 1
      /\ \A i \in 1 .. Len(q) : Append(q, x)[i] = q[i]
      /\ Append(q, x)[Len(q) + 1] = x
  BY AppendProperties
<1>2. /\ Len(q) \in Nat /\ DOMAIN q = 1 .. Len(q)
      /\ DOMAIN Append(q, x) = 1 .. (Len(q) + 1)
  BY <1>1, LenProperties
<1>3. ASSUME NEW e PROVE Holds(Append(q, x), e) <=> Holds(q, e) \/ e = x
  <2>1. CASE e = x
    BY <2>1, <1>1, <1>2 DEF Holds
  <2>2. CASE e # x
    BY <2>2, <1>1, <1>2 DEF Holds
  <2> QED BY <2>1, <2>2
<1>4. ASSUME NEW e, Once(q, e), e = x => ~Holds(q, e) PROVE Once(Append(q, x), e)
  BY <1>1, <1>2, <1>4 DEF Once, Holds
<1> QED BY <1>1, <1>3, <1>4

-----------------------------------------------------------------------------
(* The inductive invariant. *)

(* Workflows and controllers come and go together. *)
IdleIffNobody == active = Nobody <=> phase = "idle"

(* The end of a workflow is on its way in one event at most. *)
EndOnItsWay ==
  /\ \A e \in Ends : Once(posted, e) /\ (Holds(posted, e) => phase = "finished")
  /\ ~(Holds(posted, "finished") /\ Holds(posted, "complete"))

(* A caller's request is handled once. *)
AuthPostedOnce == \A r \in AuthRequests : Once(posted, r)

IInv ==
  /\ TypeOK
  /\ IdleIffNobody
  /\ WaitingHasWorkflow
  /\ EndOnItsWay
  /\ ShutdownNotForgotten
  /\ AuthPostedOnce
  /\ AuthAccounted

LEMMA EndOnItsWayIsEnough ==
  ASSUME TypeOK, IdleIffNobody, EndOnItsWay
  PROVE  EndIsPostedOnce
<1>1. phase = "finished" => active # Nobody
  BY DEF IdleIffNobody
<1>2. ASSUME NEW i \in DOMAIN posted, posted[i] \in Ends PROVE phase = "finished"
  BY <1>2 DEF EndOnItsWay, Holds
<1>3. ASSUME NEW i \in DOMAIN posted, posted[i] \in Ends,
             NEW j \in DOMAIN posted, posted[j] \in Ends
      PROVE  i = j
  <2>1. CASE posted[i] = posted[j]
    BY <1>3, <2>1 DEF EndOnItsWay, Once
  <2>2. CASE posted[i] # posted[j]
    BY <1>3, <2>2 DEF EndOnItsWay, Holds, Ends
  <2> QED BY <2>1, <2>2
<1> QED BY <1>1, <1>2, <1>3 DEF EndIsPostedOnce

LEMMA InitInv == Init => IInv
<1> SUFFICES ASSUME Init PROVE IInv
  OBVIOUS
<1>1. TypeOK
  <2>1. posted \in Seq(Events)
    BY DEF Init
  <2>2. auth \in [AuthRequests -> {"none", "posted", "waiting", "running", "served",
                                  "refused", "dropped"}]
    BY DEF Init
  <2>3. completions \in Nat
    BY DEF Init
  <2> QED BY <2>1, <2>2, <2>3, Zenon DEF Init, TypeOK
<1>2. DOMAIN posted = {}
  BY DEF Init
<1>3. EndOnItsWay /\ AuthPostedOnce
  BY <1>2 DEF EndOnItsWay, AuthPostedOnce, Once, Holds
<1>4. AuthAccounted
  BY <1>2, AppAssumption DEF Init, AuthAccounted, Requests
<1> QED BY <1>1, <1>3, <1>4 DEF IInv, Init, IdleIffNobody, WaitingHasWorkflow, ShutdownNotForgotten

(* Callers and events, told apart. *)
LEMMA Kinds ==
  /\ \A r \in AuthRequests : r \notin UiRequests \cup Ends \cup {"start", "quit"}
  /\ Ends \cap UiRequests = {} /\ Nobody \notin Requests
  /\ {"start", "quit"} \cap (UiRequests \cup Ends) = {}
  /\ "finished" # "complete" /\ "start" # "quit"
BY AppAssumption DEF UiRequests, Ends

(* What taking the first event means for the invariant. *)
LEMMA Arrived ==
  ASSUME IInv, NEW e, Arrives(e)
  PROVE  /\ e \in Events /\ Holds(posted, e)
         /\ Tail(posted) \in Seq(Events)
         /\ \A x : Holds(Tail(posted), x) => Holds(posted, x)
         /\ \A x : Holds(posted, x) /\ x # e => Holds(Tail(posted), x)
         /\ \A x : Once(posted, x) => Once(Tail(posted), x)
         /\ e \in Ends \cup AuthRequests => ~Holds(Tail(posted), e)
<1>1. posted \in Seq(Events) /\ posted # <<>> /\ Head(posted) = e
  BY DEF IInv, TypeOK, Arrives, Events
<1>2. e \in Ends \cup AuthRequests => Once(posted, e)
  BY DEF IInv, EndOnItsWay, AuthPostedOnce
<1> QED BY <1>1, <1>2, Taken

(* What posting an event means for it. *)
LEMMA Posted ==
  ASSUME NEW q \in Seq(Events), NEW x \in Events
  PROVE  /\ Append(q, x) \in Seq(Events)
         /\ \A e : Holds(Append(q, x), e) <=> Holds(q, e) \/ e = x
         /\ \A e : Once(q, e) /\ (e = x => ~Holds(q, e)) => Once(Append(q, x), e)
BY Added

(* What it means if a workflow may be started besides. *)
LEMMA Moved ==
  ASSUME IInv, NEW e, Arrives(e), e # "start",
         posted' = Tail(posted) \/ posted' = Append(Tail(posted), "start")
  PROVE  /\ posted' \in Seq(Events) /\ Holds(posted, e)
         /\ \A x : x # "start" /\ Holds(posted', x) => Holds(posted, x)
         /\ \A x : Holds(posted, x) /\ x # e => Holds(posted', x)
         /\ \A x : x # "start" /\ Once(posted, x) => Once(posted', x)
         /\ e \in Ends \cup AuthRequests => ~Holds(posted', e)
<1> DEFINE rest == Tail(posted)
<1>1. /\ e \in Events /\ Holds(posted, e)
      /\ rest \in Seq(Events)
      /\ \A x : Holds(rest, x) => Holds(posted, x)
      /\ \A x : Holds(posted, x) /\ x # e => Holds(rest, x)
      /\ \A x : Once(posted, x) => Once(rest, x)
      /\ e \in Ends \cup AuthRequests => ~Holds(rest, e)
  BY Arrived
<1>2. CASE posted' = rest
  BY <1>1, <1>2
<1>3. CASE posted' = Append(rest, "start")
  <2> HIDE DEF rest
  <2>1. "start" \in Events
    BY DEF Events
  <2>2. /\ posted' \in Seq(Events)
        /\ \A x : Holds(posted', x) <=> Holds(rest, x) \/ x = "start"
        /\ \A x : Once(rest, x) /\ x # "start" => Once(posted', x)
    BY <1>1, <1>3, <2>1, Posted
  <2> QED BY <1>1, <2>2
<1> QED BY <1>2, <1>3

-----------------------------------------------------------------------------
(* The invariant is kept by every action. *)

LEMMA UiAsksInv ==
  ASSUME IInv, NEW k \in UiRequests, UiAsks(k)
  PROVE  IInv'
<1> USE DEF IInv, UiAsks, workflowVars, shutdownVars
<1>1. posted \in Seq(Events) /\ k \in Events
  BY DEF TypeOK, Events, Requests
<1>2. /\ posted' \in Seq(Events)
      /\ \A e : Holds(posted', e) <=> Holds(posted, e) \/ e = k
      /\ \A e : Once(posted, e) /\ e # k => Once(posted', e)
  BY <1>1, Posted
<1>3. TypeOK'
  BY <1>2 DEF TypeOK, Events
<1>4. EndOnItsWay'
  BY <1>2, Kinds DEF EndOnItsWay, Ends
<1>5. AuthPostedOnce'
  BY <1>2, Kinds DEF AuthPostedOnce
<1>6. AuthAccounted'
  BY <1>2, Kinds DEF AuthAccounted, Holds
<1> QED BY <1>3, <1>4, <1>5, <1>6 DEF IdleIffNobody, WaitingHasWorkflow, ShutdownNotForgotten

LEMMA CallerAsksInv ==
  ASSUME IInv, NEW r \in AuthRequests, CallerAsks(r)
  PROVE  IInv'
<1> USE DEF IInv, CallerAsks, workflowVars, shutdownVars
<1>1. posted \in Seq(Events) /\ r \in Events
  BY DEF TypeOK, Events, Requests
<1>2. /\ posted' \in Seq(Events)
      /\ \A e : Holds(posted', e) <=> Holds(posted, e) \/ e = r
      /\ \A e : Once(posted, e) /\ (e = r => ~Holds(posted, e)) => Once(posted', e)
  BY <1>1, Posted
<1>3. ~Holds(posted, r)
  BY DEF AuthAccounted, Holds
<1>4. TypeOK'
  BY <1>2 DEF TypeOK, Events
<1>5. EndOnItsWay'
  BY <1>2, Kinds DEF EndOnItsWay, Ends
<1>6. AuthPostedOnce'
  BY <1>2, <1>3 DEF AuthPostedOnce
<1>7. AuthAccounted'
  <2> SUFFICES ASSUME NEW q \in AuthRequests
               PROVE  /\ auth'[q] = "waiting" <=> waiting = q
                      /\ auth'[q] = "running" <=> active = q
                      /\ auth'[q] = "posted" <=> Holds(posted', q)
    BY DEF AuthAccounted, Holds
  <2>1. auth'[q] = IF q = r THEN "posted" ELSE auth[q]
    BY DEF TypeOK
  <2> QED BY <2>1, <1>2 DEF AuthAccounted, Holds
<1> QED BY <1>4, <1>5, <1>6, <1>7 DEF IdleIffNobody, WaitingHasWorkflow, ShutdownNotForgotten

LEMMA OnChangePinRequestedInv ==
  ASSUME IInv, OnChangePinRequested
  PROVE  IInv'
<1> USE DEF IInv, OnChangePinRequested, workflowVars, shutdownVars, canStartNewAction
<1>1. /\ posted' \in Seq(Events)
      /\ \A x : x # "start" /\ Holds(posted', x) => Holds(posted, x)
      /\ \A x : Holds(posted, x) /\ x # "PIN" => Holds(posted', x)
      /\ \A x : x # "start" /\ Once(posted, x) => Once(posted', x)
  BY Moved DEF StartNewWorkflow
<1>2. /\ active' \in Requests \cup {Nobody}
      /\ active = Nobody => active' = "PIN" /\ phase' = "starting" /\ waiting' = waiting
      /\ active # Nobody => active' = active /\ phase' = phase
      /\ waiting' = waiting \/ (waiting = Nobody /\ waiting' = "PIN")
      /\ completions' = completions /\ shutdownRunning' = shutdownRunning
      /\ auth' = auth
  BY DEF StartNewWorkflow, TypeOK, Requests, UiRequests
<1>3. TypeOK'
  <2>1. /\ killed' \in BOOLEAN /\ failed' \in BOOLEAN /\ nextPending' \in BOOLEAN
        /\ quitted' \in BOOLEAN /\ shutdownRunning' \in BOOLEAN
    BY Zenon DEF StartNewWorkflow, TypeOK
  <2> QED BY <1>1, <1>2, <2>1 DEF TypeOK, Events
<1>4. EndOnItsWay'
  <2>1. phase = "finished" => phase' = "finished"
    BY <1>2 DEF IdleIffNobody
  <2> QED BY <1>1, <2>1, Kinds DEF EndOnItsWay, Ends
<1>5. AuthPostedOnce'
  BY <1>1, Kinds DEF AuthPostedOnce
<1>6. AuthAccounted'
  <2> SUFFICES ASSUME NEW q \in AuthRequests
               PROVE  /\ auth'[q] = "waiting" <=> waiting' = q
                      /\ auth'[q] = "running" <=> active' = q
                      /\ auth'[q] = "posted" <=> Holds(posted', q)
    BY DEF AuthAccounted, Holds
  <2>1. q # "PIN" /\ q # "start" /\ q # Nobody
    BY Kinds DEF Requests, UiRequests
  <2>2. Holds(posted', q) <=> Holds(posted, q)
    BY <1>1, <2>1
  <2> QED BY <1>2, <2>1, <2>2 DEF AuthAccounted, Holds
<1>7. IdleIffNobody' /\ WaitingHasWorkflow' /\ ShutdownNotForgotten'
  BY <1>2, Kinds
     DEF IdleIffNobody, WaitingHasWorkflow, ShutdownNotForgotten, Requests, UiRequests
<1> QED BY <1>3, <1>4, <1>5, <1>6, <1>7

LEMMA OnUiWorkflowRequestedInv ==
  ASSUME IInv, NEW k \in {"SELF", "REMOTE_SERVICE"}, OnUiWorkflowRequested(k)
  PROVE  IInv'
<1> USE DEF IInv, OnUiWorkflowRequested, workflowVars, shutdownVars, canStartNewAction
<1>1. /\ posted' \in Seq(Events)
      /\ \A x : x # "start" /\ Holds(posted', x) => Holds(posted, x)
      /\ \A x : Holds(posted, x) /\ x # k => Holds(posted', x)
      /\ \A x : x # "start" /\ Once(posted, x) => Once(posted', x)
  BY Moved DEF StartNewWorkflow
<1>2. /\ active' \in Requests \cup {Nobody}
      /\ active = Nobody => active' = k /\ phase' = "starting"
      /\ active # Nobody => active' = active /\ phase' = phase
      /\ waiting' = waiting
      /\ completions' = completions /\ shutdownRunning' = shutdownRunning
      /\ auth' = auth
  BY DEF StartNewWorkflow, TypeOK, Requests, UiRequests
<1>3. TypeOK'
  <2>1. /\ killed' \in BOOLEAN /\ failed' \in BOOLEAN /\ nextPending' \in BOOLEAN
        /\ quitted' \in BOOLEAN /\ shutdownRunning' \in BOOLEAN
    BY Zenon DEF StartNewWorkflow, TypeOK
  <2> QED BY <1>1, <1>2, <2>1 DEF TypeOK, Events
<1>4. EndOnItsWay'
  <2>1. phase = "finished" => phase' = "finished"
    BY <1>2 DEF IdleIffNobody
  <2> QED BY <1>1, <2>1, Kinds DEF EndOnItsWay, Ends
<1>5. AuthPostedOnce'
  BY <1>1, Kinds DEF AuthPostedOnce
<1>6. AuthAccounted'
  <2> SUFFICES ASSUME NEW q \in AuthRequests
               PROVE  /\ auth'[q] = "waiting" <=> waiting' = q
                      /\ auth'[q] = "running" <=> active' = q
                      /\ auth'[q] = "posted" <=> Holds(posted', q)
    BY DEF AuthAccounted, Holds
  <2>1. q # k /\ q # "start" /\ q # Nobody
    BY Kinds DEF Requests, UiRequests
  <2>2. Holds(posted', q) <=> Holds(posted, q)
    BY <1>1, <2>1
  <2> QED BY <1>2, <2>1, <2>2 DEF AuthAccounted, Holds
<1>7. IdleIffNobody' /\ WaitingHasWorkflow' /\ ShutdownNotForgotten'
  BY <1>2, Kinds
     DEF IdleIffNobody, WaitingHasWorkflow, ShutdownNotForgotten, Requests, UiRequests
<1> QED BY <1>3, <1>4, <1>5, <1>6, <1>7

(* A state that is approved posts its end only if it was not on its way.   *)
LEMMA Approved ==
  ASSUME TypeOK, NEW q \in Seq(Events), Approve(q),
         \A e \in Ends : Once(q, e) /\ (Holds(q, e) => phase = "finished"),
         ~(Holds(q, "finished") /\ Holds(q, "complete"))
  PROVE  /\ posted' \in Seq(Events) /\ EndOnItsWay'
         /\ phase' \in {"idle", "starting", "running", "final", "finished"}
         /\ phase' = "idle" <=> phase = "idle"
         /\ \A r \in AuthRequests : /\ Holds(posted', r) <=> Holds(q, r)
                                    /\ Once(q, r) => Once(posted', r)
<1>1. CASE phase = "final"
  <2>1. /\ phase' = "finished" /\ posted' = Append(q, "finished")
        /\ "finished" \in Events /\ \A e \in Ends : ~Holds(q, e)
    BY <1>1 DEF Approve, Events, Ends
  <2>2. /\ posted' \in Seq(Events)
        /\ \A e : Holds(posted', e) <=> Holds(q, e) \/ e = "finished"
        /\ \A e : Once(q, e) /\ (e = "finished" => ~Holds(q, e)) => Once(posted', e)
    BY <2>1, Posted
  <2>3. EndOnItsWay'
    BY <2>1, <2>2 DEF EndOnItsWay, Ends
  <2> QED BY <1>1, <2>1, <2>2, <2>3, Kinds DEF Ends
<1>2. CASE phase # "final"
  <2>1. phase' = phase /\ posted' = q
    BY <1>2 DEF Approve
  <2> QED BY <2>1 DEF EndOnItsWay, TypeOK
<1> QED BY <1>1, <1>2

LEMMA ApproveFinalStateInv ==
  ASSUME IInv, ApproveFinalState
  PROVE  IInv'
<1> USE DEF IInv, ApproveFinalState, shutdownVars
<1>1. posted \in Seq(Events)
  BY DEF TypeOK, Events
<1>2. /\ posted' \in Seq(Events) /\ EndOnItsWay'
      /\ phase' \in {"idle", "starting", "running", "final", "finished"}
      /\ phase' = "idle" <=> phase = "idle"
      /\ \A r \in AuthRequests : /\ Holds(posted', r) <=> Holds(posted, r)
                                 /\ Once(posted, r) => Once(posted', r)
  BY <1>1, Approved DEF EndOnItsWay
<1>3. TypeOK'
  BY <1>2 DEF TypeOK, Events
<1>4. AuthPostedOnce' /\ AuthAccounted'
  BY <1>2 DEF AuthPostedOnce, AuthAccounted, Holds
<1> QED BY <1>2, <1>3, <1>4 DEF IdleIffNobody, WaitingHasWorkflow, ShutdownNotForgotten

LEMMA OnAuthenticationRequestInv ==
  ASSUME IInv, NEW r \in AuthRequests, OnAuthenticationRequest(r)
  PROVE  IInv'
<1> USE DEF IInv, OnAuthenticationRequest, workflowVars, shutdownVars, canStartNewAction
<1> DEFINE rest == Tail(posted)
<1>1. /\ rest \in Seq(Events)
      /\ \A x : Holds(rest, x) => Holds(posted, x)
      /\ \A x : Holds(posted, x) /\ x # r => Holds(rest, x)
      /\ \A x : Once(posted, x) => Once(rest, x)
      /\ ~Holds(rest, r) /\ Holds(posted, r)
  BY Arrived
<1>2. auth[r] = "posted" /\ waiting # r /\ active # r
  BY <1>1 DEF AuthAccounted, Holds
<1>3. r # Nobody /\ r \in Requests /\ r \notin Ends
  BY Kinds DEF Requests
<1>4. /\ \A e \in Ends : Once(rest, e) /\ (Holds(rest, e) => phase = "finished")
      /\ ~(Holds(rest, "finished") /\ Holds(rest, "complete"))
  BY <1>1 DEF EndOnItsWay
<1> HIDE DEF rest
<1>5. CASE canStartNewAction
  <2>0. /\ posted' \in Seq(Events) /\ ~Holds(posted', r)
        /\ \A x : x # "start" /\ Holds(posted', x) => Holds(posted, x)
        /\ \A x : Holds(posted, x) /\ x # r => Holds(posted', x)
        /\ \A x : x # "start" /\ Once(posted, x) => Once(posted', x)
    BY <1>5, Moved, Kinds DEF StartNewWorkflow
  <2>1. /\ active = Nobody /\ active' = r /\ phase = "idle" /\ phase' = "starting"
        /\ waiting' = waiting /\ auth' = [auth EXCEPT ![r] = "running"]
        /\ completions' = completions /\ shutdownRunning' = shutdownRunning
    BY <1>5 DEF StartNewWorkflow, IdleIffNobody
  <2>2. TypeOK'
    <3>1. /\ killed' \in BOOLEAN /\ failed' \in BOOLEAN /\ nextPending' \in BOOLEAN
          /\ quitted' \in BOOLEAN /\ shutdownRunning' \in BOOLEAN
      BY <1>5, Zenon DEF StartNewWorkflow, TypeOK
    <3> QED BY <1>3, <2>0, <2>1, <3>1 DEF TypeOK, Events
  <2>3. EndOnItsWay'
    BY <2>0, <2>1, Kinds DEF EndOnItsWay, Ends
  <2>4. AuthPostedOnce'
    BY <2>0, Kinds DEF AuthPostedOnce
  <2>5. AuthAccounted'
    <3> SUFFICES ASSUME NEW q \in AuthRequests
                 PROVE  /\ auth'[q] = "waiting" <=> waiting' = q
                        /\ auth'[q] = "running" <=> active' = q
                        /\ auth'[q] = "posted" <=> Holds(posted', q)
      BY DEF AuthAccounted, Holds
    <3>1. auth'[q] = IF q = r THEN "running" ELSE auth[q]
      BY <2>1 DEF TypeOK
    <3>2. Holds(posted', q) <=> Holds(posted, q) /\ q # r
      BY <2>0, Kinds
    <3>3. q # Nobody
      BY Kinds DEF Requests
    <3> QED BY <1>2, <2>1, <3>1, <3>2, <3>3 DEF AuthAccounted, Holds
  <2> QED BY <1>3, <2>1, <2>2, <2>3, <2>4, <2>5
          DEF IdleIffNobody, WaitingHasWorkflow, ShutdownNotForgotten
<1>6. CASE ~canStartNewAction /\ SelfAuthDone /\ waiting = Nobody
  <2>1. /\ active # Nobody /\ active' = active /\ waiting' = r
        /\ Approve(rest) /\ auth' = [auth EXCEPT ![r] = "waiting"]
        /\ completions' = completions /\ shutdownRunning' = shutdownRunning
    BY <1>6 DEF rest
  <2>2. /\ posted' \in Seq(Events) /\ EndOnItsWay'
        /\ phase' \in {"idle", "starting", "running", "final", "finished"}
        /\ phase' = "idle" <=> phase = "idle"
        /\ \A q \in AuthRequests : /\ Holds(posted', q) <=> Holds(rest, q)
                                   /\ Once(rest, q) => Once(posted', q)
    BY <1>1, <1>4, <2>1, Approved
  <2>3. TypeOK'
    <3>1. /\ killed' \in BOOLEAN /\ failed' \in BOOLEAN /\ nextPending' \in BOOLEAN
          /\ quitted' \in BOOLEAN /\ shutdownRunning' \in BOOLEAN
      BY <1>6, Zenon DEF TypeOK
    <3> QED BY <2>1, <2>2, <3>1 DEF TypeOK, Events
  <2>4. AuthPostedOnce'
    BY <1>1, <2>2 DEF AuthPostedOnce
  <2>5. AuthAccounted'
    <3> SUFFICES ASSUME NEW q \in AuthRequests
                 PROVE  /\ auth'[q] = "waiting" <=> waiting' = q
                        /\ auth'[q] = "running" <=> active' = q
                        /\ auth'[q] = "posted" <=> Holds(posted', q)
      BY DEF AuthAccounted, Holds
    <3>1. auth'[q] = IF q = r THEN "waiting" ELSE auth[q]
      BY <2>1 DEF TypeOK
    <3>2. Holds(posted', q) <=> Holds(posted, q) /\ q # r
      BY <1>1, <2>2
    <3>3. q # Nobody
      BY Kinds DEF Requests
    <3> QED BY <1>2, <1>6, <2>1, <3>1, <3>2, <3>3 DEF AuthAccounted, Holds
  <2> QED BY <2>1, <2>2, <2>3, <2>4, <2>5
          DEF IdleIffNobody, WaitingHasWorkflow, ShutdownNotForgotten
<1>7. CASE ~canStartNewAction /\ (~SelfAuthDone \/ waiting # Nobody)
  <2>1. /\ active' = active /\ phase' = phase /\ waiting' = waiting
        /\ posted' = rest /\ auth' = [auth EXCEPT ![r] = "refused"]
        /\ completions' = completions /\ shutdownRunning' = shutdownRunning
    BY <1>7 DEF rest
  <2>2. TypeOK'
    <3>1. /\ killed' \in BOOLEAN /\ failed' \in BOOLEAN /\ nextPending' \in BOOLEAN
          /\ quitted' \in BOOLEAN /\ shutdownRunning' \in BOOLEAN
      BY <1>7, Zenon DEF TypeOK
    <3> QED BY <1>1, <2>1, <3>1 DEF TypeOK, Events
  <2>3. EndOnItsWay'
    BY <1>4, <2>1 DEF EndOnItsWay
  <2>4. AuthPostedOnce'
    BY <1>1, <2>1 DEF AuthPostedOnce
  <2>5. AuthAccounted'
    <3> SUFFICES ASSUME NEW q \in AuthRequests
                 PROVE  /\ auth'[q] = "waiting" <=> waiting' = q
                        /\ auth'[q] = "running" <=> active' = q
                        /\ auth'[q] = "posted" <=> Holds(posted', q)
      BY DEF AuthAccounted, Holds
    <3>1. auth'[q] = IF q = r THEN "refused" ELSE auth[q]
      BY <2>1 DEF TypeOK
    <3>2. Holds(posted', q) <=> Holds(posted, q) /\ q # r
      BY <1>1, <2>1
    <3>3. q # Nobody
      BY Kinds DEF Requests
    <3> QED BY <1>2, <2>1, <3>1, <3>2, <3>3 DEF AuthAccounted, Holds
  <2> QED BY <2>1, <2>2, <2>3, <2>4, <2>5
          DEF IdleIffNobody, WaitingHasWorkflow, ShutdownNotForgotten
<1> QED BY <1>5, <1>6, <1>7

LEMMA EnterFirstStateInv ==
  ASSUME IInv, EnterFirstState
  PROVE  IInv'
<1> USE DEF IInv, EnterFirstState, shutdownVars
<1>1. /\ posted' \in Seq(Events)
      /\ \A x : Holds(posted', x) => Holds(posted, x)
      /\ \A x : Holds(posted, x) /\ x # "start" => Holds(posted', x)
      /\ \A x : Once(posted, x) => Once(posted', x)
  BY Arrived
<1>2. TypeOK'
  BY <1>1, Zenon DEF TypeOK
<1>3. EndOnItsWay'
  BY <1>1 DEF EndOnItsWay, Ends
<1>4. AuthPostedOnce'
  BY <1>1 DEF AuthPostedOnce
<1>5. AuthAccounted'
  BY <1>1, Kinds DEF AuthAccounted, Holds
<1> QED BY <1>2, <1>3, <1>4, <1>5 DEF IdleIffNobody, WaitingHasWorkflow, ShutdownNotForgotten

LEMMA GetSignalInv ==
  ASSUME IInv, GetSignal
  PROVE  IInv'
<1> USE DEF IInv, GetSignal, workflowVars, shutdownVars
<1>1. posted \in Seq(Events) /\ "quit" \in Events
  BY DEF TypeOK, Events
<1>2. /\ posted' \in Seq(Events)
      /\ \A e : Holds(posted', e) <=> Holds(posted, e) \/ e = "quit"
      /\ \A e : Once(posted, e) /\ e # "quit" => Once(posted', e)
  BY <1>1, Posted
<1>3. TypeOK'
  BY <1>2 DEF TypeOK
<1>4. EndOnItsWay'
  BY <1>2, Kinds DEF EndOnItsWay, Ends
<1>5. AuthPostedOnce'
  BY <1>2, Kinds DEF AuthPostedOnce
<1>6. AuthAccounted'
  BY <1>2, Kinds DEF AuthAccounted, Holds
<1> QED BY <1>3, <1>4, <1>5, <1>6 DEF IdleIffNobody, WaitingHasWorkflow, ShutdownNotForgotten

LEMMA ReachFinalStateInv ==
  ASSUME IInv, ReachFinalState
  PROVE  IInv'
<1> USE DEF IInv, ReachFinalState, shutdownVars
<1>1. posted \in Seq(Events) /\ failed' \in BOOLEAN
  BY DEF TypeOK, Events
<1>2. /\ posted' \in Seq(Events) /\ EndOnItsWay' /\ phase' \in {"final", "finished"}
      /\ \A r \in AuthRequests : /\ Holds(posted', r) <=> Holds(posted, r)
                                 /\ Once(posted, r) => Once(posted', r)
  <2>1. CASE phase' = "final" /\ posted' = posted
    BY <1>1, <2>1 DEF EndOnItsWay
  <2>2. CASE phase' = "finished" /\ posted' = Append(posted, "finished")
    <3>1. "finished" \in Events /\ \A e \in Ends : ~Holds(posted, e)
      BY DEF Events, Ends, EndOnItsWay
    <3>2. /\ posted' \in Seq(Events)
          /\ \A e : Holds(posted', e) <=> Holds(posted, e) \/ e = "finished"
          /\ \A e : Once(posted, e) /\ (e = "finished" => ~Holds(posted, e)) => Once(posted', e)
      BY <1>1, <2>2, <3>1, Posted
    <3>3. EndOnItsWay'
      BY <2>2, <3>1, <3>2 DEF EndOnItsWay, Ends
    <3> QED BY <2>2, <3>2, <3>3, Kinds DEF Ends
  <2> QED BY <2>1, <2>2
<1>3. TypeOK'
  BY <1>1, <1>2, Zenon DEF TypeOK, Events
<1>4. AuthPostedOnce' /\ AuthAccounted'
  BY <1>2 DEF AuthPostedOnce, AuthAccounted, Holds
<1> QED BY <1>2, <1>3, <1>4 DEF IdleIffNobody, WaitingHasWorkflow, ShutdownNotForgotten

LEMMA OnMachineFinishedInv ==
  ASSUME IInv, OnMachineFinished
  PROVE  IInv'
<1> USE DEF IInv, OnMachineFinished, workflowVars, shutdownVars
<1> DEFINE rest == Tail(posted)
<1>1. /\ rest \in Seq(Events) /\ "complete" \in Events
      /\ \A x : Holds(rest, x) => Holds(posted, x)
      /\ \A x : Holds(posted, x) /\ x # "finished" => Holds(rest, x)
      /\ \A x : Once(posted, x) => Once(rest, x)
      /\ ~Holds(rest, "finished") /\ Holds(posted, "finished")
  BY Arrived DEF Ends, Events
<1>2. phase = "finished" /\ ~Holds(rest, "complete")
  BY <1>1 DEF EndOnItsWay, Ends
<1> HIDE DEF rest
<1>3. /\ posted' \in Seq(Events)
      /\ \A e : Holds(posted', e) <=> Holds(rest, e) \/ e = "complete"
      /\ \A e : Once(rest, e) /\ (e = "complete" => ~Holds(rest, e)) => Once(posted', e)
  <2>1. posted' = Append(rest, "complete")
    BY DEF rest
  <2>2. /\ Append(rest, "complete") \in Seq(Events)
        /\ \A e : Holds(Append(rest, "complete"), e) <=> Holds(rest, e) \/ e = "complete"
        /\ \A e : Once(rest, e) /\ (e = "complete" => ~Holds(rest, e))
                 => Once(Append(rest, "complete"), e)
    BY <1>1, Posted
  <2> QED BY <2>1, <2>2, Zenon
<1>4. TypeOK'
  BY <1>3 DEF TypeOK, Events
<1>5. EndOnItsWay'
  BY <1>1, <1>2, <1>3 DEF EndOnItsWay, Ends
<1>6. AuthPostedOnce' /\ AuthAccounted'
  <2>1. \A r \in AuthRequests : r # "complete" /\ r # "finished"
    BY Kinds DEF Ends
  <2>2. AuthPostedOnce'
    <3>1. \A r \in AuthRequests : Once(posted, r)
      BY DEF AuthPostedOnce
    <3>2. \A r \in AuthRequests : Once(posted', r)
      BY <1>1, <1>3, <2>1, <3>1, Zenon
    <3> QED BY <3>2 DEF AuthPostedOnce
  <2>3. \A r \in AuthRequests : Holds(posted', r) <=> Holds(posted, r)
    BY <1>1, <1>3, <2>1, Zenon
  <2>4. AuthAccounted'
    BY <2>3 DEF AuthAccounted, Holds
  <2> QED BY <2>2, <2>4
<1> QED BY <1>4, <1>5, <1>6 DEF IdleIffNobody, WaitingHasWorkflow, ShutdownNotForgotten

LEMMA CountedPositive == \A n \in Nat : Counted(n) \in Nat /\ Counted(n) > 0
BY AppAssumption DEF Counted

LEMMA OnWorkflowFinishedInv ==
  ASSUME IInv, OnWorkflowFinished
  PROVE  IInv'
<1> USE DEF IInv, OnWorkflowFinished
<1>1. /\ posted' \in Seq(Events)
      /\ \A x : x # "start" /\ Holds(posted', x) => Holds(posted, x)
      /\ \A x : Holds(posted, x) /\ x # "complete" => Holds(posted', x)
      /\ \A x : x # "start" /\ Once(posted, x) => Once(posted', x)
      /\ ~Holds(posted', "complete") /\ Holds(posted, "complete")
  BY Moved DEF ServeWaiting, StartNewWorkflow, EndWorkflow, Ends
<1>2. phase = "finished" /\ active # Nobody /\ ~Holds(posted', "finished")
  BY <1>1 DEF EndOnItsWay, Ends, IdleIffNobody
<1>3. /\ active' = waiting /\ waiting' = Nobody
      /\ phase' = IF waiting = Nobody THEN "idle" ELSE "starting"
  BY DEF ServeWaiting, StartNewWorkflow, EndWorkflow
<1>4. /\ completions' \in Nat /\ shutdownRunning' = shutdownRunning
      /\ shutdownRunning => completions' > 0
  <2>1. completions \in Nat
    BY DEF TypeOK
  <2> QED BY <2>1, CountedPositive DEF ShutdownAfterFinished
<1>5. TypeOK'
  <2>1. /\ killed' \in BOOLEAN /\ failed' \in BOOLEAN /\ nextPending' \in BOOLEAN
        /\ quitted' \in BOOLEAN /\ shutdownRunning' \in BOOLEAN
    <3>1. killed' = FALSE /\ failed' = FALSE /\ nextPending' = FALSE
      BY Zenon DEF ServeWaiting, StartNewWorkflow, EndWorkflow
    <3> QED BY <3>1, Zenon DEF TypeOK
  <2>2. auth' \in [AuthRequests -> {"none", "posted", "waiting", "running", "served",
                                   "refused", "dropped"}]
    BY DEF TypeOK
  <2>3. active' \in Requests \cup {Nobody} /\ waiting' \in {"PIN", Nobody}
    BY <1>3 DEF TypeOK, Requests, UiRequests
  <2> QED BY <1>1, <1>3, <1>4, <2>1, <2>2, <2>3 DEF TypeOK, Events
<1>6. EndOnItsWay'
  BY <1>1, <1>2, Kinds DEF EndOnItsWay, Ends
<1>7. AuthPostedOnce'
  BY <1>1, Kinds DEF AuthPostedOnce
<1>8. AuthAccounted'
  <2> SUFFICES ASSUME NEW q \in AuthRequests
               PROVE  /\ auth'[q] = "waiting" <=> waiting' = q
                      /\ auth'[q] = "running" <=> active' = q
                      /\ auth'[q] = "posted" <=> Holds(posted', q)
    BY DEF AuthAccounted, Holds
  <2>1. auth'[q] = IF q = active THEN "served" ELSE IF q = waiting THEN "running" ELSE auth[q]
    OBVIOUS
  <2>2. q \notin {Nobody, "complete", "start"}
    BY Kinds DEF Requests, Ends
  <2>3. Holds(posted', q) <=> Holds(posted, q)
    BY <1>1, <2>2
  <2> QED BY <1>3, <2>1, <2>2, <2>3 DEF AuthAccounted, Holds
<1>9. IdleIffNobody' /\ WaitingHasWorkflow' /\ ShutdownNotForgotten'
  BY <1>3, <1>4 DEF IdleIffNobody, WaitingHasWorkflow, ShutdownNotForgotten
<1> QED BY <1>5, <1>6, <1>7, <1>8, <1>9

LEMMA DoShutdownInv ==
  ASSUME IInv, NEW q \in Seq(Events), DoShutdown(q),
         \A x : x # "quit" => (Holds(q, x) <=> Holds(posted, x)),
         \A x : Once(posted, x) => Once(q, x)
  PROVE  IInv'
<1> USE DEF IInv, DoShutdown
<1>0. /\ \A e \in Ends : Once(q, e) /\ (Holds(q, e) => phase = "finished")
      /\ ~(Holds(q, "finished") /\ Holds(q, "complete"))
  BY Kinds DEF EndOnItsWay, Ends
<1>1. CASE active # Nobody
  <2>1. /\ active' = active /\ waiting' = Nobody /\ Approve(q) /\ killed' = TRUE
        /\ failed' = TRUE /\ completions' = completions
        /\ auth' = [r \in AuthRequests |-> IF r = waiting THEN "dropped" ELSE auth[r]]
    BY <1>1 DEF ClearQueue, KillWorkflow
  <2>2. /\ posted' \in Seq(Events) /\ EndOnItsWay'
        /\ phase' \in {"idle", "starting", "running", "final", "finished"}
        /\ phase' = "idle" <=> phase = "idle"
        /\ \A r \in AuthRequests : /\ Holds(posted', r) <=> Holds(posted, r)
                                   /\ Once(posted, r) => Once(posted', r)
    BY <1>0, <2>1, Approved, Kinds
  <2>3. TypeOK'
    <3>1. auth' \in [AuthRequests -> {"none", "posted", "waiting", "running", "served",
                                     "refused", "dropped"}]
      BY <2>1 DEF TypeOK
    <3>2. killed' \in BOOLEAN /\ failed' \in BOOLEAN /\ shutdownRunning' \in BOOLEAN
      BY <2>1, Zenon
    <3> QED BY <2>1, <2>2, <3>1, <3>2 DEF TypeOK, Events
  <2>4. AuthPostedOnce'
    BY <2>2 DEF AuthPostedOnce
  <2>5. AuthAccounted'
    <3> SUFFICES ASSUME NEW r \in AuthRequests
                 PROVE  /\ auth'[r] = "waiting" <=> waiting' = r
                        /\ auth'[r] = "running" <=> active' = r
                        /\ auth'[r] = "posted" <=> Holds(posted', r)
      BY DEF AuthAccounted, Holds
    <3>1. auth'[r] = IF r = waiting THEN "dropped" ELSE auth[r]
      BY <2>1
    <3>2. r # Nobody
      BY Kinds DEF Requests
    <3> QED BY <2>1, <2>2, <3>1, <3>2 DEF AuthAccounted, Holds
  <2> QED BY <1>1, <2>1, <2>2, <2>3, <2>4, <2>5
          DEF IdleIffNobody, WaitingHasWorkflow, ShutdownNotForgotten
<1>2. CASE active = Nobody
  <2>1. /\ active' = active /\ waiting' = waiting /\ posted' = q /\ phase' = phase
        /\ auth' = auth /\ completions' = Counted(completions)
    BY <1>2
  <2>2. completions' \in Nat /\ completions' > 0
    BY <2>1, CountedPositive DEF TypeOK
  <2>3. TypeOK'
    <3>1. /\ killed' \in BOOLEAN /\ failed' \in BOOLEAN /\ nextPending' \in BOOLEAN
          /\ quitted' \in BOOLEAN /\ shutdownRunning' \in BOOLEAN
      BY <1>2, Zenon DEF TypeOK
    <3> QED BY <2>1, <2>2, <3>1 DEF TypeOK
  <2>4. EndOnItsWay'
    BY <1>0, <2>1 DEF EndOnItsWay
  <2>5. AuthPostedOnce'
    BY <2>1 DEF AuthPostedOnce
  <2>6. AuthAccounted'
    BY <2>1, Kinds DEF AuthAccounted, Holds
  <2> QED BY <2>1, <2>2, <2>3, <2>4, <2>5, <2>6
          DEF IdleIffNobody, WaitingHasWorkflow, ShutdownNotForgotten
<1> QED BY <1>1, <1>2

LEMMA QuitInv ==
  ASSUME IInv, QuitRequested \/ OnSignal
  PROVE  IInv'
<1>1. CASE QuitRequested
  BY <1>1, DoShutdownInv DEF QuitRequested, IInv, TypeOK
<1>2. CASE OnSignal
  <2> DEFINE rest == Tail(posted)
  <2>1. /\ rest \in Seq(Events)
        /\ \A x : Holds(rest, x) => Holds(posted, x)
        /\ \A x : Holds(posted, x) /\ x # "quit" => Holds(rest, x)
        /\ \A x : Once(posted, x) => Once(rest, x)
    BY <1>2, Arrived DEF OnSignal
  <2>2. DoShutdown(rest)
    BY <1>2 DEF OnSignal
  <2> HIDE DEF rest
  <2> QED BY <2>1, <2>2, DoShutdownInv
<1> QED BY <1>1, <1>2

LEMMA UnchangedInv ==
  ASSUME IInv,
         UNCHANGED <<workflowVars, waiting, shutdownRunning, completions, posted, auth>>,
         quitted' \in BOOLEAN
  PROVE  IInv'
BY DEF IInv, TypeOK, IdleIffNobody, WaitingHasWorkflow, ShutdownNotForgotten, EndOnItsWay,
       AuthPostedOnce, AuthAccounted, workflowVars

LEMMA NextInv ==
  ASSUME IInv, [Next]_vars
  PROVE  IInv'
<1>1. ASSUME NEW k \in UiRequests, UiAsks(k) PROVE IInv'
  BY <1>1, UiAsksInv
<1>2. ASSUME NEW r \in AuthRequests, CallerAsks(r) PROVE IInv'
  BY <1>2, CallerAsksInv
<1>3. CASE OnChangePinRequested
  BY <1>3, OnChangePinRequestedInv
<1>4. ASSUME NEW k \in {"SELF", "REMOTE_SERVICE"}, OnUiWorkflowRequested(k) PROVE IInv'
  BY <1>4, OnUiWorkflowRequestedInv
<1>5. ASSUME NEW r \in AuthRequests, OnAuthenticationRequest(r) PROVE IInv'
  BY <1>5, OnAuthenticationRequestInv
<1>6. CASE OnMachineFinished
  BY <1>6, OnMachineFinishedInv
<1>7. CASE OnWorkflowFinished
  BY <1>7, OnWorkflowFinishedInv
<1>8. CASE ReachFinalState
  BY <1>8, ReachFinalStateInv
<1>9. CASE ApproveFinalState
  BY <1>9, ApproveFinalStateInv
<1>10. CASE QuitRequested \/ OnSignal
  BY <1>10, QuitInv
<1>11. CASE Quit
  BY <1>11, UnchangedInv DEF Quit
<1>12. CASE Terminated \/ UNCHANGED vars
  <2>1. quitted' \in BOOLEAN
    BY <1>12 DEF Terminated, vars, shutdownVars, IInv, TypeOK
  <2> QED BY <1>12, <2>1, UnchangedInv DEF Terminated, vars, shutdownVars
<1>13. CASE EnterFirstState
  BY <1>13, EnterFirstStateInv
<1>14. CASE GetSignal
  BY <1>14, GetSignalInv
<1> QED BY <1>1, <1>2, <1>3, <1>4, <1>5, <1>6, <1>7, <1>8, <1>9, <1>10, <1>11, <1>12, <1>13,
           <1>14
        DEF Next, Handle

-----------------------------------------------------------------------------
(* The invariant holds always: for any number of callers and events the    *)
(* controller's bookkeeping of its workflow is consistent.                 *)
THEOREM Invariant == Spec => []IInv
<1>1. Init => IInv
  BY InitInv
<1>2. IInv /\ [Next]_vars => IInv'
  BY NextInv
<1> QED BY <1>1, <1>2, PTL DEF Spec

(* Every variable of AppController stays in its type. *)
THEOREM TypeCorrect == Spec => []TypeOK
<1>1. IInv => TypeOK
  BY DEF IInv
<1> QED BY <1>1, Invariant, PTL

(* onWorkflowFinished never runs without a controller, nor twice for one.  *)
THEOREM EndPostedOnce == Spec => []EndIsPostedOnce
<1>1. IInv => EndIsPostedOnce
  BY EndOnItsWayIsEnough DEF IInv
<1> QED BY <1>1, Invariant, PTL

(* mWaitingRequest is never left without a workflow whose end serves it.   *)
THEOREM WaitingServed == Spec => []WaitingHasWorkflow
<1>1. IInv => WaitingHasWorkflow
  BY DEF IInv
<1> QED BY <1>1, Invariant, PTL

(* A shutdown with no workflow left to wait for has been completed.        *)
THEOREM ShutdownRemembered == Spec => []ShutdownNotForgotten
<1>1. IInv => ShutdownNotForgotten
  BY DEF IInv
<1> QED BY <1>1, Invariant, PTL

(* What became of each authentication request is what the controller holds. *)
THEOREM AuthRequestsAccounted == Spec => []AuthAccounted
<1>1. IInv => AuthAccounted
  BY DEF IInv
<1> QED BY <1>1, Invariant, PTL

-----------------------------------------------------------------------------
(* AppController implements the request desk. *)

LEMMA StepKeepsPromise ==
  ASSUME IInv, [Next]_vars
  PROVE  [Desk!Next]_(Desk!vars)
<1> USE DEF Desk!Next, Desk!vars
<1>1. ASSUME UNCHANGED <<active, waiting, shutdownRunning>> PROVE UNCHANGED Desk!vars
  BY <1>1
<1>2. active = Nobody => waiting = Nobody
  BY DEF IInv, WaitingHasWorkflow
<1>3. CASE OnChangePinRequested
  <2>1. "PIN" \in Requests
    BY DEF Requests, UiRequests
  <2> QED BY <1>2, <1>3, <2>1
          DEF OnChangePinRequested, StartNewWorkflow, canStartNewAction, workflowVars,
              shutdownVars, Desk!Begin, Desk!Reserve
<1>4. ASSUME NEW k \in {"SELF", "REMOTE_SERVICE"}, OnUiWorkflowRequested(k)
      PROVE  [Desk!Next]_(Desk!vars)
  <2>1. k \in Requests
    BY DEF Requests, UiRequests
  <2> QED BY <1>2, <1>4, <2>1
          DEF OnUiWorkflowRequested, StartNewWorkflow, canStartNewAction, workflowVars,
              shutdownVars, Desk!Begin
<1>5. ASSUME NEW r \in AuthRequests, OnAuthenticationRequest(r)
      PROVE  [Desk!Next]_(Desk!vars)
  <2>1. r \in Requests
    BY DEF Requests
  <2> QED BY <1>2, <1>5, <2>1
          DEF OnAuthenticationRequest, StartNewWorkflow, canStartNewAction, workflowVars,
              shutdownVars, Desk!Begin, Desk!Reserve
<1>6. CASE OnWorkflowFinished
  <2>1. active # Nobody
    <3>1. "complete" \in Ends /\ Holds(posted, "complete")
      BY <1>6, Arrived DEF OnWorkflowFinished, Ends
    <3> QED BY <3>1 DEF IInv, EndOnItsWay, IdleIffNobody
  <2> QED BY <1>6, <2>1
          DEF OnWorkflowFinished, ServeWaiting, StartNewWorkflow, EndWorkflow, Desk!Finish
<1>7. CASE QuitRequested \/ OnSignal
  <2>1. PICK q : DoShutdown(q)
    BY <1>7 DEF QuitRequested, OnSignal
  <2> QED BY <1>2, <2>1 DEF DoShutdown, ClearQueue, Desk!Close
<1>8. ASSUME NEW k \in UiRequests, UiAsks(k) PROVE UNCHANGED Desk!vars
  BY <1>1, <1>8 DEF UiAsks, workflowVars, shutdownVars
<1>9. ASSUME NEW r \in AuthRequests, CallerAsks(r) PROVE UNCHANGED Desk!vars
  BY <1>1, <1>9 DEF CallerAsks, workflowVars, shutdownVars
<1>10. CASE OnMachineFinished \/ EnterFirstState \/ ReachFinalState \/ ApproveFinalState
            \/ GetSignal \/ Quit \/ Terminated \/ UNCHANGED vars
  BY <1>1, <1>10 DEF OnMachineFinished, EnterFirstState, GetSignal, ReachFinalState, ApproveFinalState, Quit, Terminated,
                     vars, workflowVars, shutdownVars
<1> QED BY <1>3, <1>4, <1>5, <1>6, <1>7, <1>8, <1>9, <1>10 DEF Next, Handle

(* One workflow at a time, one waiting request, served next: every step of *)
(* AppController is a step of the request desk or none.                    *)
THEOREM Refinement == Spec => KeepsDeskPromise
<1>1. Init => Desk!Init
  BY DEF Init, Desk!Init
<1>2. IInv /\ [Next]_vars => [Desk!Next]_(Desk!vars)
  BY StepKeepsPromise
<1> QED BY <1>1, <1>2, Invariant, PTL DEF Spec, KeepsDeskPromise, Desk!Spec
=============================================================================
