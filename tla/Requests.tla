------------------------------ MODULE Requests ------------------------------
(***************************************************************************)
(* The request layer: calls that carry the token of the local storage,     *)
(* the refresh of an expired token that concurrent calls share, the retry  *)
(* with the new one, and the ends of the session that an answer can cause. *)
(* Tokens are numbered as they are issued; 0 is no token.  The server may  *)
(* give any answer the layer handles; it calls a token expired only after  *)
(* a newer one could exist, so that a retry is not refused for ever.       *)
(***************************************************************************)
EXTENDS Naturals, FiniteSets

CONSTANTS
    Call,       \* the calls made
    MaxToken,   \* bound: tokens the server issues
    MaxRefresh  \* bound: refreshes started

ASSUME RequestsAssumption ==
    /\ IsFiniteSet(Call)
    /\ MaxToken \in Nat \ {0} /\ MaxRefresh \in Nat

VARIABLES
    calls,      \* each call: its state, the token it carries, the refresh it waits for
    bearer,     \* the token in local storage
    renewal,    \* the refresh token in local storage, by the access token issued with it
    issued,     \* server: the last token issued
    expired,    \* server: tokens that have expired
    refreshes,  \* the refreshes started by handleRefreshToken
    refreshFn,  \* state.refreshTokenFn: one of them, or 0
    timers,     \* the timers that will clear it
    dialog      \* the modal that announces the end of the session

requestsVars == <<calls, bearer, renewal, issued, expired, refreshes, refreshFn, timers, dialog>>
storageVars == <<bearer, renewal>>

Refresh == 1 .. MaxRefresh

(* resetStore, of which the layer sees the cleared storage.                *)
ClearSession == bearer' = 0 /\ renewal' = 0

Set(c, at) == [calls EXCEPT ![c].at = at]

(* onRequest puts the token of this moment into the header.                *)
Sent(token) == [at |-> "sent", token |-> token, on |-> 0]

Issue(c) ==
    /\ calls[c].at = "idle"
    /\ calls' = [calls EXCEPT ![c] = Sent(bearer)]
    /\ UNCHANGED <<storageVars, issued, expired, refreshes, refreshFn, timers, dialog>>

ServerExpires(t) ==
    /\ t \in 1 .. issued /\ t < MaxToken
    /\ expired' = expired \cup {t}
    /\ UNCHANGED <<calls, storageVars, issued, refreshes, refreshFn, timers, dialog>>

(* An answer with data.  A new-token header replaces the stored token.     *)
Succeed(c) ==
    /\ calls[c].at = "sent"
    /\ calls' = Set(c, "data")
    /\ \/ UNCHANGED <<bearer, issued>>
       \/ issued < MaxToken /\ issued' = issued + 1 /\ bearer' = issued'
    /\ UNCHANGED <<renewal, expired, refreshes, refreshFn, timers, dialog>>

(* onBackendFail and onError for all but expired tokens: a logout code or  *)
(* 403 ends the session, a modal code does so when its dialog is closed,   *)
(* anything else (a time-out and a cancelled call too) is a message.       *)
Refuse(c) ==
    /\ calls[c].at = "sent"
    /\ calls' = Set(c, "error")
    /\ \/ ClearSession /\ UNCHANGED dialog
       \/ dialog' = TRUE /\ UNCHANGED storageVars
       \/ UNCHANGED <<storageVars, dialog>>
    /\ UNCHANGED <<issued, expired, refreshes, refreshFn, timers>>

CloseDialog ==
    /\ dialog /\ dialog' = FALSE
    /\ ClearSession
    /\ UNCHANGED <<calls, issued, expired, refreshes, refreshFn, timers>>

(* handleExpiredRequest up to its await: the call waits for the promise    *)
(* that is there, settled or not, or starts one.                           *)
Wait(c, r) == [calls EXCEPT ![c].at = "waits", ![c].on = r]

Expired(c) ==
    /\ calls[c].at = "sent" /\ calls[c].token \in expired
    /\ IF refreshFn # 0
       THEN calls' = Wait(c, refreshFn) /\ UNCHANGED <<refreshes, refreshFn>>
       ELSE \E r \in Refresh :
                /\ refreshes[r].at = "none" /\ \A q \in 1 .. r - 1 : refreshes[q].at # "none"
                /\ refreshes' = [refreshes EXCEPT ![r] = [at |-> "sent", token |-> renewal]]
                /\ refreshFn' = r
                /\ calls' = Wait(c, r)
    /\ UNCHANGED <<storageVars, issued, expired, timers, dialog>>

(* The rest of handleRefreshToken.  It stores what it gets whether or not  *)
(* the session it was asked for still exists.                              *)
RefreshReply(r) ==
    /\ refreshes[r].at = "sent"
    /\ \/ /\ issued < MaxToken /\ issued' = issued + 1
          /\ bearer' = issued' /\ renewal' = issued'
          /\ refreshes' = [refreshes EXCEPT ![r].at = "ok"]
       \/ /\ ClearSession
          /\ refreshes' = [refreshes EXCEPT ![r].at = "fail"]
          /\ UNCHANGED issued
    /\ UNCHANGED <<calls, expired, refreshFn, timers, dialog>>

SetTimer == timers' = IF timers < Cardinality(Call) THEN timers + 1 ELSE timers

ResumeOnSuccess(c) ==    \* mutant: a refresh that failed wakes nobody
    /\ calls[c].at = "waits" /\ refreshes[calls[c].on].at = "ok"
    /\ SetTimer
    /\ calls' = [calls EXCEPT ![c] = Sent(bearer)]
    /\ UNCHANGED <<storageVars, issued, expired, refreshes, refreshFn, dialog>>

(* The rest of handleExpiredRequest and of onBackendFail: every call that  *)
(* waited sets a timer of its own, then retries or fails.  More timers     *)
(* than calls make no difference.                                          *)
Resume(c) ==
    /\ calls[c].at = "waits" /\ refreshes[calls[c].on].at \in {"ok", "fail"}
    /\ SetTimer
    /\ calls' = IF refreshes[calls[c].on].at = "ok"
                THEN [calls EXCEPT ![c] = Sent(bearer)] ELSE Set(c, "error")
    /\ UNCHANGED <<storageVars, issued, expired, refreshes, refreshFn, dialog>>

Timer ==
    /\ timers > 0 /\ timers' = timers - 1
    /\ refreshFn' = 0
    /\ UNCHANGED <<calls, storageVars, issued, expired, refreshes, dialog>>

RequestsInit ==
    /\ calls = [c \in Call |-> [at |-> "idle", token |-> 0, on |-> 0]]
    /\ bearer = 1 /\ renewal = 1 /\ issued = 1 /\ expired = {}
    /\ refreshes = [r \in Refresh |-> [at |-> "none", token |-> 0]]
    /\ refreshFn = 0 /\ timers = 0 /\ dialog = FALSE

Progress ==
    \/ \E c \in Call : Succeed(c) \/ Refuse(c) \/ Expired(c) \/ Resume(c)
    \/ \E r \in Refresh : RefreshReply(r)

RequestsNext ==
    \/ \E c \in Call : Issue(c)
    \/ Progress \/ Timer \/ CloseDialog
    \/ \E t \in 1 .. MaxToken : ServerExpires(t)

RequestsSpec == RequestsInit /\ [][RequestsNext]_requestsVars

(* Every request is answered or times out after ten seconds, and timers    *)
(* fire.                                                                   *)
FairRequestsSpec ==
    RequestsSpec /\ WF_requestsVars(Progress) /\ WF_requestsVars(Timer)
----------------------------------------------------------------------------
RequestsTypeOK ==
    /\ calls \in [Call -> [at : {"idle", "sent", "waits", "data", "error"},
                          token : 0 .. MaxToken, on : 0 .. MaxRefresh]]
    /\ {bearer, renewal} \subseteq 0 .. issued /\ issued \in 1 .. MaxToken
    /\ expired \subseteq 1 .. MaxToken - 1
    /\ refreshes \in [Refresh -> [at : {"none", "sent", "ok", "fail"}, token : 0 .. MaxToken]]
    /\ refreshFn \in 0 .. MaxRefresh /\ timers \in 0 .. Cardinality(Call)
    /\ dialog \in BOOLEAN

Outcome ==
    [c \in Call |-> CASE calls[c].at = "idle" -> "none"
                      [] calls[c].at \in {"sent", "waits"} -> "open"
                      [] OTHER -> calls[c].at]

C == INSTANCE Calls WITH outcome <- Outcome

(* A caller gets one answer, and gets it: also when its token expires      *)
(* under it, when the refresh it waits for was started by another call,    *)
(* fails, or is forgotten by a timer while it is under way, and when the   *)
(* session ends in between.                                                *)
ImplementsCalls == C!CallsSpec
=============================================================================
