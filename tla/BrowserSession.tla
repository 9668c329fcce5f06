--------------------------- MODULE BrowserSession ---------------------------
(***************************************************************************)
(* The tabs of one browser over the refresh tokens of AuthSessions         *)
(* (frontend lib/api/client.ts, lib/auth.ts, lib/api/auth.ts, the pages of *)
(* login and registration).                                                *)
(*                                                                         *)
(* A tab keeps its access token in memory, the browser one refresh cookie  *)
(* for all tabs.  A call that is answered 401 refreshes and tries once     *)
(* more; calls of one tab share the refresh in flight, those of two tabs   *)
(* do not.  The refresh and the sign-in of call c are the request of slot  *)
(* c at the server.  Any answer may be late, or lost.                      *)
(***************************************************************************)
EXTENDS AuthSessions, Naturals

CONSTANTS
    Tabs,     \* tabs of the browser
    Calls,    \* calls of apiFetch that may be pending at a time
    Tab,      \* Tab[c]: the tab that c belongs to
    MaxEvents \* bound: how often something happens to the session from outside

ASSUME CallsOK ==
    /\ Tab \in [Calls -> Tabs]
    /\ Calls = Requests
    /\ None \notin Calls
    /\ MaxEvents \in Nat

VARIABLES
    cookie,  \* the refresh token that the browser sends along, or None
    access,  \* access[t]: accessToken of lib/auth.ts
    flight,  \* flight[t]: the call whose refresh is refreshPromise, or None
    inside,  \* the tabs that show a page other than login and registration
    call,    \* call[c]: how far apiFetch has got
    shownBy, \* history: shownBy[k], the tabs that refreshed with token k
    lossy,   \* history: an answer of the server was lost
    events   \* history: how many pages were loaded by their address, fetches
             \* failed, tokens expired, and interventions from other devices

client == <<cookie, access, flight, inside, call, shownBy, lossy, events>>
server == <<account, token, req>>
all    == <<server, client>>

\* sent: with a token that the server will accept, or will not; refreshing:
\* its own refresh is under way; waiting: that of another call; signing: the
\* form of login or registration; gone: the client has given up on the server.
\* shown is history: the cookie that went with its refresh.
CallState ==
    [at : {"idle", "sentGood", "sentBad", "refreshing", "waiting", "signing", "gone"},
     retried : BOOLEAN, shown : Tokens \cup {None}]

ClientTypeOK ==
    /\ cookie \in Tokens \cup {None}
    /\ access \in [Tabs -> {"none", "good", "stale"}]
    /\ flight \in [Tabs -> Calls \cup {None}]
    /\ inside \in SUBSET Tabs
    /\ call \in [Calls -> CallState]
    /\ shownBy \in [Tokens -> SUBSET Tabs]
    /\ lossy \in BOOLEAN
    /\ events \in 0..MaxEvents

BrowserTypeOK == TypeOK /\ ClientTypeOK

Idle == [at |-> "idle", retried |-> FALSE, shown |-> None]

ClientInit ==
    /\ cookie = None
    /\ access = [t \in Tabs |-> "none"]
    /\ flight = [t \in Tabs |-> None]
    /\ inside = {}
    /\ call = [c \in Calls |-> Idle]
    /\ shownBy = [k \in Tokens |-> {}]
    /\ lossy = FALSE
    /\ events = 0

BrowserInit == Init /\ ClientInit

\* Something that the session does not do by itself.
Event == events < MaxEvents /\ events' = events + 1

-----------------------------------------------------------------------------
(* Signing in.                                                             *)

\* The browser hands over the answer of c, and the slot is free again.
TakeAnswer(c) ==
    /\ req' = [req EXCEPT ![c] = NoRequest]
    /\ UNCHANGED <<account, token>>

\* The server has, or had, a request of c whose answer is not taken yet.
Asking(c) == call[c].at \in {"refreshing", "signing", "gone"}

Pending(t) == {c \in Calls : Tab[c] = t /\ call[c].at \notin {"idle", "gone"}}

\* Slots of calls are taken in a fixed order.
NextSlot(c) ==
    /\ call[c].at = "idle"
    /\ c = CHOOSE d \in Calls : Tab[d] = Tab[c] /\ call[d].at = "idle"

\* POST /auth/login and /auth/register from their pages.
SignIn(c, m) ==
    /\ NextSlot(c) /\ Tab[c] \notin inside /\ Pending(Tab[c]) = {}
    /\ Login(c, m) \/ Register(c, m)
    /\ call' = [call EXCEPT ![c].at = "signing"]
    /\ UNCHANGED <<cookie, access, flight, inside, shownBy, lossy, events>>

\* Set-Cookie and setSession, or a message under the form.
SignedIn(c) ==
    /\ call[c].at = "signing" /\ req[c].pc = "over"
    /\ \/ /\ req[c].answer = "ok"
          /\ cookie' = req[c].made
          /\ access' = [access EXCEPT ![Tab[c]] = "good"]
          /\ inside' = inside \cup {Tab[c]}
       \/ req[c].answer # "ok" /\ UNCHANGED <<cookie, access, inside>>
    /\ call' = [call EXCEPT ![c] = Idle]
    /\ TakeAnswer(c)
    /\ UNCHANGED <<flight, shownBy, lossy, events>>

\* A page is opened or loaded again by its address: what the tab had in memory
\* is gone, and of its requests only the server knows.
Reload(t) ==
    /\ Event
    /\ access' = [access EXCEPT ![t] = "none"]
    /\ flight' = [flight EXCEPT ![t] = None]
    /\ inside' = inside \cup {t}
    /\ call' = [c \in Calls |->
                  CASE Tab[c] # t -> call[c]
                    [] Tab[c] = t /\ Asking(c) -> [Idle EXCEPT !.at = "gone"]
                    [] OTHER -> Idle]
    /\ lossy' = (lossy \/ \E c \in Calls : Tab[c] = t /\ Asking(c))
    /\ UNCHANGED <<server, cookie, shownBy>>

-----------------------------------------------------------------------------
(* Calls of apiFetch.                                                      *)

\* The request is given the state of the token for its own.
SentAsBug(t) == access[t]

SentAs(t) == IF access[t] = "good" THEN "sentGood" ELSE "sentBad"

\* The request goes out with the access token of the moment.
Send(c) ==
    /\ NextSlot(c) /\ Tab[c] \in inside
    /\ call' = [call EXCEPT ![c].at = SentAs(Tab[c])]
    /\ UNCHANGED <<server, cookie, access, flight, inside, shownBy, lossy, events>>

\* 15 minutes have passed, for the token in memory and for those on the way.
ExpireAccess(t) ==
    /\ access[t] = "good"
    /\ access' = [access EXCEPT ![t] = "stale"]
    /\ call' = [c \in Calls |->
                  IF Tab[c] = t /\ call[c].at = "sentGood"
                    THEN [call[c] EXCEPT !.at = "sentBad"] ELSE call[c]]
    /\ UNCHANGED <<server, cookie, flight, inside, shownBy, lossy, events>>

\* Any answer but 401, or the network's: the call is over.
Answered(c) ==
    /\ call[c].at = "sentGood" \/ (call[c].at = "sentBad" /\ call[c].retried)
    /\ call' = [call EXCEPT ![c] = Idle]
    /\ UNCHANGED <<server, cookie, access, flight, inside, shownBy, lossy, events>>

\* Without refreshPromise: every call refreshes for itself.
MustWaitBug(c) == FALSE

\* "if (refreshPromise) return refreshPromise".
MustWait(c) == flight[Tab[c]] # None

Join(c) ==
    /\ call' = [call EXCEPT ![c].at = "waiting"]
    /\ UNCHANGED <<server, flight, shownBy>>

\* POST /auth/refresh, with the cookie if there is one.
StartRefresh(c) ==
    /\ call' = [call EXCEPT ![c].at = "refreshing", ![c].shown = cookie]
    /\ flight' = [flight EXCEPT ![Tab[c]] = c]
    /\ \/ /\ cookie # None /\ Refresh(c, cookie)
          /\ shownBy' = [shownBy EXCEPT ![cookie] = @ \cup {Tab[c]}]
       \/ /\ cookie = None /\ Finish(c, NoRequest, "refused")
          /\ UNCHANGED <<account, token, shownBy>>

\* 401 at the first try.
Unauthorized(c) ==
    /\ call[c].at = "sentBad" /\ ~call[c].retried
    /\ \/ MustWait(c) /\ Join(c)
       \/ ~MustWait(c) /\ StartRefresh(c)
    /\ UNCHANGED <<cookie, access, inside, lossy, events>>

-----------------------------------------------------------------------------
(* The answer to a refresh.                                                *)

Sharers(c) == {d \in Calls : d = c \/ (Tab[d] = Tab[c] /\ call[d].at = "waiting")}

Resent == [Idle EXCEPT !.at = "sentGood", !.retried = TRUE]

Landed(c) == flight' = [flight EXCEPT ![Tab[c]] = None]

\* Only the call that refreshed goes on.
RetryBug(c) == call' = [call EXCEPT ![c] = Resent]

\* All that share the refresh are sent again, with "retried" set.
Retry(c) ==
    call' = [d \in Calls |->
               IF d \in Sharers(c) THEN Resent ELSE call[d]]

Refreshed(c) ==
    /\ call[c].at = "refreshing" /\ req[c].pc = "over" /\ req[c].answer = "ok"
    /\ cookie' = req[c].made
    /\ access' = [access EXCEPT ![Tab[c]] = "good"]
    /\ Retry(c) /\ Landed(c) /\ TakeAnswer(c)
    /\ UNCHANGED <<inside, shownBy, lossy, events>>

\* Any other status, that of a time-out or of a failed statement, too: the
\* session is cleared and the page of login loaded.
Kicked(c) ==
    /\ call[c].at = "refreshing" /\ req[c].pc = "over" /\ req[c].answer # "ok"
    /\ access' = [access EXCEPT ![Tab[c]] = "none"]
    /\ inside' = inside \ {Tab[c]}
    /\ call' = [d \in Calls |->
                  IF Tab[d] = Tab[c] /\ (d = c \/ ~Asking(d)) THEN Idle ELSE call[d]]
    /\ Landed(c) /\ TakeAnswer(c)
    /\ lossy' = (lossy \/ req[c].answer = "lost")
    /\ UNCHANGED <<cookie, shownBy, events>>

\* fetch fails: the promise is rejected for all that share it, and forgotten.
\* The server may have done its part, or may still be doing it.
NetworkFails(c) ==
    /\ call[c].at = "refreshing" /\ Event
    /\ call' = [d \in Calls |->
                  CASE d = c -> [Idle EXCEPT !.at = "gone"]
                    [] d \in Sharers(c) \ {c} -> Idle
                    [] OTHER -> call[d]]
    /\ Landed(c)
    /\ lossy' = TRUE
    /\ UNCHANGED <<server, cookie, access, inside, shownBy>>

\* The answer that nobody waits for; the cookie in it may still arrive.
Forget(c) ==
    /\ call[c].at = "gone" /\ Free(c)
    /\ cookie' \in {cookie} \cup (IF req[c].answer = "ok" THEN {req[c].made} ELSE {})
    /\ call' = [call EXCEPT ![c] = Idle]
    /\ TakeAnswer(c)
    /\ UNCHANGED <<access, flight, inside, shownBy, lossy, events>>

Deliver(c) == Refreshed(c) \/ Kicked(c) \/ SignedIn(c)

-----------------------------------------------------------------------------
(* The server goes on with the requests that it has.                       *)

\* Identities of tokens are taken in a fixed order.
NextToken(k) == ~Stored(k) /\ k = CHOOSE u \in Tokens : ~Stored(u)

Serve(r) ==
    /\ \/ LookUp(r) \/ ReadMember(r) \/ RevokeOld(r) \/ Abort(r)
       \/ \E k \in Tokens : NextToken(k) /\ (StoreFirst(r, k) \/ StoreNew(r, k))
    /\ UNCHANGED client

\* On other devices the member signs out everywhere or a pastor deactivates
\* the account; a token gets old.
Others ==
    /\ \/ \E m \in Members : RepoRevokeAll(m) /\ UNCHANGED <<account, req>>
       \/ \E m \in Members : DeactivateMember(m)
       \/ \E k \in Tokens : Expire(k)
    /\ Event
    /\ UNCHANGED <<cookie, access, flight, inside, call, shownBy, lossy>>

BrowserNext ==
    \/ \E c \in Calls :
          \/ \E m \in Members : SignIn(c, m)
          \/ Send(c) \/ Answered(c) \/ Unauthorized(c)
          \/ Deliver(c) \/ NetworkFails(c) \/ Forget(c)
    \/ \E t \in Tabs : Reload(t) \/ ExpireAccess(t)
    \/ \E r \in Requests : Serve(r)
    \/ Others

BrowserSpec == BrowserInit /\ [][BrowserNext]_all

\* The server ends every request, by its time-out if by nothing else (main.go:89),
\* and the browser hands every answer on, or the failure of the network.
TimeOut(c) == Abort(c) /\ UNCHANGED client

Progress(c) == TimeOut(c) \/ Answered(c) \/ Unauthorized(c) \/ Deliver(c)

Fairness == \A c \in Calls : WF_all(Progress(c))

FairBrowserSpec == BrowserSpec /\ Fairness

-----------------------------------------------------------------------------
(* Properties.                                                             *)

Refused(c) == call[c].at = "refreshing" /\ req[c].pc = "over" /\ req[c].answer = "refused"

\* A refresh is refused, and the user sent to the page of login, for a reason
\* outside this tab: no cookie, an old or revoked token, a deactivated account,
\* an answer that was lost, or another tab that has shown the same cookie.  The
\* calls of one tab never push each other out, however many run at a time.
KickedForCause ==
    \A c \in Calls : Refused(c) =>
        \/ call[c].shown = None \/ lossy
        \/ token[call[c].shown].state = "expired"
        \/ token[call[c].shown].by = "logoutAll"
        \/ account[token[call[c].shown].owner] = "inactive"
        \/ shownBy[call[c].shown] # {Tab[c]}

\* What apiFetch was called for comes to an end, again and again: an answer, or
\* an error; a call that shares the refresh of another is not forgotten.
EveryCallSettles == \A c \in Calls : []<>(call[c].at \in {"idle", "gone"})
=============================================================================
