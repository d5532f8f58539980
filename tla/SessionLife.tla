---------------------------- MODULE SessionLife ----------------------------
(***************************************************************************)
(* A session between the edge's store, the browser's one cookie jar and    *)
(* the tabs that refresh it: tooling/edge-dev/src/session-store.ts and     *)
(* routes.ts, packages/auth/src/refresh.ts and context.tsx (AuthProvider). *)
(*                                                                         *)
(* Time is counted in ticks and does not pass while a call is in flight or *)
(* a timer is due: the tabs are awake and the network is fast.             *)
(***************************************************************************)
EXTENDS Naturals, FiniteSets

CONSTANTS
  Tab,          \* tabs of one browser profile
  Applicant,    \* the portal's session kind: a citizen's, or else an officer's
  IdleTtl, AbsoluteTtl,   \* EDGE_SESSION_IDLE_TTL_SECONDS and ..._ABSOLUTE_...
  Warning,      \* ABSOLUTE_WARNING_WINDOW_MS
  MinDelay,     \* MIN_REFRESH_DELAY_MS
  BootIsFast,   \* bound: the answer at mount comes before a login is submitted
  MaxTime,      \* bound: the clock
  MaxHandles,   \* bound: sessions created
  MaxCloses,    \* bound: tabs closed or reloaded
  MaxErrors,    \* bound: 5xx answers
  MaxThrows     \* bound: calls that fetch rejects

ASSUME SessionNumbers ==
  /\ {IdleTtl, AbsoluteTtl, Warning, MinDelay, MaxHandles} \subseteq Nat \ {0}
  /\ {MaxTime, MaxCloses, MaxErrors, MaxThrows} \subseteq Nat
ASSUME CeilingAboveWindow == AbsoluteTtl >= IdleTtl
ASSUME KindAssumption == {Applicant, BootIsFast} \subseteq BOOLEAN

Handle == 1..MaxHandles      \* 0 where there is no cookie

VARIABLES
  now,
  store,      \* [Handle -> the edge's session behind it]
  upstream,   \* handles whose identity-service session is alive
  cookie,     \* the browser's session cookie: [handle, until]
  tabs,       \* [Tab -> AuthProvider and its refresh loop]
  calls,      \* [Tab -> [CallKind -> a call of the tab in flight]]
  left,       \* closes, errors and throws left to happen
  signedOut   \* history: handles whose sign-out was answered

sessionVars == <<now, store, upstream, cookie, tabs, calls, left, signedOut>>

Time == 0..(MaxTime + AbsoluteTtl)
View == [idle : Time, ceiling : Time]
NoView == [idle |-> 0, ceiling |-> 0]

CallKind == {"boot", "load", "refresh", "login", "logout"}
AuthCall == [phase : {"idle", "sent", "answered"}, live : BOOLEAN, handle : Handle \cup {0},
              ok : BOOLEAN, view : View,
              set : [keep : BOOLEAN, handle : Handle \cup {0}]]   \* its Set-Cookie
Keep == [keep |-> TRUE, handle |-> 0]
Clear == [keep |-> FALSE, handle |-> 0]
Issue(h) == [keep |-> FALSE, handle |-> h]
Idle == [phase |-> "idle", live |-> FALSE, handle |-> 0, ok |-> FALSE, view |-> NoView,
         set |-> Keep]

TabState == [status : {"closed", "checking", "anonymous", "authenticated", "expired"},
             view : View, timer : {"none", "refresh", "ceiling"}, at : Nat]
Closed == [status |-> "closed", view |-> NoView, timer |-> "none", at |-> 0]
Shows(status) == [Closed EXCEPT !.status = status]

SessionTypeOK ==
  /\ now \in 0..MaxTime
  /\ store \in [Handle -> [open : BOOLEAN, seen : Time, ceiling : Time]]
  /\ upstream \subseteq Handle
  /\ cookie \in [handle : Handle \cup {0}, until : Time]
  /\ tabs \in [Tab -> TabState]
  /\ calls \in [Tab -> [CallKind -> AuthCall]]
  /\ left \in [closes : 0..MaxCloses, errors : 0..MaxErrors, throws : 0..MaxThrows]
  /\ signedOut \subseteq Handle

SessionInit ==
  /\ now = 0
  /\ store = [h \in Handle |-> [open |-> FALSE, seen |-> 0, ceiling |-> 0]]
  /\ upstream = {}
  /\ cookie = [handle |-> 0, until |-> 0]
  /\ tabs = [t \in Tab |-> Closed]
  /\ calls = [t \in Tab |-> [k \in CallKind |-> Idle]]
  /\ left = [closes |-> MaxCloses, errors |-> MaxErrors, throws |-> MaxThrows]
  /\ signedOut = {}

----------------------------------------------------------------------------
(* The edge's store *)

Minimum(a, b) == IF a <= b THEN a ELSE b
Maximum(a, b) == IF a >= b THEN a ELSE b

\* Mutant: the idle window counts from the session's creation.
TouchesMutant(h) == h # 0 /\ store[h].open /\ now < store[h].ceiling
                    /\ now - (store[h].ceiling - AbsoluteTtl) < IdleTtl

\* touch() finds a session: known, below its ceiling, inside its idle window.
Touches(h) == h # 0 /\ store[h].open /\ now < store[h].ceiling
              /\ now - store[h].seen < IdleTtl

\* ... and slides its window; a session it finds expired is deleted.
Touched(h) ==
  IF h = 0 THEN store
  ELSE IF Touches(h) THEN [store EXCEPT ![h].seen = now]
  ELSE [store EXCEPT ![h].open = FALSE]

\* view() right after a touch.
ViewOf(h) == [idle |-> Minimum(now + IdleTtl, store[h].ceiling), ceiling |-> store[h].ceiling]

----------------------------------------------------------------------------
(* The tab *)

\* Mutant: a session that is about to reach its ceiling is given up.
PlanGivesUp(v) ==
  IF v.ceiling <= now + Warning THEN Shows("expired")
  ELSE [Shows("authenticated") EXCEPT !.view = v, !.timer = "refresh",
                                      !.at = now + Maximum(MinDelay, ((v.idle - now) * 3) \div 4)]

\* Mutant: refreshing stops longer before the ceiling than the window lasts.
PlanStopsEarly(v) ==
  IF v.ceiling <= now \/ v.idle <= now THEN Shows("expired")
  ELSE IF v.ceiling - now <= IdleTtl + Warning
    THEN [Shows("authenticated") EXCEPT !.view = v, !.timer = "ceiling", !.at = v.ceiling]
  ELSE [Shows("authenticated") EXCEPT !.view = v, !.timer = "refresh",
                                      !.at = now + Maximum(MinDelay, ((v.idle - now) * 3) \div 4)]

\* Mutant: the tab warns, and does not come back to it at the ceiling.
PlanForgets(v) ==
  IF v.ceiling <= now \/ v.idle <= now THEN Shows("expired")
  ELSE IF v.ceiling - now <= Warning THEN [Shows("authenticated") EXCEPT !.view = v]
  ELSE [Shows("authenticated") EXCEPT !.view = v, !.timer = "refresh",
                                      !.at = now + Maximum(MinDelay, ((v.idle - now) * 3) \div 4)]

\* planRefresh and schedule: what a tab does about the session it was shown.
Plan(v) ==
  IF v.ceiling <= now \/ v.idle <= now THEN Shows("expired")
  ELSE IF v.ceiling - now <= Warning
    THEN [Shows("authenticated") EXCEPT !.view = v, !.timer = "ceiling", !.at = v.ceiling]
  ELSE LET scheduled == Maximum(MinDelay, ((v.idle - now) * 3) \div 4)
           delay == Minimum(scheduled, Maximum(MinDelay, v.ceiling - now - Warning))
       IN [Shows("authenticated") EXCEPT !.view = v, !.timer = "refresh", !.at = now + delay]

BrowserHandle == IF cookie.until > now THEN cookie.handle ELSE 0

Sent == [Idle EXCEPT !.phase = "sent", !.live = TRUE, !.handle = BrowserHandle]
Free(t, k) == calls[t][k].phase = "idle"

\* setState with anything but the session at hand ends the running loop: the
\* answer of its refresh, if one is in flight, will be ignored.
EndLoop(t, cs) == [cs EXCEPT ![t]["refresh"].live = FALSE]

Open(t) ==
  /\ tabs[t].status = "closed" /\ \A k \in CallKind : Free(t, k)
  /\ tabs' = [tabs EXCEPT ![t] = Shows("checking")]
  /\ calls' = [calls EXCEPT ![t]["boot"] = Sent]
  /\ UNCHANGED <<now, store, upstream, cookie, left, signedOut>>

Close(t) ==
  /\ tabs[t].status # "closed"
  /\ left.closes > 0 /\ left' = [left EXCEPT !.closes = @ - 1]
  /\ tabs' = [tabs EXCEPT ![t] = Closed]
  /\ calls' = [calls EXCEPT ![t] = [k \in CallKind |-> [@[k] EXCEPT !.live = FALSE]]]
  /\ UNCHANGED <<now, store, upstream, cookie, signedOut>>

\* The login page is shown while the boot answer is awaited, too.
SignIn(t) ==
  /\ tabs[t].status \in {"checking", "anonymous", "expired"}
  /\ Free(t, "login") /\ Free(t, "load")
  /\ BootIsFast => Free(t, "boot")
  /\ calls' = [calls EXCEPT ![t]["login"] = Sent]
  /\ UNCHANGED <<now, store, upstream, cookie, tabs, left, signedOut>>

SignOut(t) ==
  /\ tabs[t].status = "authenticated" /\ Free(t, "logout")
  /\ calls' = [calls EXCEPT ![t]["logout"] = Sent]
  /\ UNCHANGED <<now, store, upstream, cookie, tabs, left, signedOut>>

\* Any other request of a signed-in tab: requireSession slides the window and
\* no cookie comes back. It is answered at once.
Work(t) ==
  /\ tabs[t].status = "authenticated"
  /\ store' = Touched(BrowserHandle) /\ store' # store
  /\ UNCHANGED <<now, upstream, cookie, tabs, calls, left, signedOut>>

TimerFires(t) ==
  /\ tabs[t].timer # "none" /\ tabs[t].at <= now
  /\ \/ /\ tabs[t].timer = "refresh" /\ Free(t, "refresh")
        /\ tabs' = [tabs EXCEPT ![t].timer = "none"]
        /\ calls' = [calls EXCEPT ![t]["refresh"] = Sent]
     \/ /\ tabs[t].timer = "ceiling"
        /\ tabs' = [tabs EXCEPT ![t] = Shows("expired")]
        /\ calls' = EndLoop(t, calls)
  /\ UNCHANGED <<now, store, upstream, cookie, left, signedOut>>

Tick ==
  /\ now < MaxTime /\ now' = now + 1
  /\ \A t \in Tab : /\ \A k \in CallKind : Free(t, k)
                    /\ tabs[t].timer # "none" => tabs[t].at > now
  /\ UNCHANGED <<store, upstream, cookie, tabs, calls, left, signedOut>>

----------------------------------------------------------------------------
(* The edge's handlers *)

Answered(t, k, ok, v, set) ==
  calls' = [calls EXCEPT ![t][k].phase = "answered", ![t][k].ok = ok,
                         ![t][k].view = v, ![t][k].set = set]

\* GET /session slides the window; POST /session/refresh also re-issues the
\* cookie, or clears it.
ServeSession(t, k) ==
  LET h == calls[t][k].handle IN
  /\ k \in {"boot", "load", "refresh"} /\ calls[t][k].phase = "sent"
  /\ store' = Touched(h)
  /\ IF Touches(h)
       THEN Answered(t, k, TRUE, ViewOf(h), IF k = "refresh" THEN Issue(h) ELSE Keep)
       ELSE Answered(t, k, FALSE, NoView, IF k = "refresh" THEN Clear ELSE Keep)
  /\ UNCHANGED <<now, upstream, cookie, tabs, left, signedOut>>

\* The old session, if there is one, is left as it is.
ServeLogin(t) ==
  /\ calls[t]["login"].phase = "sent"
  /\ \/ \E h \in Handle :
          /\ store[h].ceiling = 0 /\ \A g \in 1..(h - 1) : store[g].ceiling # 0
          /\ store' = [store EXCEPT ![h] = [open |-> TRUE, seen |-> now,
                                            ceiling |-> now + AbsoluteTtl]]
          /\ upstream' = upstream \cup {h}
          /\ Answered(t, "login", TRUE, NoView, Issue(h))
     \/ /\ Answered(t, "login", FALSE, NoView, Keep)
        /\ UNCHANGED <<store, upstream>>
  /\ UNCHANGED <<now, cookie, tabs, left, signedOut>>

\* Mutant: the browser's cookies are cleared, the session is not revoked.
ServeLogoutMutant(t) ==
  /\ calls[t]["logout"].phase = "sent"
  /\ Answered(t, "logout", TRUE, NoView, Keep)
  /\ UNCHANGED <<now, store, upstream, cookie, tabs, left, signedOut>>

\* Mutant: the edge forgets a citizen's session and does not tell upstream.
ServeLogoutEdgeOnly(t) ==
  LET h == calls[t]["logout"].handle IN
  /\ calls[t]["logout"].phase = "sent"
  /\ store' = IF h = 0 THEN store ELSE [store EXCEPT ![h].open = FALSE]
  /\ Answered(t, "logout", TRUE, NoView, Clear)
  /\ UNCHANGED <<now, upstream, cookie, tabs, left, signedOut>>

\* The edge still has the session: whether it has expired is not asked.
Peeks(h) == h # 0 /\ store[h].open

\* A citizen's session that the edge still has is revoked upstream first,
\* whatever is answered; an officer's token cannot be. Then the edge's own is
\* revoked, and the cookie cleared.
ServeLogout(t) ==
  LET h == calls[t]["logout"].handle IN
  /\ calls[t]["logout"].phase = "sent"
  /\ store' = IF h = 0 THEN store ELSE [store EXCEPT ![h].open = FALSE]
  /\ \/ /\ upstream' = IF Applicant /\ Peeks(h) THEN upstream \ {h} ELSE upstream
        /\ UNCHANGED left
     \/ /\ Applicant /\ Peeks(h)
        /\ left.errors > 0 /\ left' = [left EXCEPT !.errors = @ - 1]
        /\ UNCHANGED upstream
  /\ Answered(t, "logout", TRUE, NoView, Clear)
  /\ UNCHANGED <<now, cookie, tabs, signedOut>>

\* A 5xx: the handler threw (a citizen's logout whose upstream cannot be
\* reached does) and changed nothing.
ServeError(t, k) ==
  /\ calls[t][k].phase = "sent"
  /\ left.errors > 0 /\ left' = [left EXCEPT !.errors = @ - 1]
  /\ Answered(t, k, FALSE, NoView, Keep)
  /\ UNCHANGED <<now, store, upstream, cookie, tabs, signedOut>>

----------------------------------------------------------------------------
(* The answers *)

\* The browser obeys Set-Cookie whether or not a script still waits.
SetCookie(c) ==
  cookie' = IF c.set.keep THEN cookie
            ELSE [handle |-> c.set.handle, until |-> IF c.set = Clear THEN 0 ELSE now + IdleTtl]

Gone(t, k, cs) == [cs EXCEPT ![t][k] = Idle]

\* The new state of the tab once a call of kind k has been answered.
AfterAnswer(t, k) ==
  LET c == calls[t][k] IN
  CASE k \in {"boot", "load"} -> IF c.ok THEN Plan(c.view) ELSE Shows("anonymous")
    [] k = "refresh"          -> IF c.ok THEN Plan(c.view) ELSE Shows("expired")
    [] k = "logout"           -> Shows("anonymous")
    [] OTHER                  -> tabs[t]

\* A login that succeeded asks for the session; any other answer sets the
\* state, and a state that is set ends the loop before it.
HearAnswer(t, k) ==
  LET c == calls[t][k] IN
  /\ c.phase = "answered"
  /\ SetCookie(c)
  /\ tabs' = IF c.live THEN [tabs EXCEPT ![t] = AfterAnswer(t, k)] ELSE tabs
  /\ calls' = CASE c.live /\ k = "login" /\ c.ok ->
                     [Gone(t, k, calls) EXCEPT ![t]["load"] =
                        [Sent EXCEPT !.handle = cookie'.handle]]
                [] c.live /\ k # "login" -> Gone(t, k, EndLoop(t, calls))
                [] OTHER                 -> Gone(t, k, calls)
  /\ signedOut' = IF k = "logout" THEN signedOut \cup ({c.handle} \ {0}) ELSE signedOut
  /\ UNCHANGED <<now, store, upstream, left>>

\* fetch rejects: whatever awaited it goes no further.
Throw(t, k) ==
  /\ calls[t][k].phase # "idle"
  /\ left.throws > 0 /\ left' = [left EXCEPT !.throws = @ - 1]
  /\ calls' = Gone(t, k, calls)
  /\ UNCHANGED <<now, store, upstream, cookie, tabs, signedOut>>

Serve(t) == (\E k \in CallKind : ServeSession(t, k)) \/ ServeLogin(t) \/ ServeLogout(t)

Answers(t) == \E k \in CallKind : HearAnswer(t, k)

SessionNext ==
  \/ \E t \in Tab :
       \/ Open(t) \/ Close(t) \/ SignIn(t) \/ SignOut(t) \/ Work(t) \/ TimerFires(t)
       \/ Serve(t) \/ Answers(t)
       \/ \E k \in CallKind : ServeError(t, k) \/ Throw(t, k)
  \/ Tick

SessionSpec == SessionInit /\ [][SessionNext]_sessionVars

\* Time passes, due timers fire, calls are served and their answers received;
\* the people owe nothing.
FairSessionSpec ==
  /\ SessionSpec
  /\ WF_sessionVars(Tick)
  /\ \A t \in Tab : /\ WF_sessionVars(TimerFires(t))
                    /\ WF_sessionVars(Serve(t)) /\ WF_sessionVars(Answers(t))

----------------------------------------------------------------------------
(* Properties *)

Quiet(t) == \A k \in CallKind : Free(t, k)
NoSignOut == signedOut = {} /\ \A t \in Tab : Free(t, "logout")
Live(h) == h # 0 /\ store[h].open /\ now < store[h].ceiling /\ now < store[h].seen + IdleTtl

\* No answer has been a 5xx yet; no call has been left without an answer.
EdgeAnswers == left.errors = MaxErrors
NothingLost == left.throws = MaxThrows

\* A signed-in tab keeps, until the ceiling, a session its next request can use
\* (refresh.ts: "an active user must never be logged out mid-form").
ActiveUserKeepsSession ==
  NoSignOut =>
    \A t \in Tab : tabs[t].status = "authenticated" /\ Quiet(t) /\ now < tabs[t].view.ceiling
                   => Live(BrowserHandle)

\* A tab that warns of the ceiling names the time its session really ends: the
\* idle window, which nothing refreshes any more, does not close before it.
WarnIsHonest ==
  NoSignOut =>
    \A t \in Tab : tabs[t].timer = "ceiling" /\ Quiet(t) /\ now < tabs[t].at
                   => \E h \in Handle : /\ store[h].open /\ store[h].ceiling = tabs[t].at
                                        /\ store[h].seen + IdleTtl >= tabs[t].at

\* While every call is answered, and none by a 5xx, a lone tab that says its
\* session is over is right (refresh.ts: "before the session is actually lost").
ExpiredMeansLost ==
  EdgeAnswers /\ NothingLost =>
    \A t \in Tab : tabs[t].status = "expired" /\ Quiet(t) => ~Live(BrowserHandle)

\* While the edge answers, a session that was signed out of is dead at the edge,
\* and no answer that is still to come brings it back.
SignedOutMeansRevoked ==
  EdgeAnswers => \A h \in signedOut : ~Live(h)

\* While the edge and upstream answer, every citizen's session that is alive in
\* identity-service and that the edge has forgotten is one whose window or ceiling
\* had passed at the edge: no sign-out, of whichever tab and behind whichever
\* answer, leaves one that could still be used "a live citizen session in
\* identity-service that nothing can now reach" (routes.ts). A session that expires
\* at the edge first does stay so: the sign-out after it is the edge's alone.
OrphansHadExpired ==
  Applicant /\ EdgeAnswers =>
    \A h \in upstream : \/ store[h].open
                       \/ now >= store[h].ceiling
                       \/ now >= store[h].seen + IdleTtl

\* No tab stays signed in past the ceiling it was told, unless a call of its
\* own was left without an answer: the sign-out is shown.
CeilingIsShown ==
  \A t \in Tab : LET stale == /\ tabs[t].status = "authenticated" /\ NothingLost
                               /\ now >= tabs[t].view.ceiling
                 IN stale ~> ~stale

=============================================================================
