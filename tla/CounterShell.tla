---------------------------- MODULE CounterShell ----------------------------
(***************************************************************************)
(* The browser shell of apps/web/app/counter-shell.tsx in several tabs of  *)
(* one browser, against the command authority as CommandLog promises it.   *)
(*                                                                         *)
(* The tabs share the cookie jar and nothing else.  A tab waits for at     *)
(* most one request; it keeps the intent it could not get an outcome for   *)
(* and recovers it by a query and an exact retry.  Requests and answers    *)
(* are delayed, lost, or overtaken by those of other tabs; a request       *)
(* nobody waits for any more is still served.                              *)
(*                                                                         *)
(* The network and the server fail at most MaxFailures times, and Guests   *)
(* bounds the guests that are ever issued.  Players, focus, wording and    *)
(* rendering are left out.                                                 *)
(***************************************************************************)
EXTENDS Naturals, Sequences, FiniteSets

CONSTANTS
    Tabs,         \* tabs of the browser
    Guests,       \* guests the server can issue
    Keys,         \* idempotency keys, one for each intent
    Body,         \* the body of an intent: it is bound to its key
    None,         \* nothing there
    MaxRevision,  \* Number.MAX_SAFE_INTEGER
    Rotating,     \* bound: guests whose secret ever falls due
    MaxSecret,    \* bound: rotations of a guest's cookie secret
    MaxFailures,  \* bound: failures of the network and the server
    MaxFloating,  \* bound: requests under way that nobody waits for
    Terminal,     \* revisions at which the service is settled or abandoned
    Faults        \* whether the server may fail inside a request

VARIABLES
    standing, effects, receipts, replied,  \* the command authority
    credential,  \* the secret of each guest, its grace and whether rotation is due
    cookie,      \* the guest cookie in the jar, or None
    tab,         \* the state of each tab
    floating,    \* requests nobody waits for
    failures,    \* failures so far
    told         \* history: what the player was told of each intent

Log == INSTANCE CommandLog WITH Subjects <- Guests, Bodies <- {Body}

logVars == <<standing, effects, receipts, replied>>
server  == <<logVars, credential>>
vars    == <<server, cookie, tab, floating, failures, told>>

-----------------------------------------------------------------------------
(* The shapes *)

Phases  == {"loading", "ready", "sending", "outcome-unknown", "requerying",
            "unavailable", "authority"}
Cookies == [guest : Guests, secret : 0 .. MaxSecret]
Views   == [guest : Guests, revision : 0 .. MaxRevision]  \* the guest is not shown
Intents == [key : Keys, expected : 0 .. MaxRevision]

Credential == [secret : 0 .. MaxSecret, graceOpen : BOOLEAN, due : BOOLEAN]

\* A "view" is a response that decodeServiceResponse accepts: what it finds wrong
\* with a response makes that one of the "lost" answers, as a failed fetch is.
Answers == [kind : {"authority", "rejected", "lost", "reset"}]
           \cup [kind : {"view"}, view : Views]
           \cup [kind : {"issued"}, cookie : Cookies]
           \cup [kind : {"refreshed"}, cookie : Cookies \cup {None}]

Steps == {"query", "execute", "requery", "retry", "reset", "issue"}

\* A request and where the tab continues with its answer.
Call == [step      : Steps,
         cookie    : Cookies \cup {None},   \* the jar when it was sent
         intent    : Intents \cup {None},
         refreshed : BOOLEAN,               \* refreshAttempted
         canonical : Views \cup {None},     \* what the query before a retry saw
         answer    : Answers \cup {None}]

Tab == [phase       : Phases,
        view        : Views \cup {None},    \* viewRef
        intent      : Intents \cup {None},  \* envelopeRef
        call        : Call \cup {None},
        abandonOpen : BOOLEAN]              \* the modal dialog "End this shift early?"

\* The receipt that the command authority keeps for a key.
Receipt == [key : Keys, body : {Body}, expected : 0 .. MaxRevision,
            committed : 0 .. MaxRevision, advanced : BOOLEAN]

ASSUME BoundsAssumption ==
    /\ MaxRevision \in Nat /\ MaxSecret \in Nat
    /\ MaxFailures \in Nat /\ MaxFloating \in Nat

ASSUME NoneAssumption ==
    None \notin Cookies \cup Views \cup Intents \cup Receipt \cup Answers \cup Call

Request(step, jar, intent, refreshed, canonical) ==
    [step |-> step, cookie |-> jar, intent |-> intent, refreshed |-> refreshed,
     canonical |-> canonical, answer |-> None]

IsTerminal(view) == view # None /\ view.revision \in Terminal

-----------------------------------------------------------------------------
(***************************************************************************)
(* What the tab does with itself: each operator maps the state of a tab to *)
(* its next one.                                                           *)
(***************************************************************************)
Resting(v, phase) == [v EXCEPT !.phase = phase, !.call = None]

Cleared(v) == [v EXCEPT !.intent = None]

\* publishView returns at once, phase and all, when the view is an older one.
Published(v, view) ==
    IF v.view # None /\ view.revision < v.view.revision
    THEN [v EXCEPT !.call = None]
    ELSE [v EXCEPT !.call = None, !.view = view, !.phase = "ready"]

Querying(v, refreshed, jar) ==
    [v EXCEPT !.phase = IF v.view = None THEN "loading" ELSE "requerying",
              !.call  = Request("query", jar, None, refreshed, None)]

Reconciling(v, refreshed, jar) ==
    [v EXCEPT !.phase = "requerying",
              !.call  = Request("requery", jar, v.intent, refreshed, None)]

AfterQuery(v, a, jar) ==
    CASE a.kind = "view" -> Published(v, a.view)
      [] a.kind = "refreshed" /\ ~v.call.refreshed -> Querying(v, TRUE, jar)
      [] a.kind = "authority" -> Resting(v, "authority")
      [] OTHER -> Resting(v, "unavailable")

\* Mutant: what is not an outcome is given up for the player to requery.
ExecuteGivesUp(v, a, jar) ==
    CASE a.kind = "view" /\ a.view.revision >= v.view.revision -> Published(Cleared(v), a.view)
      [] a.kind = "refreshed" -> Reconciling(v, TRUE, jar)
      [] a.kind = "authority" -> Resting(Cleared(v), "authority")
      [] OTHER -> Resting(v, "unavailable")

\* Whatever is not an outcome starts the recovery of the intent.
AfterExecute(v, a, jar) ==
    CASE a.kind = "view" /\ a.view.revision >= v.view.revision -> Published(Cleared(v), a.view)
      [] a.kind = "refreshed" -> Reconciling(v, TRUE, jar)
      [] a.kind = "authority" -> Resting(Cleared(v), "authority")
      [] OTHER -> Reconciling(v, FALSE, jar)

AfterRequery(v, a, jar) ==
    CASE a.kind = "view" /\ a.view.revision >= v.intent.expected ->
             [Published(v, a.view) EXCEPT
                 !.phase = "sending",
                 !.call  = Request("retry", jar, v.intent, v.call.refreshed, a.view)]
      [] a.kind = "refreshed" /\ ~v.call.refreshed -> Reconciling(v, TRUE, jar)
      [] a.kind = "authority" -> Resting(Cleared(v), "authority")
      [] OTHER -> Resting(v, "outcome-unknown")

\* Mutant: a retry without an outcome drops the intent it is unsure of.
RetryForgets(v, a, jar) ==
    CASE a.kind = "rejected" -> Published(Cleared(v), v.call.canonical)
      [] a.kind = "refreshed" /\ ~v.call.refreshed -> Reconciling(v, TRUE, jar)
      [] a.kind = "authority" -> Resting(Cleared(v), "authority")
      [] a.kind = "view" /\ a.view.revision >= v.call.canonical.revision ->
             Published(Cleared(v), a.view)
      [] OTHER -> Resting(Cleared(v), "outcome-unknown")

AfterRetry(v, a, jar) ==
    CASE a.kind = "rejected" -> Published(Cleared(v), v.call.canonical)
      [] a.kind = "refreshed" /\ ~v.call.refreshed -> Reconciling(v, TRUE, jar)
      [] a.kind = "authority" -> Resting(Cleared(v), "authority")
      [] a.kind = "view" /\ a.view.revision >= v.call.canonical.revision ->
             Published(Cleared(v), a.view)
      [] OTHER -> Resting(v, "outcome-unknown")

AfterReset(v, a, jar) ==
    IF a.kind = "reset" THEN [v EXCEPT !.call = Request("issue", jar, None, FALSE, None)]
    ELSE Resting(v, "unavailable")

AfterIssue(v, a, jar) ==
    IF a.kind = "issued" THEN Querying(v, FALSE, jar) ELSE Resting(v, "unavailable")

After(v, a, jar) ==
    CASE v.call.step = "query"   -> AfterQuery(v, a, jar)
      [] v.call.step = "execute" -> AfterExecute(v, a, jar)
      [] v.call.step = "requery" -> AfterRequery(v, a, jar)
      [] v.call.step = "retry"   -> AfterRetry(v, a, jar)
      [] v.call.step = "reset"   -> AfterReset(v, a, jar)
      [] v.call.step = "issue"   -> AfterIssue(v, a, jar)

-----------------------------------------------------------------------------
(***************************************************************************)
(* The player, and the browser's own events.                               *)
(***************************************************************************)
Moves(t, v) ==
    /\ tab' = [tab EXCEPT ![t] = v]
    /\ UNCHANGED <<server, cookie, told>>

(***************************************************************************)
(* What becomes of a call that the tab waits for no longer.  The query or  *)
(* recovery that a newer query overtakes is still fetched: it may be       *)
(* served, and its Set-Cookie reaches the jar (an overtaken query that is  *)
(* not served yet is dropped).  Of a call whose connection is gone only a  *)
(* command matters, which may be served yet.                               *)
(***************************************************************************)
SetsCookie(a) ==
    \/ a.kind \in {"issued", "reset"}
    \/ a.kind = "refreshed" /\ a.cookie # None

Overtaken(call) ==
    {r \in {call} \ {None} : IF r.answer = None THEN r.step # "query" ELSE SetsCookie(r.answer)}

Severed(call) ==
    {r \in {call} \ {None} : r.answer = None /\ r.step \in {"execute", "retry"}}

Floats(calls) ==
    /\ Cardinality(floating \cup calls) <= MaxFloating
    /\ floating' = floating \cup calls

Used == {k \in Keys : \E g \in Guests : receipts[g][k] # None}
        \cup {f.intent.key : f \in {f \in floating : f.intent # None}}
        \cup {tab[t].intent.key : t \in {t \in Tabs : tab[t].intent # None}}
        \cup {d.key : d \in told}

Executing(v, key) ==
    LET intent == [key |-> key, expected |-> v.view.revision] IN
    [v EXCEPT !.phase = "sending", !.intent = intent, !.abandonOpen = FALSE,
              !.call = Request("execute", cookie, intent, FALSE, None)]

\* OPEN or CLOSING: the view offers to abandon the service.
Abandonable(view) == view.revision > 0 /\ ~IsTerminal(view)

\* A choice of the view waits for "ready"; "End shift" in the dialog does not:
\* it overtakes whatever the tab waits for.
MayExecute(v) ==
    /\ v.view # None /\ v.intent = None
    /\ IF v.abandonOpen THEN Abandonable(v.view) ELSE v.phase = "ready"

\* execute: the choice becomes the tab's intent.
Choose(t, key) ==
    /\ MayExecute(tab[t])
    /\ key \notin Used                                        \* randomUUID
    /\ Moves(t, Executing(tab[t], key))
    /\ Floats(Overtaken(tab[t].call))
    /\ UNCHANGED failures

\* createIntentEnvelope fails: a request the tab waits for goes on.
EnvelopeFails(t) ==
    /\ MayExecute(tab[t])
    /\ failures < MaxFailures
    /\ failures' = failures + 1
    /\ Moves(t, [tab[t] EXCEPT !.phase = "unavailable", !.abandonOpen = FALSE])
    /\ UNCHANGED floating

\* "End shift early"; the page behind the dialog takes no clicks.
OpenDialog(t) ==
    /\ tab[t].phase = "ready" /\ Abandonable(tab[t].view) /\ ~tab[t].abandonOpen
    /\ Moves(t, [tab[t] EXCEPT !.abandonOpen = TRUE])
    /\ UNCHANGED <<floating, failures>>

\* "Keep serving", Escape, or "End shift" where nothing is left to abandon.
CloseDialog(t) ==
    /\ tab[t].abandonOpen
    /\ Moves(t, [tab[t] EXCEPT !.abandonOpen = FALSE])
    /\ UNCHANGED <<floating, failures>>

\* "Requery and recover exact command", which terminal views do not offer.
Reconcile(t) ==
    /\ tab[t].phase = "outcome-unknown" /\ tab[t].intent # None
    /\ ~IsTerminal(tab[t].view)
    /\ Moves(t, Reconciling(tab[t], FALSE, cookie))
    /\ UNCHANGED <<floating, failures>>

\* "Requery saved service".
Requery(t) ==
    /\ tab[t].phase = "unavailable" /\ ~tab[t].abandonOpen
    /\ Moves(t, Querying(tab[t], FALSE, cookie))
    /\ Floats(Overtaken(tab[t].call))
    /\ UNCHANGED failures

\* The page becomes visible again, whatever it shows.
Visible(t) ==
    /\ tab[t].intent = None
    /\ Moves(t, Querying(tab[t], FALSE, cookie))
    /\ Floats(Overtaken(tab[t].call))
    /\ UNCHANGED failures

\* recoverAuthority: reset the cookies, have a fresh guest issued, query.
Recover(t) ==
    /\ tab[t].phase = "authority" /\ tab[t].intent = None /\ ~tab[t].abandonOpen
    /\ \E g \in Guests : standing[g] = "absent"
    /\ Moves(t, [tab[t] EXCEPT !.phase = "loading",
                               !.call = Request("reset", cookie, None, FALSE, None)])
    /\ UNCHANGED <<floating, failures>>

Opened == [phase |-> "loading", view |-> None, intent |-> None,
           call |-> Request("query", None, None, FALSE, None), abandonOpen |-> FALSE]

\* The page is loaded anew; nothing of the tab survives.
Reload(t) ==
    /\ Moves(t, [Opened EXCEPT !.call.cookie = cookie])
    /\ Floats(Severed(tab[t].call))
    /\ UNCHANGED failures

-----------------------------------------------------------------------------
(***************************************************************************)
(* The server.                                                             *)
(***************************************************************************)
Reachable(c) ==
    /\ c # None
    /\ standing[c.guest] = "live"
    /\ \/ c.secret = credential[c.guest].secret
       \/ c.secret = credential[c.guest].secret - 1 /\ credential[c.guest].graceOpen

\* GUEST_ROTATION_REQUIRED is for the current secret alone.
MustRotate(c) == credential[c.guest].due /\ c.secret = credential[c.guest].secret

\* The guest is resumed and the request is not served.  The rotation, and the
\* Set-Cookie, wait while the predecessor is in its grace.
Refresh(r, a) ==
    LET g == r.cookie.guest
        next == credential[g].secret + 1
    IN
    \/ /\ credential[g].graceOpen
       /\ a = [kind |-> "refreshed", cookie |-> None]
       /\ UNCHANGED server
    \/ /\ ~credential[g].graceOpen /\ next <= MaxSecret
       /\ a = [kind |-> "refreshed", cookie |-> [guest |-> g, secret |-> next]]
       /\ credential' = [credential EXCEPT ![g] =
              [secret |-> next, graceOpen |-> TRUE, due |-> FALSE]]
       /\ UNCHANGED logVars

Query(r, a) ==
    LET g == r.cookie.guest IN
    /\ a = [kind |-> "view", view |-> [guest |-> g, revision |-> Len(effects[g])]]
    /\ UNCHANGED server

\* A retry is answered with the checkpoint of its first execution.
Replay(r, a) ==
    LET g == r.cookie.guest
        stored == receipts[g][r.intent.key]
    IN
    /\ Log!Replay(g, r.intent.key)
    /\ a = [kind |-> "view", view |-> [guest |-> g, revision |-> stored.committed]]
    /\ UNCHANGED credential

\* Mutant: a correction is answered with the revision after it.
SettleAhead(r, a) ==
    LET g == r.cookie.guest IN
    /\ Len(effects[g]) = r.intent.expected
    /\ \E advanced \in BOOLEAN : Log!Settle(g, r.intent.key, Body, advanced)
    /\ a = [kind |-> "view", view |-> [guest |-> g, revision |-> r.intent.expected + 1]]
    /\ UNCHANGED credential

Settle(r, a) ==
    LET g == r.cookie.guest IN
    /\ Len(effects[g]) = r.intent.expected
    /\ \E advanced \in BOOLEAN : Log!Settle(g, r.intent.key, Body, advanced)
    /\ a = [kind |-> "view", view |-> [guest |-> g, revision |-> Len(effects'[g])]]
    /\ UNCHANGED credential

\* Mutant: the revision is compared before the receipt is looked for.
ConflictBeforeReplay(r, a) ==
    LET g == r.cookie.guest IN
    /\ Len(effects[g]) # r.intent.expected \/ r.intent.expected = MaxRevision
    /\ a = [kind |-> "rejected"]
    /\ UNCHANGED server

Conflict(r, a) ==
    LET g == r.cookie.guest IN
    /\ receipts[g][r.intent.key] = None
    /\ Len(effects[g]) # r.intent.expected \/ r.intent.expected = MaxRevision
    /\ a = [kind |-> "rejected"]
    /\ UNCHANGED server

Serve(r, a) ==
    \/ /\ r.step \in {"query", "requery", "execute", "retry"}
       /\ ~Reachable(r.cookie)
       /\ a = [kind |-> "authority"]
       /\ UNCHANGED server
    \/ /\ r.step \in {"query", "requery", "execute", "retry"}
       /\ Reachable(r.cookie)
       /\ \/ MustRotate(r.cookie) /\ Refresh(r, a)
          \/ /\ ~MustRotate(r.cookie)
             /\ r.step \in {"query", "requery"}
             /\ Query(r, a)
          \/ /\ ~MustRotate(r.cookie)
             /\ r.step \in {"execute", "retry"}
             /\ Replay(r, a) \/ Settle(r, a) \/ Conflict(r, a)
    \/ r.step = "reset" /\ a = [kind |-> "reset"] /\ UNCHANGED server
    \/ /\ r.step = "issue" /\ r.cookie # None   \* not from a jar with a cookie
       /\ a = [kind |-> "rejected"]
       /\ UNCHANGED server
    \/ /\ r.step = "issue" /\ r.cookie = None
       /\ \E g \in Guests :
              /\ Log!Admit(g)
              /\ a = [kind |-> "issued", cookie |-> [guest |-> g, secret |-> 0]]
       /\ UNCHANGED credential

ServeCall(t) ==
    /\ tab[t].call # None /\ tab[t].call.answer = None
    /\ \E a \in Answers :
           /\ Serve(tab[t].call, a)
           /\ tab' = [tab EXCEPT ![t].call.answer = a]
    /\ UNCHANGED <<cookie, floating, failures, told>>

\* Every error inside the server that has no answer of its own is a 409.  A
\* request without a cookie is refused before anything can fail.
Fault(t) ==
    /\ Faults
    /\ tab[t].call # None /\ tab[t].call.answer = None
    /\ tab[t].call.step \in {"query", "requery", "execute", "retry"} /\ tab[t].call.cookie # None
    /\ failures < MaxFailures
    /\ failures' = failures + 1
    /\ tab' = [tab EXCEPT ![t].call.answer = [kind |-> "rejected"]]
    /\ UNCHANGED <<server, cookie, floating, told>>

ServeFloating(r) ==
    /\ r.answer = None
    /\ \E a \in Answers :
           /\ Serve(r, a)
           /\ floating' = (floating \ {r})
                  \cup (IF r.step \in {"reset", "issue"} /\ SetsCookie(a)
                        THEN {[r EXCEPT !.answer = a]} ELSE {})
    /\ UNCHANGED <<cookie, tab, failures, told>>

\* The jar after an answer: Set-Cookie works whoever waits for it.
Jar(a) ==
    CASE a.kind = "issued" \/ (a.kind = "refreshed" /\ a.cookie # None) -> a.cookie
      [] a.kind = "reset" -> None
      [] OTHER -> cookie

\* The player learns what became of the intent.
Learns(v, a) ==
    told' = IF v.intent # None /\ a.kind \in {"view", "rejected"}
               /\ After(v, a, Jar(a)).intent = None
            THEN told \cup {[key      |-> v.intent.key,
                             expected |-> v.intent.expected,
                             guest    |-> v.call.cookie.guest,
                             saved    |-> a.kind = "view"]}
            ELSE told

Receive(t) ==
    LET a == tab[t].call.answer IN
    /\ tab[t].call # None /\ a # None
    /\ cookie' = Jar(a)
    /\ tab' = [tab EXCEPT ![t] = After(tab[t], a, Jar(a))]
    /\ Learns(tab[t], a)
    /\ UNCHANGED <<server, floating, failures>>

ReceiveFloating(r) ==
    /\ r.answer # None
    /\ cookie' = Jar(r.answer)
    /\ floating' = floating \ {r}
    /\ UNCHANGED <<server, tab, failures, told>>

\* The connection fails or the request times out, before or after it is served.
Lose(t) ==
    /\ tab[t].call # None
    /\ failures < MaxFailures
    /\ failures' = failures + 1
    /\ tab' = [tab EXCEPT ![t] = After(tab[t], [kind |-> "lost"], cookie)]
    /\ Floats(Severed(tab[t].call))
    /\ UNCHANGED <<server, cookie, told>>

\* Time: rotation falls due, in a grace only because another key became the
\* active one; a grace ends, a guest session ends.
FallDue(g) ==
    /\ g \in Rotating /\ standing[g] = "live"
    /\ ~credential[g].due /\ credential[g].secret < MaxSecret
    /\ credential' = [credential EXCEPT ![g].due = TRUE]
    /\ UNCHANGED <<logVars, cookie, tab, floating, failures, told>>

GraceEnds(g) ==
    /\ credential[g].graceOpen
    /\ credential' = [credential EXCEPT ![g].graceOpen = FALSE]
    /\ UNCHANGED <<logVars, cookie, tab, floating, failures, told>>

Expire(g) ==
    /\ Log!Remove(g)
    /\ UNCHANGED <<credential, cookie, tab, floating, failures, told>>

-----------------------------------------------------------------------------
Init ==
    /\ Log!Init
    /\ credential = [g \in Guests |-> [secret |-> 0, graceOpen |-> FALSE, due |-> FALSE]]
    /\ cookie = None
    /\ tab = [t \in Tabs |-> Opened]
    /\ floating = {}
    /\ failures = 0
    /\ told = {}

Next ==
    \/ \E t \in Tabs, key \in Keys : Choose(t, key)
    \/ \E t \in Tabs :
           \/ EnvelopeFails(t) \/ OpenDialog(t) \/ CloseDialog(t)
           \/ Reconcile(t) \/ Requery(t) \/ Visible(t) \/ Recover(t) \/ Reload(t)
           \/ ServeCall(t) \/ Fault(t) \/ Receive(t) \/ Lose(t)
    \/ \E r \in floating : ServeFloating(r) \/ ReceiveFloating(r)
    \/ \E g \in Guests : FallDue(g) \/ GraceEnds(g) \/ Expire(g)

Spec == Init /\ [][Next]_vars

(***************************************************************************)
(* Awaited requests are served and answered, if not always before the page *)
(* becomes visible again, and the player uses the recovery that is offered.*)
(***************************************************************************)
Fairness ==
    \A t \in Tabs :
        /\ SF_vars(ServeCall(t))
        /\ SF_vars(Receive(t))
        /\ WF_vars(Reconcile(t))
        /\ WF_vars(Requery(t))
        /\ WF_vars(Recover(t))
    /\ \A g \in Guests : WF_vars(GraceEnds(g))

FairSpec == Spec /\ Fairness

-----------------------------------------------------------------------------
(* Properties *)

\* The shape of the log, of the tabs, of the jar and of what is on its way.
TypeOK ==
    /\ standing \in [Guests -> {"absent", "live", "removed"}]
    /\ effects \in [Guests -> Seq(Keys)]
    /\ \A g \in Guests : Len(effects[g]) <= MaxRevision
    /\ receipts \in [Guests -> [Keys -> Receipt \cup {None}]]
    /\ credential \in [Guests -> Credential]
    /\ cookie \in Cookies \cup {None}
    /\ tab \in [Tabs -> Tab]
    /\ floating \subseteq Call
    /\ failures \in 0 .. MaxFailures
    /\ \A t \in Tabs :
           LET v == tab[t] IN
           /\ v.call # None => v.phase \in {"loading", "sending", "requerying", "unavailable"}
           /\ v.phase = "loading" => v.call # None
           /\ v.phase \in {"ready", "sending"} => v.view # None
           /\ v.phase = "outcome-unknown" => v.intent # None
           /\ v.abandonOpen => v.view # None /\ v.intent = None

(***************************************************************************)
(* What a tab shows was saved: no tab is ever ahead of its guest.          *)
(***************************************************************************)
ViewsAreSaved ==
    \A t \in Tabs :
        LET view == tab[t].view IN
        view # None /\ standing[view.guest] = "live"
            => view.revision <= Len(effects[view.guest])

(***************************************************************************)
(* The player is told the truth of an intent.  One that was told saved has *)
(* its receipt; one that was told superseded has none and never gets one,  *)
(* though requests for it may still be on their way, for the revision it   *)
(* expected is past, or is the last one and admits no command.             *)
(***************************************************************************)
Past(g, expected) == Len(effects[g]) > expected \/ expected = MaxRevision

FatesTold ==
    \A d \in told : standing[d.guest] = "live" =>
        IF d.saved THEN receipts[d.guest][d.key] # None
        ELSE receipts[d.guest][d.key] = None /\ Past(d.guest, d.expected)

(***************************************************************************)
(* An intent is stranded when nothing but loading the page anew helps:     *)
(* when the view behind it is terminal and offers no recovery, when its    *)
(* guest has gone on since it was saved, so that every exact retry is      *)
(* answered with a revision older than the one just queried, and when the  *)
(* jar names another guest, who has not come as far as the view shown: the *)
(* shell takes that guest's evening for an older view of its own.          *)
(***************************************************************************)
Stranded(t) ==
    LET v == tab[t] IN
    /\ v.intent # None
    /\ \/ v.phase = "outcome-unknown" /\ IsTerminal(v.view)
       \/ \E g \in Guests :
              /\ receipts[g][v.intent.key] # None
              /\ receipts[g][v.intent.key].committed < Len(effects[g])
       \/ /\ v.view # None /\ cookie # None
          /\ v.view.guest # cookie.guest
          /\ v.view.revision > Len(effects[cookie.guest])

\* However often the network fails, the player learns what became of an
\* intent that is not stranded.
IntentsResolve ==
    \A t \in Tabs : tab[t].intent # None ~> tab[t].intent = None \/ Stranded(t)
=============================================================================
