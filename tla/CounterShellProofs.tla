------------------------- MODULE CounterShellProofs -------------------------
(***************************************************************************)
(* Proofs about the browser shell, for any number of tabs, guests, intents, *)
(* rotations and failures.                                                 *)
(*                                                                         *)
(* What a tab shows is safe only because of what is on its way to it: the  *)
(* answer of its request and the view its retry was decided on are known   *)
(* to the server too (TabsTrue).  That nothing of it goes back is Forward, *)
(* which every step is.                                                    *)
(***************************************************************************)
EXTENDS CounterShell, SequenceTheorems, TLAPS

Commands == {"execute", "retry"}

\* What the phase, the pending intent and the request of a tab say of each other.
Shape(v) ==
    /\ v.call # None => v.phase \in {"loading", "sending", "requerying", "unavailable"}
    /\ v.phase = "loading" => v.call # None
    /\ v.phase \in {"ready", "sending"} => v.view # None
    /\ v.phase = "outcome-unknown" => v.intent # None
    /\ v.intent # None =>
           v.view # None /\ v.phase \in {"sending", "requerying", "outcome-unknown"}
    /\ v.call # None =>
           /\ v.call.intent = v.intent
           /\ v.call.step \in {"execute", "requery", "retry"} <=> v.intent # None
           /\ v.call.step \in Commands => v.phase = "sending"
           /\ v.call.step = "requery" => v.phase = "requerying"
           /\ v.call.step = "retry" => v.call.canonical # None
           /\ v.call.step = "query" =>
                  v.phase \in IF v.view = None THEN {"loading"} ELSE {"requerying", "unavailable"}
           /\ v.call.step \in {"reset", "issue"} => v.phase = "loading"
    /\ v.abandonOpen =>
           /\ v.view # None /\ v.intent = None
           /\ v.call # None => v.call.step = "query"

Admitted(g) == g \in Guests /\ standing[g] # "absent"

\* A view that was saved, unless its guest is gone.
Known(view) ==
    /\ Admitted(view.guest)
    /\ standing[view.guest] = "live" => view.revision <= Len(effects[view.guest])

\* A key that is settled, unless its guest is gone.
Saved(g, key) == Admitted(g) /\ (standing[g] = "live" => receipts[g][key] # None)

ReceiptsStand ==
    \A g \in Guests, k \in Keys :
        receipts[g][k] # None => receipts[g][k].committed <= Len(effects[g])

\* A floating command carries its intent.
FloatingShape == \A r \in floating : r.step \in Commands => r.intent # None

\* An answer that a tab waits for is true.
AnswerTrue(call) ==
    LET a == call.answer IN
    a # None =>
        /\ a.kind = "view" => Known(a.view)
        /\ a.kind \in {"view", "rejected"} /\ call.step \in Commands => call.cookie # None
        /\ a.kind = "view" /\ call.step \in Commands =>
               Saved(call.cookie.guest, call.intent.key)

TabTrue(v) ==
    /\ Shape(v)
    /\ v.view # None => Known(v.view)
    /\ v.call # None /\ v.call.canonical # None => Known(v.call.canonical)
    /\ v.call # None => AnswerTrue(v.call)

TabsTrue == \A t \in Tabs : TabTrue(tab[t])

Fates == [key : Keys, expected : 0 .. MaxRevision, guest : Guests, saved : BOOLEAN]

SavedFates == \A d \in told : d.saved => Saved(d.guest, d.key)

LogTyped ==
    /\ standing \in [Guests -> {"absent", "live", "removed"}]
    /\ effects \in [Guests -> Seq(Keys)]
    /\ \A g \in Guests : Len(effects[g]) <= MaxRevision
    /\ receipts \in [Guests -> [Keys -> Receipt \cup {None}]]

IInv ==
    /\ TypeOK
    /\ told \subseteq Fates
    /\ ReceiptsStand
    /\ FloatingShape
    /\ TabsTrue
    /\ SavedFates

-----------------------------------------------------------------------------
(***************************************************************************)
(* The tab on its own.                                                     *)
(***************************************************************************)
LEMMA AnswerFields ==
    ASSUME NEW a \in Answers
    PROVE  /\ a.kind \in {"authority", "rejected", "lost", "reset", "view", "refreshed", "issued"}
           /\ a.kind = "view" => a.view \in Views
           /\ a.kind \in {"refreshed", "issued"} => a.cookie \in Cookies \cup {None}
           /\ a # None
BY NoneAssumption DEF Answers

LEMMA RequestTyped ==
    ASSUME NEW step \in Steps, NEW jar \in Cookies \cup {None},
           NEW intent \in Intents \cup {None}, NEW refreshed \in BOOLEAN,
           NEW canonical \in Views \cup {None}
    PROVE  LET r == Request(step, jar, intent, refreshed, canonical) IN
           /\ r \in Call /\ r # None
           /\ r.step = step /\ r.cookie = jar /\ r.intent = intent
           /\ r.canonical = canonical /\ r.answer = None
BY NoneAssumption DEF Request, Call

LEMMA RestingIs ==
    ASSUME NEW v \in Tab, NEW phase \in Phases
    PROVE  LET w == Resting(v, phase) IN
           /\ w \in Tab /\ w.phase = phase
           /\ w.view = v.view /\ w.intent = v.intent /\ w.call = None
           /\ w.abandonOpen = v.abandonOpen
BY DEF Resting, Tab

LEMMA ClearedIs ==
    ASSUME NEW v \in Tab
    PROVE  LET w == Cleared(v) IN
           /\ w \in Tab /\ w.phase = v.phase
           /\ w.view = v.view /\ w.intent = None /\ w.call = v.call
           /\ w.abandonOpen = v.abandonOpen
BY DEF Cleared, Tab

LEMMA PublishedIs ==
    ASSUME NEW v \in Tab, NEW view \in Views
    PROVE  LET w == Published(v, view) IN
           /\ w \in Tab /\ w.call = None /\ w.intent = v.intent
           /\ w.view # None /\ w.abandonOpen = v.abandonOpen
           /\ \/ /\ w.phase = v.phase /\ w.view = v.view /\ v.view # None
                 /\ view.revision < v.view.revision
              \/ w.phase = "ready" /\ w.view = view
BY NoneAssumption DEF Published, Tab, Phases

LEMMA QueryingIs ==
    ASSUME NEW v \in Tab, NEW refreshed \in BOOLEAN, NEW jar \in Cookies \cup {None}
    PROVE  LET w == Querying(v, refreshed, jar) IN
           /\ w \in Tab /\ w.view = v.view /\ w.intent = v.intent
           /\ w.phase = IF v.view = None THEN "loading" ELSE "requerying"
           /\ w.abandonOpen = v.abandonOpen
           /\ w.call = Request("query", jar, None, refreshed, None)
<1> DEFINE r == Request("query", jar, None, refreshed, None)
<1>1. r \in Call
  BY RequestTyped DEF Steps
<1> HIDE DEF r
<1>2. Querying(v, refreshed, jar) = [v EXCEPT !.phase = IF v.view = None THEN "loading" ELSE "requerying", !.call = r]
  BY DEF Querying, r
<1> QED
  BY <1>1, <1>2 DEF Tab, Phases, r

LEMMA ReconcilingIs ==
    ASSUME NEW v \in Tab, NEW refreshed \in BOOLEAN, NEW jar \in Cookies \cup {None}
    PROVE  LET w == Reconciling(v, refreshed, jar) IN
           /\ w \in Tab /\ w.view = v.view /\ w.intent = v.intent
           /\ w.phase = "requerying" /\ w.abandonOpen = v.abandonOpen
           /\ w.call = Request("requery", jar, v.intent, refreshed, None)
<1> DEFINE r == Request("requery", jar, v.intent, refreshed, None)
<1>1. r \in Call
  BY RequestTyped DEF Steps, Tab
<1> HIDE DEF r
<1>2. Reconciling(v, refreshed, jar) = [v EXCEPT !.phase = "requerying", !.call = r]
  BY DEF Reconciling, r
<1> QED
  BY <1>1, <1>2 DEF Tab, Phases, r

(***************************************************************************)
(* What an answer makes of a tab: it stays in shape, shows nothing but     *)
(* what it showed or was brought, and gives its intent up on an answer     *)
(* only to a command's, on a refusal only to a retry's.                    *)
(***************************************************************************)
Outcome(v, a, w) ==
    /\ w \in Tab /\ Shape(w)
    /\ \/ w.view = v.view
       \/ a.kind = "view" /\ w.view = a.view
       \/ v.call.canonical # None /\ w.view = v.call.canonical
    /\ w.call # None =>
           /\ w.call.answer = None
           /\ w.call.canonical = None \/ (a.kind = "view" /\ w.call.canonical = a.view)
    /\ w.intent \in {v.intent, None}
    /\ v.intent # None /\ w.intent = None /\ a.kind \in {"view", "rejected"} =>
           v.call.step \in Commands /\ (a.kind = "rejected" => v.call.step = "retry")

\* A tab that rests without an intent, or with one whose outcome is unknown.
LEMMA RestingOutcome ==
    ASSUME NEW v \in Tab, NEW a \in Answers, NEW phase \in Phases, Shape(v),
           \/ v.intent = None /\ phase \in {"unavailable", "authority"}
           \/ v.intent # None /\ v.view # None /\ phase = "outcome-unknown"
    PROVE  Outcome(v, a, Resting(v, phase))
<1> DEFINE w == Resting(v, phase)
<1>1. /\ w \in Tab /\ w.phase = phase
      /\ w.view = v.view /\ w.intent = v.intent /\ w.call = None
      /\ w.abandonOpen = v.abandonOpen
  BY RestingIs
<1> HIDE DEF w
<1>2. Outcome(v, a, w)
  BY <1>1 DEF Outcome, Shape
<1> QED
  BY <1>2 DEF w

\* A tab that gives its authority up gives its intent up.
LEMMA DeniedOutcome ==
    ASSUME NEW v \in Tab, NEW a \in Answers, a.kind = "authority", Shape(v)
    PROVE  Outcome(v, a, Resting(Cleared(v), "authority"))
<1> DEFINE c == Cleared(v)
           w == Resting(c, "authority")
<1>1. c \in Tab /\ c.view = v.view /\ c.intent = None /\ c.abandonOpen = v.abandonOpen
  BY ClearedIs
<1> HIDE DEF c
<1>2. /\ w \in Tab /\ w.phase = "authority"
      /\ w.view = v.view /\ w.intent = None /\ w.call = None
      /\ w.abandonOpen = v.abandonOpen
  BY <1>1, RestingIs DEF Phases
<1> HIDE DEF w
<1>3. Outcome(v, a, w)
  BY <1>1, <1>2 DEF Outcome, Shape
<1> QED
  BY <1>3 DEF w, c

LEMMA QueryingOutcome ==
    ASSUME NEW v \in Tab, NEW a \in Answers, v.intent = None, Shape(v),
           NEW refreshed \in BOOLEAN, NEW jar \in Cookies \cup {None}
    PROVE  Outcome(v, a, Querying(v, refreshed, jar))
<1> DEFINE w == Querying(v, refreshed, jar)
           r == Request("query", jar, None, refreshed, None)
<1>1. /\ w \in Tab /\ w.view = v.view /\ w.intent = v.intent
      /\ w.phase = IF v.view = None THEN "loading" ELSE "requerying"
      /\ w.abandonOpen = v.abandonOpen /\ w.call = r
  BY QueryingIs
<1>2. /\ r # None /\ r.step = "query" /\ r.intent = None
      /\ r.canonical = None /\ r.answer = None
  BY RequestTyped DEF Steps
<1> HIDE DEF w, r
<1>4. w.call.step = r.step /\ w.call.intent = w.intent /\ w.call # None
  BY <1>1, <1>2
<1>5. Shape(w)
  BY <1>1, <1>2, <1>4 DEF Shape, Commands
<1>3. Outcome(v, a, w)
  BY <1>1, <1>2, <1>5 DEF Outcome
<1> QED
  BY <1>3 DEF w

LEMMA ReconcilingOutcome ==
    ASSUME NEW v \in Tab, NEW a \in Answers, v.intent # None, v.view # None, Shape(v),
           NEW refreshed \in BOOLEAN, NEW jar \in Cookies \cup {None}
    PROVE  Outcome(v, a, Reconciling(v, refreshed, jar))
<1> DEFINE w == Reconciling(v, refreshed, jar)
           r == Request("requery", jar, v.intent, refreshed, None)
<1>1. /\ w \in Tab /\ w.view = v.view /\ w.intent = v.intent
      /\ w.phase = "requerying" /\ w.abandonOpen = v.abandonOpen /\ w.call = r
  BY ReconcilingIs
<1>2. /\ r # None /\ r.step = "requery" /\ r.intent = v.intent
      /\ r.canonical = None /\ r.answer = None
  BY RequestTyped DEF Steps, Tab
<1> HIDE DEF w, r
<1>4. w.call.step = r.step /\ w.call.intent = w.intent /\ w.call # None
  BY <1>1, <1>2
<1>5. Shape(w)
  BY <1>1, <1>2, <1>4 DEF Shape, Commands
<1>3. Outcome(v, a, w)
  BY <1>1, <1>2, <1>5 DEF Outcome
<1> QED
  BY <1>3 DEF w

LEMMA AfterQueryOutcome ==
    ASSUME NEW v \in Tab, NEW a \in Answers, NEW jar \in Cookies \cup {None},
           Shape(v), v.call # None, v.call.step = "query"
    PROVE  Outcome(v, a, AfterQuery(v, a, jar))
<1>1. v.intent = None /\ v.phase \in IF v.view = None THEN {"loading"} ELSE {"requerying", "unavailable"}
  BY DEF Shape
<1>2. CASE a.kind = "view"
  <2> DEFINE w == Published(v, a.view)
  <2>1. a.view \in Views
    BY <1>2, AnswerFields
  <2>2. /\ w \in Tab /\ w.call = None /\ w.intent = v.intent
        /\ w.view # None /\ w.abandonOpen = v.abandonOpen
        /\ \/ /\ w.phase = v.phase /\ w.view = v.view /\ v.view # None
              /\ a.view.revision < v.view.revision
           \/ w.phase = "ready" /\ w.view = a.view
    BY <2>1, PublishedIs
  <2>3. AfterQuery(v, a, jar) = w
    BY <1>2 DEF AfterQuery
  <2> HIDE DEF w
  <2>4. Outcome(v, a, w)
    BY <1>1, <1>2, <2>2 DEF Outcome, Shape
  <2> QED
    BY <2>3, <2>4
<1>3. CASE a.kind = "refreshed" /\ ~v.call.refreshed
  BY <1>1, <1>3, QueryingOutcome DEF AfterQuery
<1>4. CASE a.kind = "authority"
  BY <1>1, <1>4, RestingOutcome DEF AfterQuery, Phases
<1>5. CASE a.kind \notin {"view", "authority"} /\ ~(a.kind = "refreshed" /\ ~v.call.refreshed)
  BY <1>1, <1>5, RestingOutcome DEF AfterQuery, Phases
<1> QED
  BY <1>2, <1>3, <1>4, <1>5

LEMMA AfterExecuteOutcome ==
    ASSUME NEW v \in Tab, NEW a \in Answers, NEW jar \in Cookies \cup {None},
           Shape(v), v.call # None, v.call.step = "execute"
    PROVE  Outcome(v, a, AfterExecute(v, a, jar))
<1>1. v.intent # None /\ v.view # None
  BY DEF Shape
<1>2. CASE a.kind = "view" /\ a.view.revision >= v.view.revision
  <2> DEFINE c == Cleared(v)
             w == Published(c, a.view)
  <2>1. a.view \in Views
    BY <1>2, AnswerFields
  <2>2. c \in Tab /\ c.view = v.view /\ c.intent = None /\ c.abandonOpen = v.abandonOpen
    BY ClearedIs
  <2> HIDE DEF c
  <2>3. /\ w \in Tab /\ w.call = None /\ w.intent = None /\ w.abandonOpen = v.abandonOpen
        /\ w.view # None
        /\ \/ c.view # None /\ a.view.revision < c.view.revision
           \/ w.phase = "ready" /\ w.view = a.view
    BY <2>1, <2>2, PublishedIs
  <2>4. AfterExecute(v, a, jar) = w
    BY <1>2 DEF AfterExecute, c
  <2> HIDE DEF w
  <2>5. v.view.revision \in Nat /\ a.view.revision \in Nat
    BY <1>1, <2>1, BoundsAssumption DEF Tab, Views
  <2>6. w.phase = "ready" /\ w.view = a.view
    BY <1>2, <2>2, <2>3, <2>5
  <2>7. Outcome(v, a, w)
    BY <1>1, <1>2, <2>3, <2>6 DEF Outcome, Shape, Commands
  <2> QED
    BY <2>4, <2>7
<1>3. CASE a.kind = "refreshed"
  BY <1>1, <1>3, ReconcilingOutcome DEF AfterExecute
<1>4. CASE a.kind = "authority"
  BY <1>4, DeniedOutcome DEF AfterExecute
<1>5. CASE a.kind \notin {"refreshed", "authority"} /\ ~(a.kind = "view" /\ a.view.revision >= v.view.revision)
  BY <1>1, <1>5, ReconcilingOutcome DEF AfterExecute
<1> QED
  BY <1>2, <1>3, <1>4, <1>5

LEMMA AfterRequeryOutcome ==
    ASSUME NEW v \in Tab, NEW a \in Answers, NEW jar \in Cookies \cup {None},
           Shape(v), v.call # None, v.call.step = "requery"
    PROVE  Outcome(v, a, AfterRequery(v, a, jar))
<1>1. v.intent # None /\ v.view # None
  BY DEF Shape
<1>10. v.call.refreshed \in BOOLEAN
  BY DEF Tab, Call
<1>2. CASE a.kind = "view" /\ a.view.revision >= v.intent.expected
  <2> DEFINE p == Published(v, a.view)
             r == Request("retry", jar, v.intent, v.call.refreshed, a.view)
             w == [p EXCEPT !.phase = "sending", !.call = r]
  <2>1. a.view \in Views
    BY <1>2, AnswerFields
  <2>2. /\ p \in Tab /\ p.intent = v.intent /\ p.abandonOpen = v.abandonOpen
        /\ p.view # None /\ (p.view = v.view \/ p.view = a.view)
    BY <2>1, PublishedIs
  <2>3. /\ r \in Call /\ r # None /\ r.step = "retry" /\ r.intent = v.intent
        /\ r.canonical = a.view /\ r.answer = None
    BY <2>1, <1>10, RequestTyped DEF Steps, Tab
  <2>4. AfterRequery(v, a, jar) = w
    BY <1>2 DEF AfterRequery
  <2>5. a.view # None
    BY <2>1, NoneAssumption
  <2> HIDE DEF p, r
  <2>6. /\ w \in Tab /\ w.phase = "sending" /\ w.call = r
        /\ w.view = p.view /\ w.intent = p.intent /\ w.abandonOpen = p.abandonOpen
    BY <2>2, <2>3 DEF Tab, Phases
  <2> HIDE DEF w
  <2>7. Outcome(v, a, w)
    BY <1>1, <1>2, <2>2, <2>3, <2>5, <2>6 DEF Outcome, Shape, Commands
  <2> QED
    BY <2>4, <2>7
<1>3. CASE a.kind = "refreshed" /\ ~v.call.refreshed
  BY <1>1, <1>3, ReconcilingOutcome DEF AfterRequery
<1>4. CASE a.kind = "authority"
  BY <1>4, DeniedOutcome DEF AfterRequery
<1>5. CASE a.kind # "authority" /\ ~(a.kind = "refreshed" /\ ~v.call.refreshed)
           /\ ~(a.kind = "view" /\ a.view.revision >= v.intent.expected)
  BY <1>1, <1>5, RestingOutcome DEF AfterRequery, Phases
<1> QED
  BY <1>2, <1>3, <1>4, <1>5

LEMMA AfterRetryOutcome ==
    ASSUME NEW v \in Tab, NEW a \in Answers, NEW jar \in Cookies \cup {None},
           Shape(v), v.call # None, v.call.step = "retry"
    PROVE  Outcome(v, a, AfterRetry(v, a, jar))
<1>1. /\ v.intent # None /\ v.view # None /\ v.phase = "sending"
      /\ v.call.canonical # None /\ v.call.canonical \in Views
  BY DEF Shape, Commands, Tab, Call
<1>2. \* Both ways to publish without the intent.
      ASSUME NEW view \in Views, a.kind \in {"view", "rejected"},
             (a.kind = "view" /\ view = a.view) \/ view = v.call.canonical
      PROVE  Outcome(v, a, Published(Cleared(v), view))
  <2> DEFINE c == Cleared(v)
             w == Published(c, view)
  <2>2. /\ c \in Tab /\ c.view = v.view /\ c.intent = None /\ c.phase = "sending"
        /\ c.abandonOpen = v.abandonOpen
    BY <1>1, ClearedIs
  <2> HIDE DEF c
  <2>3. /\ w \in Tab /\ w.call = None /\ w.intent = None /\ w.view # None
        /\ w.abandonOpen = v.abandonOpen
        /\ w.phase \in {"sending", "ready"}
        /\ w.view = v.view \/ w.view = view
    BY <2>2, PublishedIs
  <2> HIDE DEF w
  <2>4. Outcome(v, a, w)
    BY <1>1, <1>2, <2>3 DEF Outcome, Shape, Commands
  <2> QED
    BY <2>4 DEF w, c
<1>3. CASE a.kind = "rejected"
  BY <1>1, <1>2, <1>3 DEF AfterRetry
<1>4. CASE a.kind = "refreshed" /\ ~v.call.refreshed
  BY <1>1, <1>4, ReconcilingOutcome DEF AfterRetry
<1>5. CASE a.kind = "authority"
  BY <1>5, DeniedOutcome DEF AfterRetry
<1>6. CASE a.kind = "view" /\ a.view.revision >= v.call.canonical.revision
  <2>1. a.view \in Views
    BY <1>6, AnswerFields
  <2> QED
    BY <1>1, <1>2, <1>6, <2>1 DEF AfterRetry
<1>7. CASE a.kind \notin {"rejected", "authority"} /\ ~(a.kind = "refreshed" /\ ~v.call.refreshed)
           /\ ~(a.kind = "view" /\ a.view.revision >= v.call.canonical.revision)
  BY <1>1, <1>7, RestingOutcome DEF AfterRetry, Phases
<1> QED
  BY <1>3, <1>4, <1>5, <1>6, <1>7

LEMMA AfterRecoveryOutcome ==
    ASSUME NEW v \in Tab, NEW a \in Answers, NEW jar \in Cookies \cup {None},
           Shape(v), v.call # None
    PROVE  /\ v.call.step = "reset" => Outcome(v, a, AfterReset(v, a, jar))
           /\ v.call.step = "issue" => Outcome(v, a, AfterIssue(v, a, jar))
<1>1. v.call.step \in {"reset", "issue"} => v.intent = None /\ v.phase = "loading"
  BY DEF Shape
<1>2. v.call.step \in {"reset", "issue"} => Outcome(v, a, Resting(v, "unavailable"))
  BY <1>1, RestingOutcome DEF Phases
<1>3. ASSUME v.call.step = "reset", a.kind = "reset"
      PROVE  Outcome(v, a, AfterReset(v, a, jar))
  <2> DEFINE r == Request("issue", jar, None, FALSE, None)
             w == [v EXCEPT !.call = r]
  <2>1. /\ r \in Call /\ r # None /\ r.step = "issue" /\ r.intent = None
        /\ r.canonical = None /\ r.answer = None
    <3>1. \A b \in BOOLEAN :
              LET q == Request("issue", jar, None, b, None) IN
              /\ q \in Call /\ q # None /\ q.step = "issue" /\ q.intent = None
              /\ q.canonical = None /\ q.answer = None
      BY RequestTyped DEF Steps
    <3> QED
      BY <3>1, Zenon
  <2>2. AfterReset(v, a, jar) = w
    BY <1>3 DEF AfterReset
  <2> HIDE DEF r
  <2>3. /\ w \in Tab /\ w.call = r /\ w.phase = v.phase
        /\ w.view = v.view /\ w.intent = v.intent /\ w.abandonOpen = v.abandonOpen
    BY <2>1 DEF Tab
  <2> HIDE DEF w
  <2>5. v.intent = None /\ v.phase = "loading" /\ ~v.abandonOpen
    BY <1>1, <1>3 DEF Shape, Tab
  <2>6. Shape(w)
    BY <2>1, <2>3, <2>5 DEF Shape, Commands
  <2>4. Outcome(v, a, w)
    BY <2>1, <2>3, <2>5, <2>6 DEF Outcome
  <2> QED
    BY <2>2, <2>4
<1>4. ASSUME v.call.step = "issue", a.kind = "issued"
      PROVE  Outcome(v, a, AfterIssue(v, a, jar))
  BY <1>1, <1>4, QueryingOutcome DEF AfterIssue
<1> QED
  BY <1>2, <1>3, <1>4 DEF AfterReset, AfterIssue

\* Whatever the tab waits for, an answer leaves it in shape.
LEMMA AfterOutcome ==
    ASSUME NEW v \in Tab, NEW a \in Answers, NEW jar \in Cookies \cup {None},
           Shape(v), v.call # None
    PROVE  Outcome(v, a, After(v, a, jar))
<1>1. v.call.step \in Steps
  BY DEF Tab, Call
<1>2. CASE v.call.step = "query"
  BY <1>2, AfterQueryOutcome DEF After
<1>3. CASE v.call.step = "execute"
  BY <1>3, AfterExecuteOutcome DEF After
<1>4. CASE v.call.step = "requery"
  BY <1>4, AfterRequeryOutcome DEF After
<1>5. CASE v.call.step = "retry"
  BY <1>5, AfterRetryOutcome DEF After
<1>6. CASE v.call.step \in {"reset", "issue"}
  BY <1>6, AfterRecoveryOutcome DEF After
<1> QED
  BY <1>1, <1>2, <1>3, <1>4, <1>5, <1>6 DEF Steps

-----------------------------------------------------------------------------
(***************************************************************************)
(* The server.  No step takes anything back from a guest that stays: what  *)
(* was admitted, saved and settled is so afterwards, and only the command  *)
(* of intent i settles a key.                                              *)
(***************************************************************************)
Forward ==
    \A g \in Guests :
        /\ standing[g] # "absent" => standing'[g] # "absent"
        /\ standing[g] # "absent" /\ standing'[g] = "live" =>
               /\ standing[g] = "live"
               /\ Len(effects'[g]) >= Len(effects[g])
               /\ \A k \in Keys : receipts[g][k] # None => receipts'[g][k] # None

SettlesOnly(i) ==
    \A g \in Guests, k \in Keys :
        receipts[g][k] = None /\ receipts'[g][k] # None =>
            /\ i # None /\ k = i.key
            /\ i.expected = Len(effects[g]) /\ i.expected < MaxRevision

LEMMA LogIsTyped == TypeOK => LogTyped
BY DEF TypeOK, LogTyped

\* A step that leaves the guests alone.
LEMMA QuietLog ==
    ASSUME LogTyped, ReceiptsStand, UNCHANGED <<standing, effects, receipts>>, NEW i
    PROVE  LogTyped' /\ ReceiptsStand' /\ Forward /\ SettlesOnly(i)
<1>1. LogTyped' /\ ReceiptsStand'
  BY DEF LogTyped, ReceiptsStand
<1>2. \A g \in Guests : Len(effects[g]) \in Nat
  BY LenProperties DEF LogTyped
<1>3. Forward
  BY <1>2 DEF Forward
<1> QED
  BY <1>1, <1>3 DEF SettlesOnly

\* A guest is admitted with nothing.
LEMMA AdmitForward ==
    ASSUME LogTyped, ReceiptsStand, NEW g \in Guests, Log!Admit(g), NEW i
    PROVE  LogTyped' /\ ReceiptsStand' /\ Forward /\ SettlesOnly(i)
<1>1. /\ standing[g] = "absent" /\ standing' = [standing EXCEPT ![g] = "live"]
      /\ UNCHANGED <<effects, receipts>>
  BY DEF Log!Admit
<1>2. LogTyped' /\ ReceiptsStand'
  BY <1>1 DEF LogTyped, ReceiptsStand
<1>3. \A h \in Guests : Len(effects[h]) \in Nat
  BY LenProperties DEF LogTyped
<1>4. \A h \in Guests : h # g => standing'[h] = standing[h]
  BY <1>1 DEF LogTyped
<1>5. Forward
  BY <1>1, <1>3, <1>4 DEF Forward
<1> QED
  BY <1>1, <1>2, <1>5 DEF SettlesOnly

\* A guest that is gone takes everything with it.
LEMMA RemoveForward ==
    ASSUME LogTyped, ReceiptsStand, NEW g \in Guests, Log!Remove(g), NEW i
    PROVE  LogTyped' /\ ReceiptsStand' /\ Forward /\ SettlesOnly(i)
<1>1. /\ standing[g] = "live" /\ standing' = [standing EXCEPT ![g] = "removed"]
      /\ effects' = [effects EXCEPT ![g] = <<>>]
      /\ receipts' = [receipts EXCEPT ![g] = [k \in Keys |-> None]]
  BY DEF Log!Remove
<1>2. /\ standing'[g] = "removed" /\ effects'[g] = <<>>
      /\ \A k \in Keys : receipts'[g][k] = None
  BY <1>1 DEF LogTyped
<1>3. \A h \in Guests : h # g =>
          standing'[h] = standing[h] /\ effects'[h] = effects[h] /\ receipts'[h] = receipts[h]
  BY <1>1 DEF LogTyped
<1>4. Len(<<>>) = 0 /\ <<>> \in Seq(Keys)
  OBVIOUS
<1>5. LogTyped'
  <2>1. /\ standing' \in [Guests -> {"absent", "live", "removed"}]
        /\ effects' \in [Guests -> Seq(Keys)]
        /\ receipts' \in [Guests -> [Keys -> Receipt \cup {None}]]
    BY <1>1, <1>4 DEF LogTyped
  <2>2. \A h \in Guests : Len(effects'[h]) <= MaxRevision
    BY <1>2, <1>3, <1>4, BoundsAssumption DEF LogTyped
  <2> QED
    BY <2>1, <2>2 DEF LogTyped
<1>6. ReceiptsStand'
  BY <1>2, <1>3 DEF ReceiptsStand
<1>7. \A h \in Guests : Len(effects[h]) \in Nat
  BY LenProperties DEF LogTyped
<1>8. Forward
  BY <1>1, <1>2, <1>3, <1>7 DEF Forward
<1>9. SettlesOnly(i)
  BY <1>2, <1>3 DEF SettlesOnly
<1> QED
  BY <1>5, <1>6, <1>8, <1>9

\* A key is settled at the revision it expected.
LEMMA SettleForward ==
    ASSUME LogTyped, ReceiptsStand, NEW g \in Guests, NEW i \in Intents,
           Len(effects[g]) = i.expected,
           NEW advanced \in BOOLEAN, Log!Settle(g, i.key, Body, advanced)
    PROVE  /\ LogTyped' /\ ReceiptsStand' /\ Forward /\ SettlesOnly(i)
           /\ standing'[g] = "live" /\ receipts'[g][i.key] # None
<1> DEFINE now  == Len(effects[g])
           next == IF advanced THEN now + 1 ELSE now
           receipt == [key |-> i.key, body |-> Body, expected |-> now, committed |-> next,
                       advanced |-> advanced]
<1>1. /\ standing[g] = "live" /\ receipts[g][i.key] = None /\ now < MaxRevision
      /\ receipts' = [receipts EXCEPT ![g][i.key] = receipt]
      /\ effects' = IF advanced THEN [effects EXCEPT ![g] = Append(@, i.key)] ELSE effects
      /\ standing' = standing
  BY DEF Log!Settle
<1>2. i.key \in Keys
  BY DEF Intents
<1>3. effects[g] \in Seq(Keys) /\ now \in Nat
  BY LenProperties DEF LogTyped
<1>4. next \in 0 .. MaxRevision /\ next >= now /\ now \in 0 .. MaxRevision
  BY <1>1, <1>3, BoundsAssumption
<1>5. receipt \in Receipt /\ receipt # None /\ receipt.committed = next
  <2>1. receipt \in Receipt
    BY <1>2, <1>4 DEF Receipt
  <2> QED
    BY <2>1, NoneAssumption
<1>6. /\ effects' \in [Guests -> Seq(Keys)] /\ Len(effects'[g]) = next
      /\ \A h \in Guests : h # g => effects'[h] = effects[h]
  <2>1. Append(effects[g], i.key) \in Seq(Keys) /\ Len(Append(effects[g], i.key)) = now + 1
    BY <1>2, <1>3, AppendProperties
  <2>2. CASE advanced
    <3>1. effects' = [effects EXCEPT ![g] = Append(effects[g], i.key)]
      BY <1>1, <2>2
    <3> QED
      BY <2>1, <2>2, <3>1 DEF LogTyped
  <2>3. CASE ~advanced
    BY <1>1, <2>3 DEF LogTyped
  <2> QED
    BY <2>2, <2>3
<1> HIDE DEF now, next, receipt
<1>7. /\ receipts' \in [Guests -> [Keys -> Receipt \cup {None}]]
      /\ receipts'[g][i.key] = receipt
      /\ \A h \in Guests, k \in Keys : h # g \/ k # i.key => receipts'[h][k] = receipts[h][k]
  BY <1>1, <1>2, <1>5 DEF LogTyped
<1>8. \A h \in Guests : Len(effects[h]) \in Nat /\ Len(effects[h]) <= MaxRevision
  BY LenProperties DEF LogTyped
<1>9. \A h \in Guests : Len(effects'[h]) >= Len(effects[h]) /\ Len(effects'[h]) <= MaxRevision
  BY <1>4, <1>6, <1>8 DEF now
<1>10. LogTyped'
  BY <1>1, <1>6, <1>7, <1>9 DEF LogTyped
<1>11. ReceiptsStand'
  <2> SUFFICES ASSUME NEW h \in Guests, NEW k \in Keys, receipts'[h][k] # None
               PROVE  receipts'[h][k].committed <= Len(effects'[h])
    BY DEF ReceiptsStand
  <2>1. CASE h = g /\ k = i.key
    BY <2>1, <1>4, <1>5, <1>6, <1>7
  <2>2. CASE h # g \/ k # i.key
    <3>1. receipts[h][k] # None /\ receipts'[h][k] = receipts[h][k]
      BY <2>2, <1>7
    <3>2. receipts[h][k].committed <= Len(effects[h]) /\ receipts[h][k].committed \in Nat
      BY <3>1, BoundsAssumption DEF ReceiptsStand, LogTyped, Receipt
    <3>3. Len(effects'[h]) \in Nat
      BY <1>6, LenProperties
    <3> QED
      BY <3>1, <3>2, <3>3, <1>8, <1>9
  <2> QED
    BY <2>1, <2>2
<1>12. Forward
  BY <1>1, <1>5, <1>7, <1>9 DEF Forward
<1>13. SettlesOnly(i)
  <2>1. i # None
    BY NoneAssumption
  <2> QED
    BY <1>1, <1>7, <2>1 DEF SettlesOnly, now
<1> QED
  BY <1>1, <1>5, <1>7, <1>10, <1>11, <1>12, <1>13

-----------------------------------------------------------------------------
(***************************************************************************)
(* A request that is served: its answer is true when it is given.          *)
(***************************************************************************)
Answered(r, a) ==
    /\ a.kind = "view" => Known(a.view)'
    /\ r.step \in Commands /\ a.kind \in {"view", "rejected"} => r.cookie # None
    /\ r.step \in Commands /\ a.kind = "view" => Saved(r.cookie.guest, r.intent.key)'
    /\ r.step \in Commands /\ a.kind = "rejected" =>
           /\ UNCHANGED <<standing, effects, receipts>>
           /\ Admitted(r.cookie.guest)
           /\ receipts[r.cookie.guest][r.intent.key] = None
           /\ \/ Len(effects[r.cookie.guest]) # r.intent.expected
              \/ r.intent.expected = MaxRevision

LEMMA ServedTrue ==
    ASSUME TypeOK, ReceiptsStand, NEW r \in Call, r.step \in Commands => r.intent # None,
           NEW a \in Answers, Serve(r, a)
    PROVE  /\ LogTyped' /\ ReceiptsStand' /\ Forward /\ SettlesOnly(r.intent)
           /\ credential' \in [Guests -> Credential]
           /\ Answered(r, a)
<1> DEFINE g == r.cookie.guest
<1>1. LogTyped /\ credential \in [Guests -> Credential]
  BY LogIsTyped DEF TypeOK
<1>2. UNCHANGED <<standing, effects, receipts>> =>
          LogTyped' /\ ReceiptsStand' /\ Forward /\ SettlesOnly(r.intent)
  BY <1>1, QuietLog
<1>3. /\ r.step \in Steps /\ r.cookie \in Cookies \cup {None}
      /\ r.step \in Commands => r.intent \in Intents /\ r.intent.key \in Keys
  BY DEF Call, Intents
<1>4. ASSUME Reachable(r.cookie)
      PROVE  r.cookie # None /\ g \in Guests /\ standing[g] = "live" /\ Admitted(g)
  BY <1>3, <1>4 DEF Reachable, Cookies, Admitted
<1>5. \* The request is not served, or outside of the service.
      CASE UNCHANGED server /\ a.kind \in {"authority", "reset", "rejected"}
           /\ (a.kind = "rejected" => r.step = "issue")
  BY <1>1, <1>2, <1>5 DEF server, logVars, Answered, Commands
<1>6. CASE Reachable(r.cookie) /\ Refresh(r, a)
  <2>1. a.kind = "refreshed" /\ UNCHANGED <<standing, effects, receipts>>
    BY <1>6 DEF Refresh, server, logVars
  <2>4. credential' \in [Guests -> Credential]
    <3>1. CASE credential' = credential
      BY <1>1, <3>1
    <3>2. CASE /\ credential[g].secret + 1 <= MaxSecret
               /\ credential' = [credential EXCEPT ![g] =
                      [secret |-> credential[g].secret + 1, graceOpen |-> TRUE, due |-> FALSE]]
      <4>1. credential[g].secret + 1 \in 0 .. MaxSecret
        BY <1>1, <1>4, <1>6, <3>2, BoundsAssumption DEF Credential
      <4> QED
        BY <1>1, <3>2, <4>1 DEF Credential
    <3> QED
      BY <1>6, <3>1, <3>2 DEF Refresh, server
  <2> QED
    BY <1>2, <2>1, <2>4 DEF Answered
<1>7. CASE Reachable(r.cookie) /\ r.step \in {"query", "requery"} /\ Query(r, a)
  <2>1. /\ UNCHANGED <<standing, effects, receipts, credential>>
        /\ a.kind = "view" /\ a.view = [guest |-> g, revision |-> Len(effects[g])]
    BY <1>7 DEF Query, server, logVars
  <2>2. Len(effects[g]) \in Nat
    BY <1>1, <1>4, <1>7, LenProperties DEF LogTyped
  <2>3. Known(a.view)'
    BY <1>4, <1>7, <2>1, <2>2 DEF Known, Admitted
  <2> QED
    BY <1>1, <1>2, <1>7, <2>1, <2>3 DEF Answered, Commands
<1>8. CASE Reachable(r.cookie) /\ r.step \in Commands /\ Replay(r, a)
  <2>1. /\ UNCHANGED <<standing, effects, receipts, credential>>
        /\ receipts[g][r.intent.key] # None
        /\ a.kind = "view"
        /\ a.view = [guest |-> g, revision |-> receipts[g][r.intent.key].committed]
    BY <1>8 DEF Replay, Log!Replay
  <2>2. Known(a.view)'
    BY <1>3, <1>4, <1>8, <2>1 DEF Known, Admitted, ReceiptsStand
  <2>3. Saved(g, r.intent.key)'
    BY <1>4, <1>8, <2>1 DEF Saved, Admitted
  <2> QED
    BY <1>1, <1>2, <1>4, <1>8, <2>1, <2>2, <2>3 DEF Answered
<1>9. CASE Reachable(r.cookie) /\ r.step \in Commands /\ Settle(r, a)
  <2>1. /\ Len(effects[g]) = r.intent.expected
        /\ \E advanced \in BOOLEAN : Log!Settle(g, r.intent.key, Body, advanced)
        /\ a.kind = "view" /\ a.view = [guest |-> g, revision |-> Len(effects'[g])]
        /\ credential' = credential
    BY <1>9 DEF Settle
  <2>2. /\ LogTyped' /\ ReceiptsStand' /\ Forward /\ SettlesOnly(r.intent)
        /\ standing'[g] = "live" /\ receipts'[g][r.intent.key] # None
    BY <1>1, <1>3, <1>4, <1>9, <2>1, SettleForward
  <2>3. Len(effects'[g]) \in Nat
    BY <1>4, <1>9, <2>2, LenProperties DEF LogTyped
  <2>4. Known(a.view)' /\ Saved(g, r.intent.key)'
    BY <1>4, <1>9, <2>1, <2>2, <2>3 DEF Known, Admitted, Saved
  <2> QED
    BY <1>1, <1>4, <1>9, <2>1, <2>2, <2>4 DEF Answered
<1>10. CASE Reachable(r.cookie) /\ r.step \in Commands /\ Conflict(r, a)
  <2>1. /\ UNCHANGED <<standing, effects, receipts, credential>>
        /\ a.kind = "rejected" /\ receipts[g][r.intent.key] = None
        /\ Len(effects[g]) # r.intent.expected \/ r.intent.expected = MaxRevision
    BY <1>10 DEF Conflict, server, logVars
  <2> QED
    BY <1>1, <1>2, <1>4, <1>10, <2>1 DEF Answered
<1>11. CASE r.step = "issue" /\ r.cookie = None
            /\ \E h \in Guests : Log!Admit(h) /\ a.kind = "issued"
            /\ credential' = credential
  <2>1. LogTyped' /\ ReceiptsStand' /\ Forward /\ SettlesOnly(r.intent)
    BY <1>1, <1>11, AdmitForward
  <2> QED
    BY <1>1, <1>11, <2>1 DEF Answered
<1> QED
  BY <1>5, <1>6, <1>7, <1>8, <1>9, <1>10, <1>11 DEF Serve, Commands

-----------------------------------------------------------------------------
(***************************************************************************)
(* What is true of a tab and of a fate stays true as the server goes on.   *)
(***************************************************************************)
LEMMA KnownStays ==
    ASSUME LogTyped, LogTyped', Forward, NEW view \in Views, Known(view)
    PROVE  Known(view)'
<1>1. view.guest \in Guests /\ view.revision \in Nat
  BY BoundsAssumption DEF Views
<1>2. Len(effects[view.guest]) \in Nat /\ Len(effects'[view.guest]) \in Nat
  BY <1>1, LenProperties DEF LogTyped
<1> QED
  BY <1>1, <1>2 DEF Known, Admitted, Forward

LEMMA SavedStays ==
    ASSUME Forward, NEW g, NEW key \in Keys, Saved(g, key)
    PROVE  Saved(g, key)'
BY DEF Saved, Admitted, Forward

LEMMA AnswerStays ==
    ASSUME LogTyped, LogTyped', Forward, NEW call \in Call, AnswerTrue(call),
           call.step \in Commands => call.intent # None
    PROVE  AnswerTrue(call)'
<1> DEFINE a == call.answer
<1> SUFFICES ASSUME a # None PROVE AnswerTrue(call)'
  BY DEF AnswerTrue
<1>1. a \in Answers
  BY DEF Call
<1>2. a.kind = "view" => a.view \in Views
  BY <1>1, AnswerFields
<1>3. call.step \in Commands => call.intent.key \in Keys
  BY DEF Call, Intents
<1>4. a.kind = "view" => Known(a.view)'
  BY <1>2, KnownStays DEF AnswerTrue
<1>5. a.kind = "view" /\ call.step \in Commands => Saved(call.cookie.guest, call.intent.key)'
  BY <1>3, SavedStays DEF AnswerTrue
<1> QED
  BY <1>4, <1>5 DEF AnswerTrue

LEMMA TabStays ==
    ASSUME LogTyped, LogTyped', Forward, NEW v \in Tab, TabTrue(v)
    PROVE  TabTrue(v)'
<1>1. Shape(v) /\ v.view \in Views \cup {None} /\ v.call \in Call \cup {None}
  BY DEF TabTrue, Tab
<1>2. v.call # None => v.call.canonical \in Views \cup {None}
  BY <1>1 DEF Call
<1>3. v.view # None => Known(v.view)'
  BY <1>1, KnownStays DEF TabTrue
<1>4. v.call # None /\ v.call.canonical # None => Known(v.call.canonical)'
  BY <1>2, KnownStays DEF TabTrue
<1>5. v.call # None => AnswerTrue(v.call)'
  <2> SUFFICES ASSUME v.call # None PROVE AnswerTrue(v.call)'
    OBVIOUS
  <2>1. v.call \in Call /\ AnswerTrue(v.call)
    BY <1>1 DEF TabTrue
  <2>2. v.call.step \in Commands => v.call.intent # None
    BY <1>1 DEF Shape, Commands
  <2> QED
    BY <2>1, <2>2, AnswerStays
<1> QED
  BY <1>1, <1>3, <1>4, <1>5 DEF TabTrue

LEMMA FatesStay ==
    ASSUME IInv, Forward, told' = told
    PROVE  told' \subseteq Fates /\ SavedFates'
<1>1. \A d \in told : d.key \in Keys
  BY DEF IInv, Fates
<1> QED
  BY <1>1, SavedStays DEF IInv, SavedFates

\* A tab that waits for a new request, if for any.
LEMMA NewTabTrue ==
    ASSUME NEW w, Shape(w), w.view # None => Known(w.view)',
           w.call # None =>
               w.call.answer = None /\ (w.call.canonical # None => Known(w.call.canonical)')
    PROVE  TabTrue(w)'
BY DEF TabTrue, AnswerTrue

(***************************************************************************)
(* The parts of a step, put together.                                      *)
(***************************************************************************)
Elsewhere ==
    /\ LogTyped' /\ ReceiptsStand' /\ Forward
    /\ credential' \in [Guests -> Credential]
    /\ cookie' \in Cookies \cup {None}
    /\ floating' \subseteq Call /\ FloatingShape'
    /\ failures' \in 0 .. MaxFailures
    /\ told' \subseteq Fates /\ SavedFates'

LEMMA TabStep ==
    ASSUME IInv, Elsewhere, NEW t \in Tabs, NEW w \in Tab,
           tab' = [tab EXCEPT ![t] = w], TabTrue(w)'
    PROVE  IInv'
<1>1. LogTyped /\ tab \in [Tabs -> Tab]
  BY LogIsTyped DEF IInv, TypeOK
<1>2. tab' \in [Tabs -> Tab] /\ tab'[t] = w /\ \A u \in Tabs : u # t => tab'[u] = tab[u]
  BY <1>1
<1>3. ASSUME NEW u \in Tabs PROVE (TabTrue(tab[u]))'
  <2>1. PICK v \in Tab : v = tab'[u]
    BY <1>2
  <2>2. TabTrue(v)'
    <3>1. CASE u = t
      <4>1. v = w
        BY <1>2, <2>1, <3>1
      <4> QED
        BY <4>1
    <3>2. CASE u # t
      <4>1. v = tab[u]
        BY <1>2, <2>1, <3>2
      <4>2. TabTrue(v)
        BY <4>1 DEF IInv, TabsTrue
      <4> QED
        BY <1>1, <4>2, TabStays DEF Elsewhere
    <3> QED
      BY <3>1, <3>2
  <2> QED
    BY <2>1, <2>2
<1>4. TabsTrue'
  BY <1>3 DEF TabsTrue
<1>5. TypeOK'
  <2>1. \A u \in Tabs : Shape(tab'[u])
    BY <1>4 DEF TabsTrue, TabTrue
  <2> QED
    BY <1>2, <2>1 DEF TypeOK, Elsewhere, LogTyped, Shape
<1> QED
  BY <1>4, <1>5 DEF IInv, Elsewhere

LEMMA OtherStep ==
    ASSUME IInv, Elsewhere, tab' = tab
    PROVE  IInv'
<1>1. LogTyped /\ tab \in [Tabs -> Tab]
  BY LogIsTyped DEF IInv, TypeOK
<1>2. ASSUME NEW u \in Tabs PROVE (TabTrue(tab[u]))'
  <2>1. PICK v \in Tab : v = tab[u]
    BY <1>1
  <2>2. TabTrue(v)
    BY <2>1 DEF IInv, TabsTrue
  <2>3. TabTrue(v)'
    BY <1>1, <2>2, TabStays DEF Elsewhere
  <2> QED
    BY <2>1, <2>3
<1>3. TabsTrue'
  BY <1>2 DEF TabsTrue
<1>4. TypeOK'
  <2>1. \A u \in Tabs : Shape(tab'[u])
    BY <1>3 DEF TabsTrue, TabTrue
  <2> QED
    BY <1>1, <2>1 DEF TypeOK, Elsewhere, LogTyped, Shape
<1> QED
  BY <1>3, <1>4 DEF IInv, Elsewhere

LEMMA QuietServer ==
    ASSUME IInv, UNCHANGED server, NEW i
    PROVE  /\ LogTyped' /\ ReceiptsStand' /\ Forward /\ SettlesOnly(i)
           /\ credential' \in [Guests -> Credential]
<1>1. LogTyped /\ ReceiptsStand /\ UNCHANGED <<standing, effects, receipts>>
  BY LogIsTyped DEF IInv, server, logVars
<1> QED
  BY <1>1, QuietLog DEF IInv, TypeOK, server

\* The call of a tab may be left to itself.
LEMMA FloatsKeep ==
    ASSUME IInv, NEW t \in Tabs, NEW calls \in SUBSET ({tab[t].call} \ {None}), Floats(calls)
    PROVE  floating' \subseteq Call /\ FloatingShape'
<1>1. tab[t] \in Tab /\ Shape(tab[t])
  BY DEF IInv, TypeOK, TabsTrue, TabTrue
<1>2. \A r \in calls : r \in Call /\ (r.step \in Commands => r.intent # None)
  BY <1>1 DEF Tab, Shape, Commands
<1> QED
  BY <1>2 DEF Floats, IInv, TypeOK, FloatingShape

-----------------------------------------------------------------------------
(***************************************************************************)
(* Each action keeps the invariant.                                        *)
(***************************************************************************)
\* The player and the browser: the tab sends a new request, or none.
LEMMA MovesKeep ==
    ASSUME IInv, NEW t \in Tabs, NEW w \in Tab, Moves(t, w),
           floating' \subseteq Call, FloatingShape', UNCHANGED failures,
           Shape(w), w.view \in {tab[t].view, None},
           w.call # None => w.call.answer = None /\ w.call.canonical = None
    PROVE  IInv'
<1>1. UNCHANGED <<server, cookie, failures, told>> /\ tab' = [tab EXCEPT ![t] = w]
  BY DEF Moves
<1>2. LogTyped' /\ ReceiptsStand' /\ Forward /\ credential' \in [Guests -> Credential]
  BY <1>1, QuietServer
<1>3. Elsewhere
  BY <1>1, <1>2, FatesStay DEF Elsewhere, IInv, TypeOK
<1>4. w.view # None => Known(w.view)'
  <2> SUFFICES ASSUME w.view # None PROVE Known(w.view)'
    OBVIOUS
  <2>1. w.view \in Views /\ Known(w.view)
    BY DEF Tab, IInv, TabsTrue, TabTrue
  <2> QED
    BY <1>2, <2>1, KnownStays, LogIsTyped DEF IInv
<1>5. TabTrue(w)'
  BY <1>4, NewTabTrue
<1> QED
  BY <1>1, <1>3, <1>5, TabStep

LEMMA TabHere ==
    ASSUME IInv, NEW t \in Tabs
    PROVE  tab[t] \in Tab /\ TabTrue(tab[t]) /\ Shape(tab[t])
BY DEF IInv, TypeOK, TabsTrue, TabTrue

LEMMA FalseIsBoolean == \E b \in BOOLEAN : b = FALSE
OBVIOUS

\* What a choice makes of a tab that may make it.
LEMMA ExecutingTab ==
    ASSUME NEW v \in Tab, Shape(v), MayExecute(v), NEW key \in Keys,
           cookie \in Cookies \cup {None}
    PROVE  LET w == Executing(v, key) IN
           /\ w \in Tab /\ Shape(w) /\ w.view = v.view
           /\ w.intent = [key |-> key, expected |-> v.view.revision]
           /\ w.intent \in Intents /\ w.intent # None
           /\ w.call # None /\ w.call.answer = None /\ w.call.canonical = None
<1> DEFINE intent == [key |-> key, expected |-> v.view.revision]
           r == Request("execute", cookie, intent, FALSE, None)
           w == [v EXCEPT !.phase = "sending", !.intent = intent, !.abandonOpen = FALSE, !.call = r]
<1>1. v.view # None
  BY DEF MayExecute
<1>2. intent \in Intents /\ intent # None
  <2>1. intent \in Intents
    BY <1>1 DEF Tab, Views, Intents
  <2> QED
    BY <2>1, NoneAssumption
<1> HIDE DEF intent
<1>3. /\ r \in Call /\ r # None /\ r.step = "execute" /\ r.intent = intent
      /\ r.canonical = None /\ r.answer = None
  <2>1. \A b \in BOOLEAN :
            LET q == Request("execute", cookie, intent, b, None) IN
            /\ q \in Call /\ q # None /\ q.step = "execute" /\ q.intent = intent
            /\ q.canonical = None /\ q.answer = None
    BY <1>2, RequestTyped DEF Steps
  <2> QED
    BY <2>1, Zenon
<1>4. Executing(v, key) = w
  BY DEF Executing, r, intent
<1> HIDE DEF r
<1>5. /\ w \in Tab /\ w.phase = "sending" /\ w.intent = intent /\ w.call = r
      /\ w.view = v.view /\ w.abandonOpen = FALSE
  BY <1>2, <1>3 DEF Tab, Phases
<1> HIDE DEF w
<1>6. Shape(w)
  BY <1>1, <1>2, <1>3, <1>5 DEF Shape, Commands
<1> QED
  BY <1>2, <1>3, <1>4, <1>5, <1>6 DEF intent

LEMMA ChooseKeeps ==
    ASSUME IInv, NEW t \in Tabs, NEW key \in Keys, Choose(t, key)
    PROVE  IInv'
<1> PICK w : w = Executing(tab[t], key)
  OBVIOUS
<1>1. Moves(t, w) /\ MayExecute(tab[t]) /\ UNCHANGED failures
  BY DEF Choose
<1>2. /\ w \in Tab /\ Shape(w) /\ w.view = tab[t].view
      /\ w.call.answer = None /\ w.call.canonical = None
  BY <1>1, TabHere, ExecutingTab DEF IInv, TypeOK
<1>3. Overtaken(tab[t].call) \in SUBSET ({tab[t].call} \ {None})
  BY DEF Overtaken
<1>4. floating' \subseteq Call /\ FloatingShape'
  BY <1>3, FloatsKeep DEF Choose
<1> QED
  BY <1>1, <1>2, <1>4, MovesKeep

\* A tab that waits for what it waited for, in another phase or with its dialog.
LEMMA AsideTab ==
    ASSUME NEW v \in Tab, Shape(v), NEW phase \in Phases, NEW open \in BOOLEAN,
           \/ phase = v.phase
           \/ /\ phase = "unavailable" /\ v.intent = None
              /\ v.call # None => v.view # None /\ v.call.step = "query",
           open => v.abandonOpen \/ (v.view # None /\ v.intent = None /\ v.call = None)
    PROVE  LET w == [v EXCEPT !.phase = phase, !.abandonOpen = open] IN
           /\ w \in Tab /\ Shape(w) /\ w.view = v.view
           /\ w.intent = v.intent /\ w.call = v.call
<1> DEFINE w == [v EXCEPT !.phase = phase, !.abandonOpen = open]
<1>1. /\ w \in Tab /\ w.phase = phase /\ w.abandonOpen = open
      /\ w.view = v.view /\ w.intent = v.intent /\ w.call = v.call
  BY DEF Tab
<1> HIDE DEF w
<1>2. Shape(w)
  BY <1>1 DEF Shape, Commands
<1> QED
  BY <1>1, <1>2 DEF w

Aside(t) == EnvelopeFails(t) \/ OpenDialog(t) \/ CloseDialog(t)

LEMMA AsideMoves ==
    ASSUME IInv, NEW t \in Tabs, Aside(t)
    PROVE  \E w \in Tab :
               /\ Moves(t, w) /\ Shape(w) /\ w.view = tab[t].view
               /\ w.intent = tab[t].intent /\ w.call = tab[t].call
<1> PICK v \in Tab : v = tab[t]
  BY TabHere
<1>1. Shape(v)
  BY TabHere
<1>2. CASE EnvelopeFails(t)
  <2> DEFINE w == [v EXCEPT !.phase = "unavailable", !.abandonOpen = FALSE]
  <2>1. Moves(t, w) /\ MayExecute(v)
    BY <1>2 DEF EnvelopeFails
  <2>2. v.view # None /\ v.intent = None /\ (v.call # None => v.call.step = "query")
    BY <1>1, <2>1 DEF MayExecute, Shape
  <2>3. /\ w \in Tab /\ Shape(w) /\ w.view = v.view
        /\ w.intent = v.intent /\ w.call = v.call
    BY <1>1, <2>2, AsideTab DEF Phases
  <2> QED
    BY <2>1, <2>3
<1>3. CASE OpenDialog(t)
  <2> DEFINE w == [v EXCEPT !.phase = v.phase, !.abandonOpen = TRUE]
  <2>1. Moves(t, [v EXCEPT !.abandonOpen = TRUE]) /\ v.phase = "ready"
    BY <1>3 DEF OpenDialog
  <2>2. [v EXCEPT !.abandonOpen = TRUE] = w /\ v.phase \in Phases
    BY DEF Tab
  <2>3. v.view # None /\ v.intent = None /\ v.call = None
    BY <1>1, <2>1 DEF Shape
  <2>4. /\ w \in Tab /\ Shape(w) /\ w.view = v.view
        /\ w.intent = v.intent /\ w.call = v.call
    BY <1>1, <2>2, <2>3, AsideTab
  <2> QED
    BY <2>1, <2>2, <2>4
<1>4. CASE CloseDialog(t)
  <2> PICK w : w = [v EXCEPT !.abandonOpen = FALSE]
    OBVIOUS
  <2>1. Moves(t, w)
    BY <1>4 DEF CloseDialog
  <2>2. /\ w \in Tab /\ w.phase = v.phase /\ ~w.abandonOpen
        /\ w.view = v.view /\ w.intent = v.intent /\ w.call = v.call
    BY DEF Tab
  <2>3. Shape(w)
    BY <1>1, <2>2 DEF Shape
  <2> QED
    BY <2>1, <2>2, <2>3
<1> QED
  BY <1>2, <1>3, <1>4 DEF Aside

LEMMA AsideKeeps ==
    ASSUME IInv, NEW t \in Tabs, Aside(t)
    PROVE  IInv'
<1> PICK w \in Tab : /\ Moves(t, w) /\ Shape(w) /\ w.view = tab[t].view
                     /\ w.intent = tab[t].intent /\ w.call = tab[t].call
  BY AsideMoves
<1>1. UNCHANGED <<server, cookie, told, floating>> /\ tab' = [tab EXCEPT ![t] = w]
  BY DEF Moves, Aside, EnvelopeFails, OpenDialog, CloseDialog
<1>2. failures' \in 0 .. MaxFailures
  BY BoundsAssumption DEF Aside, EnvelopeFails, OpenDialog, CloseDialog, IInv, TypeOK
<1>3. LogTyped' /\ ReceiptsStand' /\ Forward /\ credential' \in [Guests -> Credential]
  BY <1>1, QuietServer
<1>4. Elsewhere
  BY <1>1, <1>2, <1>3, FatesStay DEF Elsewhere, IInv, TypeOK, FloatingShape
<1>5. TabTrue(w)
  BY TabHere DEF TabTrue
<1>6. TabTrue(w)'
  BY <1>3, <1>5, TabStays, LogIsTyped DEF IInv
<1> QED
  BY <1>1, <1>4, <1>6, TabStep

LEMMA QueryingKeeps ==
    ASSUME IInv, NEW t \in Tabs, tab[t].intent = None, Moves(t, Querying(tab[t], FALSE, cookie)),
           floating' \subseteq Call, FloatingShape', UNCHANGED failures
    PROVE  IInv'
<1>1. PICK b \in BOOLEAN : b = FALSE
  BY FalseIsBoolean
<1> DEFINE v == tab[t]
           r == Request("query", cookie, None, b, None)
           w == Querying(v, b, cookie)
<1>2. v \in Tab /\ Shape(v) /\ cookie \in Cookies \cup {None} /\ Moves(t, w)
  BY <1>1, TabHere DEF IInv, TypeOK
<1>3. /\ w \in Tab /\ w.view = v.view /\ w.intent = v.intent
      /\ w.phase = IF v.view = None THEN "loading" ELSE "requerying"
      /\ w.abandonOpen = v.abandonOpen /\ w.call = r
  BY <1>2, QueryingIs
<1>4. /\ r # None /\ r.step = "query" /\ r.intent = None
      /\ r.canonical = None /\ r.answer = None
  BY <1>2, RequestTyped DEF Steps
<1> HIDE DEF w, r
<1>5. w.call.step = r.step /\ w.call.intent = w.intent /\ w.call # None
  BY <1>3, <1>4
<1>6. Shape(w)
  BY <1>2, <1>3, <1>4, <1>5 DEF Shape, Commands
<1> QED
  BY <1>2, <1>3, <1>4, <1>6, MovesKeep

LEMMA ReconcileKeeps ==
    ASSUME IInv, NEW t \in Tabs, Reconcile(t)
    PROVE  IInv'
<1>1. PICK b \in BOOLEAN : b = FALSE
  BY FalseIsBoolean
<1> DEFINE v == tab[t]
           r == Request("requery", cookie, v.intent, b, None)
           w == Reconciling(v, b, cookie)
<1>2. /\ v \in Tab /\ cookie \in Cookies \cup {None} /\ Moves(t, w)
      /\ v.intent # None /\ v.view # None /\ ~v.abandonOpen /\ UNCHANGED <<floating, failures>>
  BY <1>1, TabHere DEF IInv, TypeOK, Reconcile, Shape
<1>3. /\ w \in Tab /\ w.view = v.view /\ w.intent = v.intent
      /\ w.phase = "requerying" /\ w.abandonOpen = v.abandonOpen /\ w.call = r
  BY <1>2, ReconcilingIs
<1>4. /\ r # None /\ r.step = "requery" /\ r.intent = v.intent
      /\ r.canonical = None /\ r.answer = None
  BY <1>2, RequestTyped DEF Steps, Tab
<1>5. floating' \subseteq Call /\ FloatingShape'
  BY <1>2 DEF IInv, TypeOK, FloatingShape
<1> HIDE DEF w, r
<1>6. w.call.step = r.step /\ w.call.intent = w.intent /\ w.call # None
  BY <1>3, <1>4
<1>7. Shape(w)
  BY <1>2, <1>3, <1>4, <1>6 DEF Shape, Commands
<1> QED
  BY <1>2, <1>3, <1>4, <1>5, <1>7, MovesKeep

LEMMA RequeryKeeps ==
    ASSUME IInv, NEW t \in Tabs, Requery(t) \/ Visible(t)
    PROVE  IInv'
<1>1. tab[t].intent = None
  BY TabHere DEF Requery, Visible, Shape
<1>2. Overtaken(tab[t].call) \in SUBSET ({tab[t].call} \ {None})
  BY DEF Overtaken
<1>3. floating' \subseteq Call /\ FloatingShape'
  BY <1>2, FloatsKeep DEF Requery, Visible
<1> QED
  BY <1>1, <1>3, QueryingKeeps DEF Requery, Visible

LEMMA RecoverKeeps ==
    ASSUME IInv, NEW t \in Tabs, Recover(t)
    PROVE  IInv'
<1>1. PICK b \in BOOLEAN : b = FALSE
  BY FalseIsBoolean
<1> DEFINE v == tab[t]
           r == Request("reset", cookie, None, b, None)
           w == [v EXCEPT !.phase = "loading", !.call = r]
<1>2. /\ v \in Tab /\ cookie \in Cookies \cup {None} /\ Moves(t, w)
      /\ v.intent = None /\ ~v.abandonOpen /\ UNCHANGED <<floating, failures>>
  BY <1>1, TabHere DEF IInv, TypeOK, Recover
<1>3. /\ r \in Call /\ r # None /\ r.step = "reset" /\ r.intent = None
      /\ r.canonical = None /\ r.answer = None
  BY <1>2, RequestTyped DEF Steps
<1> HIDE DEF r
<1>4. /\ w \in Tab /\ w.phase = "loading" /\ w.call = r
      /\ w.view = v.view /\ w.intent = v.intent /\ ~w.abandonOpen
  BY <1>2, <1>3 DEF Tab, Phases
<1>5. floating' \subseteq Call /\ FloatingShape'
  BY <1>2 DEF IInv, TypeOK, FloatingShape
<1> HIDE DEF w
<1>7. Shape(w)
  BY <1>2, <1>3, <1>4 DEF Shape, Commands
<1> QED
  BY <1>2, <1>3, <1>4, <1>5, <1>7, MovesKeep

LEMMA OpenedTab ==
    ASSUME NEW jar \in Cookies \cup {None}
    PROVE  LET w == [Opened EXCEPT !.call.cookie = jar] IN
           /\ w \in Tab /\ Shape(w) /\ w.view = None /\ w.intent = None
           /\ w.call # None /\ w.call.step = "query" /\ w.call.intent = None
           /\ w.call.answer = None /\ w.call.canonical = None
<1>1. PICK b \in BOOLEAN : b = FALSE
  BY FalseIsBoolean
<1> DEFINE r == Request("query", jar, None, b, None)
           w == [phase |-> "loading", view |-> None, intent |-> None, call |-> r,
                 abandonOpen |-> b]
<1>2. [Opened EXCEPT !.call.cookie = jar] = w
  <2>1. Opened = [phase |-> "loading", view |-> None, intent |-> None,
                  call |-> Request("query", None, None, b, None), abandonOpen |-> b]
    BY <1>1 DEF Opened
  <2>2. [Request("query", None, None, b, None) EXCEPT !.cookie = jar] = r
    BY DEF Request
  <2>3. [Opened EXCEPT !.call.cookie = jar] = [Opened EXCEPT !.call = [Opened.call EXCEPT !.cookie = jar]]
    BY <2>1
  <2>4. Opened.call = Request("query", None, None, b, None)
    BY <2>1
  <2>5. [Opened EXCEPT !.call = r] = w
    BY <2>1
  <2> QED
    BY <2>2, <2>3, <2>4, <2>5, Zenon
<1>3. /\ r \in Call /\ r # None /\ r.step = "query" /\ r.intent = None
      /\ r.canonical = None /\ r.answer = None
  BY RequestTyped DEF Steps
<1> HIDE DEF r
<1>4. w \in Tab
  BY <1>3 DEF Tab, Phases
<1>5. Shape(w)
  BY <1>1, <1>3 DEF Shape, Commands
<1> QED
  BY <1>2, <1>3, <1>4, <1>5

LEMMA ReloadKeeps ==
    ASSUME IInv, NEW t \in Tabs, Reload(t)
    PROVE  IInv'
<1> DEFINE w == [Opened EXCEPT !.call.cookie = cookie]
<1>1. Severed(tab[t].call) \in SUBSET ({tab[t].call} \ {None})
  BY DEF Severed
<1>2. floating' \subseteq Call /\ FloatingShape'
  BY <1>1, FloatsKeep DEF Reload
<1>3. cookie \in Cookies \cup {None} /\ Moves(t, w) /\ UNCHANGED failures
  BY DEF IInv, TypeOK, Reload
<1>4. /\ w \in Tab /\ Shape(w) /\ w.view = None
      /\ w.call.answer = None /\ w.call.canonical = None
  BY <1>3, OpenedTab
<1> HIDE DEF w
<1> QED
  BY <1>2, <1>3, <1>4, MovesKeep

\* A tab whose request is answered.
LEMMA AnsweredTab ==
    ASSUME NEW v \in Tab, v.call # None, NEW a \in Answers, TabTrue(v)
    PROVE  LET w == [v EXCEPT !.call.answer = a] IN
           /\ w \in Tab /\ Shape(w) /\ w.view = v.view /\ w.intent = v.intent
           /\ w.call \in Call /\ w.call # None /\ w.call.answer = a
           /\ w.call.step = v.call.step /\ w.call.intent = v.call.intent
           /\ w.call.cookie = v.call.cookie /\ w.call.canonical = v.call.canonical
<1> DEFINE w == [v EXCEPT !.call.answer = a]
           c == [v.call EXCEPT !.answer = a]
<1>1. v.call \in Call
  BY DEF Tab
<1>2. /\ c \in Call /\ c.answer = a
      /\ c.step = v.call.step /\ c.intent = v.call.intent
      /\ c.cookie = v.call.cookie /\ c.canonical = v.call.canonical
  BY <1>1 DEF Call
<1>3. c # None
  BY <1>2, NoneAssumption
<1>4. w = [v EXCEPT !.call = c]
  OBVIOUS
<1> HIDE DEF c
<1>5. /\ w \in Tab /\ w.call = c /\ w.phase = v.phase
      /\ w.view = v.view /\ w.intent = v.intent /\ w.abandonOpen = v.abandonOpen
  BY <1>2, <1>4 DEF Tab
<1> HIDE DEF w
<1>6. Shape(w)
  BY <1>2, <1>3, <1>5 DEF TabTrue, Shape
<1> QED
  BY <1>2, <1>3, <1>5, <1>6 DEF w

\* The answer makes the tab true if it is true itself.
LEMMA AnsweredKeeps ==
    ASSUME IInv, Elsewhere, NEW t \in Tabs, tab[t].call # None, NEW a \in Answers,
           tab' = [tab EXCEPT ![t].call.answer = a],
           Answered(tab[t].call, a)
    PROVE  IInv'
<1>0. PICK v \in Tab : v = tab[t]
  BY TabHere
<1>1. TabTrue(v) /\ v.call # None /\ tab \in [Tabs -> Tab]
  BY <1>0, TabHere DEF IInv, TypeOK
<1>11. PICK w : w = [v EXCEPT !.call.answer = a]
  OBVIOUS
<1>2. tab' = [tab EXCEPT ![t] = w]
  BY <1>0, <1>1, <1>11
<1>3. /\ w \in Tab /\ Shape(w) /\ w.view = v.view
      /\ w.call # None /\ w.call.answer = a
      /\ w.call.step = v.call.step /\ w.call.intent = v.call.intent
      /\ w.call.cookie = v.call.cookie /\ w.call.canonical = v.call.canonical
  BY <1>1, <1>11, AnsweredTab
<1>5. TabTrue(v)'
  BY <1>1, TabStays, LogIsTyped DEF IInv, Elsewhere
<1>6. PICK c : c = v.call
  OBVIOUS
<1>7. Answered(c, a)
  BY <1>0, <1>6
<1>8. /\ a.kind = "view" => Known(a.view)'
      /\ c.step \in Commands /\ a.kind \in {"view", "rejected"} => c.cookie # None
      /\ c.step \in Commands /\ a.kind = "view" => Saved(c.cookie.guest, c.intent.key)'
  BY <1>7 DEF Answered
<1>9. AnswerTrue(w.call)'
  BY <1>3, <1>6, <1>8 DEF AnswerTrue
<1>10. TabTrue(w)'
  <2>1. /\ v.view # None => Known(v.view)'
        /\ v.call.canonical # None => Known(v.call.canonical)'
    BY <1>1, <1>5 DEF TabTrue
  <2>2. w.view # None => Known(w.view)'
    BY <1>3, <2>1 DEF Known, Admitted
  <2>3. w.call.canonical # None => Known(w.call.canonical)'
    BY <1>3, <2>1 DEF Known, Admitted
  <2> QED
    BY <1>3, <1>9, <2>2, <2>3 DEF TabTrue
<1> QED
  BY <1>2, <1>3, <1>10, TabStep

LEMMA ServeCallKeeps ==
    ASSUME IInv, NEW t \in Tabs, ServeCall(t)
    PROVE  IInv'
<1> DEFINE r == tab[t].call
<1>1. PICK a \in Answers : Serve(r, a) /\ tab' = [tab EXCEPT ![t].call.answer = a]
  BY DEF ServeCall
<1>2. r # None /\ r \in Call /\ (r.step \in Commands => r.intent # None)
  BY TabHere DEF ServeCall, Tab, Shape, Commands
<1>3. PICK c \in Call : c = r
  BY <1>2
<1>4. /\ LogTyped' /\ ReceiptsStand' /\ Forward
      /\ credential' \in [Guests -> Credential]
      /\ Answered(c, a)
  BY <1>1, <1>2, <1>3, ServedTrue DEF IInv
<1>5. Elsewhere
  BY <1>4, FatesStay DEF Elsewhere, ServeCall, IInv, TypeOK, FloatingShape
<1> QED
  BY <1>1, <1>2, <1>3, <1>4, <1>5, AnsweredKeeps

LEMMA FaultKeeps ==
    ASSUME IInv, NEW t \in Tabs, Fault(t)
    PROVE  IInv'
<1> DEFINE r == tab[t].call
           a == [kind |-> "rejected"]
<1>1. /\ r # None /\ r.cookie # None /\ UNCHANGED <<server, cookie, floating, told>>
      /\ tab' = [tab EXCEPT ![t].call.answer = a]
  BY DEF Fault
<1>2. a \in Answers /\ a.kind = "rejected"
  BY DEF Answers
<1>3. LogTyped' /\ ReceiptsStand' /\ Forward /\ credential' \in [Guests -> Credential]
  BY <1>1, QuietServer
<1>4. failures' \in 0 .. MaxFailures
  BY BoundsAssumption DEF Fault, IInv, TypeOK
<1>5. Elsewhere
  BY <1>1, <1>3, <1>4, FatesStay DEF Elsewhere, IInv, TypeOK, FloatingShape
<1>9. PICK v \in Tab : v = tab[t]
  BY TabHere
<1>6. TabTrue(v) /\ v.call # None /\ v.call.cookie # None /\ tab \in [Tabs -> Tab]
  BY <1>1, <1>9, TabHere DEF IInv, TypeOK
<1> HIDE DEF a
<1>13. PICK w : w = [v EXCEPT !.call.answer = a]
  OBVIOUS
<1>7. tab' = [tab EXCEPT ![t] = w]
  BY <1>1, <1>6, <1>9, <1>13
<1>8. /\ w \in Tab /\ Shape(w) /\ w.view = v.view
      /\ w.call # None /\ w.call.answer = a
      /\ w.call.step = v.call.step /\ w.call.intent = v.call.intent
      /\ w.call.cookie = v.call.cookie /\ w.call.canonical = v.call.canonical
  BY <1>2, <1>6, <1>13, AnsweredTab
<1>10. TabTrue(v)'
  BY <1>3, <1>6, TabStays, LogIsTyped DEF IInv
<1>11. AnswerTrue(w.call)'
  BY <1>2, <1>6, <1>8 DEF AnswerTrue
<1>12. TabTrue(w)'
  <2>1. /\ v.view # None => Known(v.view)'
        /\ v.call.canonical # None => Known(v.call.canonical)'
    BY <1>6, <1>10 DEF TabTrue
  <2>2. w.view # None => Known(w.view)'
    BY <1>8, <2>1 DEF Known, Admitted
  <2>3. w.call.canonical # None => Known(w.call.canonical)'
    BY <1>8, <2>1 DEF Known, Admitted
  <2> QED
    BY <1>8, <1>11, <2>2, <2>3 DEF TabTrue
<1> QED
  BY <1>5, <1>7, <1>8, <1>12, TabStep

LEMMA ServeFloatingKeeps ==
    ASSUME IInv, NEW r \in floating, ServeFloating(r)
    PROVE  IInv'
<1>1. PICK a \in Answers :
          /\ Serve(r, a)
          /\ floating' = (floating \ {r})
                 \cup (IF r.step \in {"reset", "issue"} /\ SetsCookie(a)
                       THEN {[r EXCEPT !.answer = a]} ELSE {})
  BY DEF ServeFloating
<1>2. r \in Call /\ (r.step \in Commands => r.intent # None) /\ r.step \in Steps
  BY DEF IInv, TypeOK, FloatingShape, Call
<1>3. PICK c \in Call : c = r
  BY <1>2
<1>4. /\ LogTyped' /\ ReceiptsStand' /\ Forward
      /\ credential' \in [Guests -> Credential]
  BY <1>1, <1>2, <1>3, ServedTrue DEF IInv
<1>5. [r EXCEPT !.answer = a] \in Call /\ [r EXCEPT !.answer = a].step = r.step
  BY <1>2 DEF Call
<1>6. floating' \subseteq Call
  BY <1>1, <1>5 DEF IInv, TypeOK
<1>7. FloatingShape'
  BY <1>1, <1>5 DEF FloatingShape, IInv, Commands
<1>8. Elsewhere
  BY <1>4, <1>6, <1>7, FatesStay DEF Elsewhere, ServeFloating, IInv, TypeOK
<1> QED
  BY <1>8, OtherStep DEF ServeFloating

LEMMA JarTyped ==
    ASSUME IInv, NEW a \in Answers
    PROVE  Jar(a) \in Cookies \cup {None}
BY AnswerFields DEF Jar, IInv, TypeOK

LEMMA ReceiveFloatingKeeps ==
    ASSUME IInv, NEW r \in floating, ReceiveFloating(r)
    PROVE  IInv'
<1>1. UNCHANGED <<server, tab, failures, told>>
  BY DEF ReceiveFloating
<1>2. LogTyped' /\ ReceiptsStand' /\ Forward /\ credential' \in [Guests -> Credential]
  BY <1>1, QuietServer
<1>3. r.answer \in Answers
  BY DEF ReceiveFloating, IInv, TypeOK, Call
<1>4. cookie' \in Cookies \cup {None}
  BY <1>3, JarTyped DEF ReceiveFloating
<1>5. floating' \subseteq Call /\ FloatingShape'
  BY DEF ReceiveFloating, IInv, TypeOK, FloatingShape
<1>6. Elsewhere
  BY <1>1, <1>2, <1>4, <1>5, FatesStay DEF Elsewhere, IInv, TypeOK
<1> QED
  BY <1>1, <1>6, OtherStep

\* What an answer, or its loss, makes of the tab is true.
LEMMA AfterTrue ==
    ASSUME IInv, LogTyped', Forward, NEW t \in Tabs,
           NEW v \in Tab, v = tab[t], v.call # None,
           NEW a \in Answers, a.kind = "view" => Known(a.view),
           NEW jar \in Cookies \cup {None}, NEW w, w = After(v, a, jar)
    PROVE  w \in Tab /\ Outcome(v, a, w) /\ TabTrue(w)'
<1>2. TabTrue(v) /\ Shape(v) /\ LogTyped
  BY TabHere, LogIsTyped DEF IInv
<1>3. Outcome(v, a, w)
  BY <1>2, AfterOutcome
<1>5. w.view # None => Known(w.view)'
  <2> SUFFICES ASSUME w.view # None PROVE Known(w.view)'
    OBVIOUS
  <2>1. w.view \in Views
    BY <1>3 DEF Outcome, Tab
  <2>2. /\ v.view # None => Known(v.view)
        /\ v.call.canonical # None => Known(v.call.canonical)
    BY <1>2 DEF TabTrue
  <2>3. CASE w.view = v.view
    BY <2>1, <2>2, <2>3, <1>2, KnownStays, NoneAssumption
  <2>4. CASE a.kind = "view" /\ w.view = a.view
    BY <2>1, <2>4, <1>2, KnownStays
  <2>5. CASE v.call.canonical # None /\ w.view = v.call.canonical
    BY <2>1, <2>2, <2>5, <1>2, KnownStays
  <2> QED
    BY <1>3, <2>3, <2>4, <2>5 DEF Outcome
<1>6. w.call # None => w.call.answer = None /\ (w.call.canonical # None => Known(w.call.canonical)')
  <2> SUFFICES ASSUME w.call # None PROVE w.call.answer = None /\ (w.call.canonical # None => Known(w.call.canonical)')
    OBVIOUS
  <2>1. /\ w.call.answer = None
        /\ w.call.canonical = None \/ (a.kind = "view" /\ w.call.canonical = a.view)
    BY <1>3 DEF Outcome
  <2>2. a.kind = "view" => Known(a.view)'
    BY <1>2, AnswerFields, KnownStays
  <2> QED
    BY <2>1, <2>2
<1>7. TabTrue(w)'
  BY <1>3, <1>5, <1>6, NewTabTrue DEF Outcome
<1> QED
  BY <1>3, <1>7 DEF Outcome

LEMMA ReceiveKeeps ==
    ASSUME IInv, NEW t \in Tabs, Receive(t)
    PROVE  IInv'
<1>1. PICK v \in Tab : v = tab[t]
  BY TabHere
<1>2. PICK a \in Answers : a = v.call.answer
  BY <1>1 DEF Receive, Tab, Call
<1>3. /\ v.call # None /\ v.call \in Call /\ cookie' = Jar(a)
      /\ tab' = [tab EXCEPT ![t] = After(v, a, Jar(a))]
      /\ Learns(v, a) /\ UNCHANGED <<server, floating, failures>>
  BY <1>1, <1>2 DEF Receive, Tab
<1>4. PICK jar \in Cookies \cup {None} : jar = Jar(a)
  BY JarTyped
<1>5. PICK w : w = After(v, a, jar)
  OBVIOUS
<1>6. LogTyped' /\ ReceiptsStand' /\ Forward /\ credential' \in [Guests -> Credential]
  BY <1>3, QuietServer
<1>7. TabTrue(v) /\ Shape(v) /\ AnswerTrue(v.call)
  BY <1>1, <1>3, TabHere DEF TabTrue
<1>8. a # None /\ (a.kind = "view" => Known(a.view))
  BY <1>2, <1>7, AnswerFields DEF AnswerTrue
<1>9. w \in Tab /\ Outcome(v, a, w) /\ TabTrue(w)'
  BY <1>1, <1>3, <1>4, <1>5, <1>6, <1>8, AfterTrue
<1> DEFINE d == [key |-> v.intent.key, expected |-> v.intent.expected,
                 guest |-> v.call.cookie.guest, saved |-> a.kind = "view"]
<1>10. told' = IF v.intent # None /\ a.kind \in {"view", "rejected"} /\ w.intent = None
               THEN told \cup {d} ELSE told
  BY <1>3, <1>4, <1>5 DEF Learns
<1>11. ASSUME v.intent # None, a.kind \in {"view", "rejected"}, w.intent = None
       PROVE  d \in Fates /\ (d.saved => Saved(d.guest, d.key)')
  <2>1. v.call.step \in Commands /\ v.call.intent = v.intent
    BY <1>3, <1>7, <1>9, <1>11 DEF Outcome, Shape
  <2>2. v.call.cookie # None /\ v.call.cookie.guest \in Guests
    BY <1>2, <1>3, <1>7, <1>8, <1>11, <2>1 DEF AnswerTrue, Call, Cookies
  <2>3. v.intent.key \in Keys /\ v.intent.expected \in 0 .. MaxRevision
    BY <1>11 DEF Tab, Intents
  <2>4. d \in Fates
    BY <2>2, <2>3 DEF Fates
  <2>5. d.saved => Saved(v.call.cookie.guest, v.intent.key)
    BY <1>2, <1>7, <1>8, <2>1 DEF AnswerTrue
  <2>6. d.saved => Saved(v.call.cookie.guest, v.intent.key)'
    BY <1>6, <2>3, <2>5, SavedStays
  <2> QED
    BY <2>4, <2>6
<1> HIDE DEF d
<1>12. told' \subseteq Fates /\ SavedFates'
  <2>1. \A e \in told : e \in Fates /\ (e.saved => Saved(e.guest, e.key)')
    <3> SUFFICES ASSUME NEW e \in told PROVE e \in Fates /\ (e.saved => Saved(e.guest, e.key)')
      OBVIOUS
    <3>1. e \in Fates /\ e.key \in Keys /\ (e.saved => Saved(e.guest, e.key))
      BY DEF IInv, Fates, SavedFates
    <3> QED
      BY <1>6, <3>1, SavedStays
  <2>2. \A e \in told' : e \in Fates /\ (e.saved => Saved(e.guest, e.key)')
    BY <1>10, <1>11, <2>1
  <2> QED
    BY <2>2 DEF SavedFates
<1>13. Elsewhere
  BY <1>3, <1>4, <1>6, <1>12 DEF Elsewhere, IInv, TypeOK, FloatingShape
<1>14. tab' = [tab EXCEPT ![t] = w]
  BY <1>3, <1>4, <1>5
<1> QED
  BY <1>9, <1>13, <1>14, TabStep

LEMMA LoseKeeps ==
    ASSUME IInv, NEW t \in Tabs, Lose(t)
    PROVE  IInv'
<1> DEFINE a == [kind |-> "lost"]
<1>9. PICK v \in Tab : v = tab[t]
  BY TabHere
<1>10. PICK jar \in Cookies \cup {None} : jar = cookie
  BY DEF IInv, TypeOK
<1>11. PICK w : w = After(v, a, jar)
  OBVIOUS
<1>1. /\ v.call # None /\ UNCHANGED <<server, cookie, told>>
      /\ tab' = [tab EXCEPT ![t] = w]
  BY <1>9, <1>10, <1>11 DEF Lose
<1>2. a \in Answers /\ a.kind # "view"
  BY DEF Answers
<1>3. LogTyped' /\ ReceiptsStand' /\ Forward /\ credential' \in [Guests -> Credential]
  BY <1>1, QuietServer
<1>4. failures' \in 0 .. MaxFailures
  BY BoundsAssumption DEF Lose, IInv, TypeOK
<1>5. Severed(tab[t].call) \in SUBSET ({tab[t].call} \ {None})
  BY DEF Severed
<1>6. floating' \subseteq Call /\ FloatingShape'
  BY <1>5, FloatsKeep DEF Lose
<1>7. Elsewhere
  BY <1>1, <1>3, <1>4, <1>6, FatesStay DEF Elsewhere, IInv, TypeOK
<1> HIDE DEF a
<1>8. w \in Tab /\ TabTrue(w)'
  BY <1>1, <1>2, <1>3, <1>9, <1>11, AfterTrue
<1> QED
  BY <1>1, <1>7, <1>8, TabStep

LEMMA TimeKeeps ==
    ASSUME IInv, NEW g \in Guests, FallDue(g) \/ GraceEnds(g) \/ Expire(g)
    PROVE  IInv'
<1>1. UNCHANGED <<cookie, tab, floating, failures, told>>
  BY DEF FallDue, GraceEnds, Expire
<1>2. LogTyped /\ ReceiptsStand
  BY LogIsTyped DEF IInv
<1>3. LogTyped' /\ ReceiptsStand' /\ Forward
  <2>1. CASE UNCHANGED <<standing, effects, receipts>>
    BY <1>2, <2>1, QuietLog
  <2>2. CASE Log!Remove(g)
    BY <1>2, <2>2, RemoveForward
  <2> QED
    BY <2>1, <2>2 DEF FallDue, GraceEnds, Expire, logVars
<1>4. credential' \in [Guests -> Credential]
  <2>1. credential \in [Guests -> Credential]
    BY DEF IInv, TypeOK
  <2>2. [credential[g] EXCEPT !.due = TRUE] \in Credential
    BY <2>1 DEF Credential
  <2>3. [credential[g] EXCEPT !.graceOpen = FALSE] \in Credential
    BY <2>1 DEF Credential
  <2>4. CASE FallDue(g)
    <3>1. credential' = [credential EXCEPT ![g] = [credential[g] EXCEPT !.due = TRUE]]
      BY <2>4 DEF FallDue
    <3> QED
      BY <2>1, <2>2, <3>1
  <2>5. CASE GraceEnds(g)
    <3>1. credential' = [credential EXCEPT ![g] = [credential[g] EXCEPT !.graceOpen = FALSE]]
      BY <2>5 DEF GraceEnds
    <3> QED
      BY <2>1, <2>3, <3>1
  <2>6. CASE Expire(g)
    BY <2>1, <2>6 DEF Expire
  <2> QED
    BY <2>4, <2>5, <2>6
<1>5. Elsewhere
  BY <1>1, <1>3, <1>4, FatesStay DEF Elsewhere, IInv, TypeOK, FloatingShape
<1> QED
  BY <1>1, <1>5, OtherStep

-----------------------------------------------------------------------------
LEMMA InitEstablishes == Init => IInv
<1> SUFFICES ASSUME Init PROVE IInv
  OBVIOUS
<1>1. /\ standing = [g \in Guests |-> "absent"]
      /\ effects = [g \in Guests |-> <<>>]
      /\ receipts = [g \in Guests |-> [k \in Keys |-> None]]
      /\ credential = [g \in Guests |-> [secret |-> 0, graceOpen |-> FALSE, due |-> FALSE]]
      /\ cookie = None /\ tab = [t \in Tabs |-> Opened]
      /\ floating = {} /\ failures = 0 /\ told = {}
  BY DEF Init, Log!Init
<1>2. <<>> \in Seq(Keys) /\ Len(<<>>) = 0
  OBVIOUS
<1>3. LogTyped /\ ReceiptsStand
  BY <1>1, <1>2, BoundsAssumption DEF LogTyped, ReceiptsStand
<1>4. credential \in [Guests -> Credential] /\ failures \in 0 .. MaxFailures
  BY <1>1, BoundsAssumption DEF Credential
<1>5. [Opened EXCEPT !.call.cookie = None] = Opened
  <2>0. PICK b \in BOOLEAN : b = FALSE
    BY FalseIsBoolean
  <2>1. Opened = [phase |-> "loading", view |-> None, intent |-> None,
                  call |-> Request("query", None, None, b, None), abandonOpen |-> b]
    BY <2>0 DEF Opened
  <2>2. Opened.call = Request("query", None, None, b, None)
    BY <2>1
  <2>3. [Request("query", None, None, b, None) EXCEPT !.cookie = None]
            = Request("query", None, None, b, None)
    BY DEF Request
  <2>4. [Opened EXCEPT !.call.cookie = None] = [Opened EXCEPT !.call = [Opened.call EXCEPT !.cookie = None]]
    BY <2>1
  <2>5. [Opened EXCEPT !.call = Opened.call] = Opened
    BY <2>1
  <2> QED
    BY <2>2, <2>3, <2>4, <2>5, Zenon
<1>6. /\ Opened \in Tab /\ Shape(Opened) /\ Opened.view = None
      /\ Opened.call.answer = None /\ Opened.call.canonical = None
  BY <1>5, OpenedTab
<1>7. TabTrue(Opened)
  BY <1>6 DEF TabTrue, AnswerTrue
<1>8. TabsTrue /\ tab \in [Tabs -> Tab]
  BY <1>1, <1>6, <1>7 DEF TabsTrue
<1>9. TypeOK
  BY <1>1, <1>3, <1>4, <1>6, <1>8 DEF TypeOK, LogTyped, Shape
<1> QED
  BY <1>1, <1>3, <1>8, <1>9 DEF IInv, FloatingShape, SavedFates

LEMMA StepKeeps == IInv /\ [Next]_vars => IInv'
<1> SUFFICES ASSUME IInv, [Next]_vars PROVE IInv'
  OBVIOUS
<1>1. CASE UNCHANGED vars
  <2>1. /\ UNCHANGED <<standing, effects, receipts, credential>>
        /\ UNCHANGED <<cookie, tab, floating, failures, told>>
    BY <1>1 DEF vars, server, logVars
  <2> QED
    BY <2>1 DEF IInv, TypeOK, ReceiptsStand, FloatingShape, TabsTrue, SavedFates, TabTrue,
                AnswerTrue, Known, Saved, Admitted
<1>2. ASSUME NEW t \in Tabs, NEW key \in Keys, Choose(t, key) PROVE IInv'
  BY <1>2, ChooseKeeps
<1>3. ASSUME NEW t \in Tabs,
             \/ Aside(t)
             \/ Reconcile(t) \/ Requery(t) \/ Visible(t) \/ Recover(t) \/ Reload(t)
             \/ ServeCall(t) \/ Fault(t) \/ Receive(t) \/ Lose(t)
      PROVE  IInv'
  BY <1>3, AsideKeeps, ReconcileKeeps, RequeryKeeps, RecoverKeeps, ReloadKeeps,
     ServeCallKeeps, FaultKeeps, ReceiveKeeps, LoseKeeps
<1>4. ASSUME NEW r \in floating, ServeFloating(r) \/ ReceiveFloating(r) PROVE IInv'
  BY <1>4, ServeFloatingKeeps, ReceiveFloatingKeeps
<1>5. ASSUME NEW g \in Guests, FallDue(g) \/ GraceEnds(g) \/ Expire(g) PROVE IInv'
  BY <1>5, TimeKeeps
<1> QED
  BY <1>1, <1>2, <1>3, <1>4, <1>5 DEF Next, Aside

\* The tabs, the jar, the requests under way and what was told hold together
\* however many tabs, guests, rotations and failures there are.
THEOREM Invariance == Spec => []IInv
<1>1. Init => IInv
  BY InitEstablishes
<1>2. IInv /\ [Next]_vars => IInv'
  BY StepKeeps
<1> QED
  BY <1>1, <1>2, PTL DEF Spec

\* The log, the tabs, the jar and all that is on its way keep their shape.
THEOREM TypeCorrectness == Spec => []TypeOK
<1>1. IInv => TypeOK
  BY DEF IInv
<1> QED
  BY <1>1, Invariance, PTL

\* No tab is ever ahead of its guest (publishView in counter-shell.tsx).
THEOREM ViewsAreAlwaysSaved == Spec => []ViewsAreSaved
<1>1. IInv => ViewsAreSaved
  BY DEF IInv, TabsTrue, TabTrue, Known, ViewsAreSaved
<1> QED
  BY <1>1, Invariance, PTL

\* Whoever was told that an intent was saved has its receipt, through every
\* reload, lost answer and change of guest.
THEOREM SavedFatesAreTrue == Spec => []SavedFates
<1>1. IInv => SavedFates
  BY DEF IInv
<1> QED
  BY <1>1, Invariance, PTL

-----------------------------------------------------------------------------
(***************************************************************************)
(* An intent that was told superseded.  It needs a browser of one guest,   *)
(* because the shell does not keep whom a try was made for, and a server   *)
(* that does not fail inside a request, because it would answer like a     *)
(* conflict.                                                               *)
(*                                                                         *)
(* A key is bound to the revision that its intent expected wherever the    *)
(* intent still is (KeysBind); so a request that arrives late finds the    *)
(* guest past it and settles nothing (Lost).                               *)
(***************************************************************************)
OneGuest == \A g, h \in Guests : g = h

Fate(d) == [key |-> d.key, expected |-> d.expected]

Issued == ({tab[t].intent : t \in Tabs} \cup {r.intent : r \in floating}
           \cup {Fate(d) : d \in told}) \ {None}

KeysBind == \A i, j \in Issued : i.key = j.key => i = j

\* The guest has gone past what the intent expected, without it.
Lost(g, i) ==
    /\ Admitted(g)
    /\ standing[g] = "live" => receipts[g][i.key] = None /\ Past(g, i.expected)

IntentsReached ==
    \A i \in Issued, g \in Guests :
        Admitted(g) /\ (standing[g] = "live" => Len(effects[g]) >= i.expected)

RefusalTrue(v) ==
    v.call # None /\ v.call.step = "retry" /\ v.call.answer # None
    /\ v.call.answer.kind = "rejected"
        => v.call.cookie # None /\ Lost(v.call.cookie.guest, v.call.intent)

RefusalsTrue == \A t \in Tabs : RefusalTrue(tab[t])

SupersededFates == \A d \in told : ~d.saved => Lost(d.guest, Fate(d))

SInv ==
    /\ KeysBind
    /\ IntentsReached
    /\ RefusalsTrue
    /\ SupersededFates

LEMMA IssuedTyped ==
    ASSUME IInv
    PROVE  Issued \subseteq Intents
<1>1. \A t \in Tabs : tab[t].intent \in Intents \cup {None}
  BY TabHere DEF Tab
<1>2. \A r \in floating : r.intent \in Intents \cup {None}
  BY DEF IInv, TypeOK, Call
<1>3. \A d \in told : Fate(d) \in Intents
  BY DEF IInv, Fates, Fate, Intents
<1> QED
  BY <1>1, <1>2, <1>3 DEF Issued

LEMMA LostStays ==
    ASSUME IInv, LogTyped', KeysBind, Forward, NEW i \in Issued \cup {None}, SettlesOnly(i),
           NEW g, NEW j \in Issued, Lost(g, j)
    PROVE  Lost(g, j)'
<1>1. j \in Intents /\ g \in Guests /\ j.key \in Keys /\ j.expected \in Nat
  BY IssuedTyped, BoundsAssumption DEF Lost, Admitted, Intents
<1>2. Admitted(g)'
  BY DEF Lost, Admitted, Forward
<1>3. Len(effects[g]) \in Nat /\ Len(effects'[g]) \in Nat
  BY <1>1, LogIsTyped, LenProperties DEF LogTyped, IInv
<1>4. ASSUME standing'[g] = "live"
      PROVE  receipts'[g][j.key] = None /\ Past(g, j.expected)'
  <2>1. /\ standing[g] = "live" /\ Len(effects'[g]) >= Len(effects[g])
        /\ receipts[g][j.key] = None /\ Past(g, j.expected)
    BY <1>1, <1>4 DEF Lost, Admitted, Forward
  <2>2. Past(g, j.expected)'
    BY <1>1, <1>3, <2>1 DEF Past
  <2>3. ASSUME receipts'[g][j.key] # None PROVE FALSE
    <3>1. /\ i # None /\ i.key = j.key
          /\ i.expected = Len(effects[g]) /\ i.expected < MaxRevision
      BY <1>1, <2>1, <2>3 DEF SettlesOnly
    <3>2. i = j
      BY <3>1 DEF KeysBind
    <3> QED
      BY <1>1, <1>3, <2>1, <3>1, <3>2, BoundsAssumption DEF Past
  <2> QED
    BY <2>2, <2>3
<1> QED
  BY <1>2, <1>4 DEF Lost

LEMMA RefusalStays ==
    ASSUME IInv, LogTyped', SInv, Forward, NEW i \in Issued \cup {None}, SettlesOnly(i),
           NEW t \in Tabs, NEW v \in Tab, v = tab[t]
    PROVE  RefusalTrue(v)'
<1> SUFFICES ASSUME v.call # None, v.call.step = "retry", v.call.answer # None,
                    v.call.answer.kind = "rejected"
             PROVE  v.call.cookie # None /\ Lost(v.call.cookie.guest, v.call.intent)'
  BY DEF RefusalTrue
<1>1. v.call.cookie # None /\ Lost(v.call.cookie.guest, v.call.intent)
  BY DEF SInv, RefusalsTrue, RefusalTrue
<1>2. v.call.intent = v.intent /\ v.intent # None
  BY TabHere DEF Shape
<1>3. v.call.intent \in Issued
  BY <1>2 DEF Issued
<1> QED
  BY <1>1, <1>3, LostStays DEF SInv

LEMMA SupersededStay ==
    ASSUME IInv, LogTyped', SInv, Forward, NEW i \in Issued \cup {None}, SettlesOnly(i),
           NEW d \in told, ~d.saved
    PROVE  Lost(d.guest, Fate(d))'
<1>1. Lost(d.guest, Fate(d))
  BY DEF SInv, SupersededFates
<1>2. Fate(d) # None
  <2>1. Fate(d) \in Intents
    BY DEF IInv, Fates, Fate, Intents
  <2> QED
    BY <2>1, NoneAssumption
<1>3. Fate(d) \in Issued
  BY <1>2 DEF Issued
<1>4. PICK j : j = Fate(d)
  OBVIOUS
<1>5. Lost(d.guest, j)'
  BY <1>1, <1>3, <1>4, LostStays DEF SInv
<1> QED
  BY <1>4, <1>5 DEF Fate

LEMMA ReachedStay ==
    ASSUME IInv, LogTyped', IntentsReached, Forward, Issued' \subseteq Issued
    PROVE  IntentsReached'
<1> SUFFICES ASSUME NEW i \in Issued, NEW g \in Guests
             PROVE  Admitted(g)' /\ (standing'[g] = "live" => Len(effects'[g]) >= i.expected)
  BY DEF IntentsReached
<1>1. Admitted(g) /\ (standing[g] = "live" => Len(effects[g]) >= i.expected)
  BY DEF IntentsReached
<1>2. Len(effects[g]) \in Nat /\ Len(effects'[g]) \in Nat /\ i.expected \in Nat
  BY IssuedTyped, LogIsTyped, LenProperties, BoundsAssumption DEF LogTyped, IInv, Intents
<1> QED
  BY <1>1, <1>2 DEF Forward, Admitted

\* The parts of a step of one tab that forms no intent.
LEMMA TabSuperseded ==
    ASSUME IInv, LogTyped', SInv, Forward, NEW i \in Issued \cup {None}, SettlesOnly(i),
           NEW t \in Tabs, NEW w \in Tab, tab' = [tab EXCEPT ![t] = w], RefusalTrue(w)',
           Issued' \subseteq Issued, SupersededFates'
    PROVE  SInv'
<1>1. tab \in [Tabs -> Tab]
  BY DEF IInv, TypeOK
<1>2. ASSUME NEW u \in Tabs PROVE (RefusalTrue(tab[u]))'
  <2>1. PICK v \in Tab : v = tab'[u]
    BY <1>1
  <2>2. CASE u = t
    <3>1. v = w
      BY <1>1, <2>1, <2>2
    <3> QED
      BY <2>1, <3>1
  <2>3. CASE u # t
    <3>1. v = tab[u]
      BY <1>1, <2>1, <2>3
    <3>2. RefusalTrue(v)'
      BY <3>1, RefusalStays
    <3> QED
      BY <2>1, <3>2
  <2> QED
    BY <2>2, <2>3
<1>3. KeysBind'
  BY DEF KeysBind, SInv
<1>4. IntentsReached'
  BY ReachedStay DEF SInv
<1> QED
  BY <1>2, <1>3, <1>4 DEF SInv, RefusalsTrue

LEMMA OtherSuperseded ==
    ASSUME IInv, LogTyped', SInv, Forward, NEW i \in Issued \cup {None}, SettlesOnly(i),
           UNCHANGED <<tab, told>>, Issued' \subseteq Issued
    PROVE  SInv'
<1>1. ASSUME NEW u \in Tabs PROVE (RefusalTrue(tab[u]))'
  <2>1. PICK v \in Tab : v = tab[u]
    BY TabHere
  <2>2. RefusalTrue(v)'
    BY <2>1, RefusalStays
  <2> QED
    BY <2>1, <2>2
<1>2. SupersededFates'
  BY SupersededStay DEF SupersededFates
<1>3. KeysBind'
  BY DEF KeysBind, SInv
<1>4. IntentsReached'
  BY ReachedStay DEF SInv
<1> QED
  BY <1>1, <1>2, <1>3, <1>4 DEF SInv, RefusalsTrue

\* A tab that forms no intent, and the fate or the request it leaves behind.
LEMMA IssuedShrinks ==
    ASSUME IInv, NEW t \in Tabs, NEW w \in Tab, tab' = [tab EXCEPT ![t] = w],
           w.intent \in {tab[t].intent, None},
           floating' \subseteq floating \cup ({tab[t].call} \ {None}),
           \A d \in told' : d \in told \/ Fate(d) = tab[t].intent
    PROVE  Issued' \subseteq Issued
<1>1. tab[t] \in Tab /\ (tab[t].call # None => tab[t].call.intent = tab[t].intent)
  BY TabHere DEF Shape
<1>2. \A u \in Tabs : tab'[u].intent = None \/ tab'[u].intent \in Issued
  <2>1. \A u \in Tabs : u # t => tab'[u] = tab[u]
    BY DEF IInv, TypeOK
  <2>2. tab'[t] = w
    BY DEF IInv, TypeOK
  <2> QED
    BY <2>1, <2>2 DEF Issued
<1>3. \A r \in floating' : r.intent = None \/ r.intent \in Issued
  BY <1>1 DEF Issued
<1>4. \A d \in told' : Fate(d) = None \/ Fate(d) \in Issued
  BY DEF Issued
<1>5. Issued' = ({tab'[u].intent : u \in Tabs} \cup {r.intent : r \in floating'}
                 \cup {Fate(d) : d \in told'}) \ {None}
  BY DEF Issued, Fate
<1> QED
  BY <1>2, <1>3, <1>4, <1>5

-----------------------------------------------------------------------------
\* The player and the browser form no intent but by a choice.
LEMMA MovesSuperseded ==
    ASSUME IInv, SInv, NEW t \in Tabs, NEW w \in Tab, Moves(t, w),
           w.intent \in {tab[t].intent, None}, w.call # None => w.call.answer = None,
           floating' \subseteq floating \cup ({tab[t].call} \ {None})
    PROVE  SInv'
<1>1. UNCHANGED <<server, told>> /\ tab' = [tab EXCEPT ![t] = w]
  BY DEF Moves
<1>2. LogTyped' /\ Forward /\ SettlesOnly(None)
  BY <1>1, QuietServer
<1>3. Issued' \subseteq Issued
  BY <1>1, IssuedShrinks
<1>4. RefusalTrue(w)'
  BY DEF RefusalTrue
<1>5. SupersededFates'
  BY <1>1, <1>2, SupersededStay DEF SupersededFates
<1> QED
  BY <1>1, <1>2, <1>3, <1>4, <1>5, TabSuperseded

LEMMA AsideSuperseded ==
    ASSUME IInv, SInv, NEW t \in Tabs, Aside(t)
    PROVE  SInv'
<1> PICK v \in Tab : v = tab[t]
  BY TabHere
<1> PICK w \in Tab : Moves(t, w) /\ w.intent = v.intent /\ w.call = v.call
  BY AsideMoves
<1>1. UNCHANGED <<server, told, floating>> /\ tab' = [tab EXCEPT ![t] = w]
  BY DEF Moves, Aside, EnvelopeFails, OpenDialog, CloseDialog
<1>2. LogTyped' /\ Forward /\ SettlesOnly(None)
  BY <1>1, QuietServer
<1>3. Issued' \subseteq Issued
  BY <1>1, IssuedShrinks
<1>4. RefusalTrue(w)'
  <2>1. RefusalTrue(v)'
    BY <1>2, RefusalStays
  <2> QED
    BY <2>1 DEF RefusalTrue
<1>5. SupersededFates'
  BY <1>1, <1>2, SupersededStay DEF SupersededFates
<1> QED
  BY <1>1, <1>2, <1>3, <1>4, <1>5, TabSuperseded

\* A choice draws a fresh key, for a revision that was saved.
LEMMA ChooseSuperseded ==
    ASSUME OneGuest, IInv, SInv, NEW t \in Tabs, NEW key \in Keys, Choose(t, key)
    PROVE  SInv'
<1>1. PICK v \in Tab : v = tab[t]
  BY TabHere
<1>2. PICK intent : intent = [key |-> key, expected |-> v.view.revision]
  OBVIOUS
<1>3. PICK w : w = Executing(v, key)
  OBVIOUS
<1>5. /\ key \notin Used /\ MayExecute(v) /\ v.view # None /\ v.intent = None
      /\ tab' = [tab EXCEPT ![t] = w] /\ UNCHANGED <<server, told>>
      /\ floating' \subseteq floating \cup ({v.call} \ {None})
  BY <1>1, <1>3 DEF Choose, Moves, MayExecute, Floats, Overtaken
<1>7. w \in Tab /\ w.intent = intent /\ intent \in Intents /\ intent # None /\ w.call.answer = None
  BY <1>1, <1>2, <1>3, <1>5, TabHere, ExecutingTab DEF IInv, TypeOK
<1>8. tab \in [Tabs -> Tab]
  BY DEF IInv, TypeOK
<1>9. tab'[t] = w /\ \A u \in Tabs : u # t => tab'[u] = tab[u]
  BY <1>5, <1>8
<1>10. LogTyped' /\ Forward /\ SettlesOnly(None)
  BY <1>5, QuietServer
<1>11. Issued' \subseteq Issued \cup {intent}
  <2>1. \A u \in Tabs : tab'[u].intent \in Issued \cup {intent, None}
    BY <1>7, <1>9 DEF Issued
  <2>2. \A f \in floating' : f.intent \in Issued \cup {None}
    BY <1>1, <1>5, TabHere DEF Issued, Shape
  <2>3. \A d \in told' : Fate(d) \in Issued \cup {None}
    BY <1>5 DEF Issued
  <2>4. Issued' = ({tab'[u].intent : u \in Tabs} \cup {f.intent : f \in floating'}
                   \cup {Fate(d) : d \in told'}) \ {None}
    BY DEF Issued, Fate
  <2> QED
    BY <2>1, <2>2, <2>3, <2>4
<1>12. \A j \in Issued : j.key # key
  <2> SUFFICES ASSUME NEW j \in Issued PROVE j.key \in Used
    BY <1>5
  <2>1. CASE \E u \in Tabs : j = tab[u].intent /\ j # None
    BY <2>1 DEF Used
  <2>2. CASE \E f \in floating : j = f.intent /\ j # None
    BY <2>2 DEF Used
  <2>3. CASE \E d \in told : j = Fate(d)
    <3>1. PICK d \in told : j = Fate(d)
      BY <2>3
    <3>2. j.key = d.key
      BY <3>1 DEF Fate
    <3> QED
      BY <3>2 DEF Used
  <2> QED
    BY <2>1, <2>2, <2>3 DEF Issued
<1>13. KeysBind'
  <2>1. intent.key = key
    BY <1>2
  <2> QED
    BY <1>11, <1>12, <2>1 DEF KeysBind, SInv
<1>14. IntentsReached'
  <2> SUFFICES ASSUME NEW i \in Issued', NEW g \in Guests
               PROVE  Admitted(g)' /\ (standing'[g] = "live" => Len(effects'[g]) >= i.expected)
    BY DEF IntentsReached
  <2>1. UNCHANGED <<standing, effects>>
    BY <1>5 DEF server, logVars
  <2>2. CASE i \in Issued
    BY <2>1, <2>2 DEF SInv, IntentsReached, Admitted
  <2>3. CASE i = intent
    <3>1. Known(v.view)
      BY <1>1, <1>5, TabHere DEF TabTrue
    <3>2. v.view.guest = g /\ i.expected = v.view.revision
      BY <1>2, <2>3, <3>1 DEF OneGuest, Known, Admitted
    <3>3. Len(effects[g]) \in Nat /\ v.view.revision \in Nat
      BY <1>1, <1>5, LogIsTyped, LenProperties, BoundsAssumption DEF IInv, LogTyped, Tab, Views
    <3> QED
      BY <2>1, <3>1, <3>2, <3>3 DEF Known, Admitted
  <2> QED
    BY <1>11, <2>2, <2>3
<1>15. ASSUME NEW u \in Tabs PROVE (RefusalTrue(tab[u]))'
  <2>1. CASE u = t
    BY <1>7, <1>9, <2>1 DEF RefusalTrue
  <2>2. CASE u # t
    <3>1. PICK x \in Tab : x = tab[u]
      BY TabHere
    <3>2. RefusalTrue(x)'
      BY <1>10, <3>1, RefusalStays
    <3> QED
      BY <1>9, <2>2, <3>1, <3>2
  <2> QED
    BY <2>1, <2>2
<1>16. SupersededFates'
  BY <1>5, <1>10, SupersededStay DEF SupersededFates
<1> QED
  BY <1>13, <1>14, <1>15, <1>16 DEF SInv, RefusalsTrue

LEMMA QueryingSuperseded ==
    ASSUME IInv, SInv, NEW t \in Tabs, Moves(t, Querying(tab[t], FALSE, cookie)),
           floating' \subseteq floating \cup ({tab[t].call} \ {None})
    PROVE  SInv'
<1>1. PICK b \in BOOLEAN : b = FALSE
  BY FalseIsBoolean
<1>2. PICK w : w = Querying(tab[t], b, cookie)
  OBVIOUS
<1>3. cookie \in Cookies \cup {None}
  BY DEF IInv, TypeOK
<1>4. /\ w \in Tab /\ w.intent = tab[t].intent
      /\ w.call = Request("query", cookie, None, b, None)
  BY <1>2, <1>3, TabHere, QueryingIs
<1>5. w.call.answer = None
  BY <1>4 DEF Request
<1>6. Moves(t, w)
  BY <1>1, <1>2
<1> QED
  BY <1>4, <1>5, <1>6, MovesSuperseded

LEMMA ReconcileSuperseded ==
    ASSUME IInv, SInv, NEW t \in Tabs, Reconcile(t)
    PROVE  SInv'
<1>1. PICK b \in BOOLEAN : b = FALSE
  BY FalseIsBoolean
<1>2. PICK w : w = Reconciling(tab[t], b, cookie)
  OBVIOUS
<1>3. cookie \in Cookies \cup {None}
  BY DEF IInv, TypeOK
<1>4. /\ w \in Tab /\ w.intent = tab[t].intent
      /\ w.call = Request("requery", cookie, tab[t].intent, b, None)
  BY <1>2, <1>3, TabHere, ReconcilingIs
<1>5. w.call.answer = None
  BY <1>4 DEF Request
<1>6. Moves(t, w) /\ UNCHANGED floating
  BY <1>1, <1>2 DEF Reconcile
<1> QED
  BY <1>4, <1>5, <1>6, MovesSuperseded

LEMMA RecoverSuperseded ==
    ASSUME IInv, SInv, NEW t \in Tabs, Recover(t)
    PROVE  SInv'
<1>1. PICK b \in BOOLEAN : b = FALSE
  BY FalseIsBoolean
<1>2. PICK v \in Tab : v = tab[t]
  BY TabHere
<1>3. PICK r : r = Request("reset", cookie, None, b, None)
  OBVIOUS
<1>4. PICK w : w = [v EXCEPT !.phase = "loading", !.call = r]
  OBVIOUS
<1>5. Moves(t, w) /\ UNCHANGED floating
  BY <1>1, <1>2, <1>3, <1>4 DEF Recover
<1>6. cookie \in Cookies \cup {None}
  BY DEF IInv, TypeOK
<1>7. r \in Call /\ r.answer = None
  BY <1>3, <1>6, RequestTyped DEF Steps
<1>8. w \in Tab /\ w.intent = v.intent /\ w.call = r
  BY <1>4, <1>7 DEF Tab, Phases
<1> QED
  BY <1>2, <1>5, <1>7, <1>8, MovesSuperseded

LEMMA ReloadSuperseded ==
    ASSUME IInv, SInv, NEW t \in Tabs, Reload(t)
    PROVE  SInv'
<1>1. PICK w : w = [Opened EXCEPT !.call.cookie = cookie]
  OBVIOUS
<1>2. Moves(t, w) /\ floating' \subseteq floating \cup ({tab[t].call} \ {None})
  BY <1>1 DEF Reload, Floats, Severed
<1>3. cookie \in Cookies \cup {None}
  BY DEF IInv, TypeOK
<1>4. w \in Tab /\ w.intent = None /\ w.call.answer = None
  BY <1>1, <1>3, OpenedTab
<1> QED
  BY <1>2, <1>4, MovesSuperseded

\* A request that is served settles its own key only, and a refusal is true.
LEMMA ServeCallSuperseded ==
    ASSUME IInv, SInv, NEW t \in Tabs, ServeCall(t)
    PROVE  SInv'
<1>1. PICK a \in Answers : Serve(tab[t].call, a) /\ tab' = [tab EXCEPT ![t].call.answer = a]
  BY DEF ServeCall
<1>2. PICK v \in Tab : v = tab[t]
  BY TabHere
<1>3. PICK w : w = [v EXCEPT !.call.answer = a]
  OBVIOUS
<1>4. /\ v.call # None /\ v.call \in Call /\ v.call.intent = v.intent
      /\ v.call.step \in Commands => v.call.intent # None
      /\ TabTrue(v)
  BY <1>2, TabHere DEF ServeCall, Tab, Shape, Commands
<1>5. /\ LogTyped' /\ ReceiptsStand' /\ Forward /\ SettlesOnly(v.call.intent)
      /\ Answered(v.call, a)
  BY <1>1, <1>2, <1>4, ServedTrue DEF IInv
<1>6. v.call.intent \in Issued \cup {None}
  BY <1>2, <1>4 DEF Issued
<1>7. /\ w \in Tab /\ w.intent = v.intent /\ w.call # None /\ w.call.answer = a
      /\ w.call.step = v.call.step /\ w.call.intent = v.call.intent
      /\ w.call.cookie = v.call.cookie
  BY <1>3, <1>4, AnsweredTab
<1>8. tab \in [Tabs -> Tab]
  BY DEF IInv, TypeOK
<1>9. tab' = [tab EXCEPT ![t] = w] /\ UNCHANGED <<floating, told>>
  BY <1>1, <1>2, <1>3, <1>8 DEF ServeCall
<1>10. Issued' \subseteq Issued
  BY <1>2, <1>7, <1>9, IssuedShrinks
<1>11. RefusalTrue(w)'
  <2> SUFFICES ASSUME v.call.step = "retry", a.kind = "rejected"
               PROVE  v.call.cookie # None /\ Lost(v.call.cookie.guest, v.call.intent)'
    BY <1>7 DEF RefusalTrue
  <2> DEFINE g == v.call.cookie.guest
             i == v.call.intent
  <2>1. /\ v.call.cookie # None /\ UNCHANGED <<standing, effects, receipts>>
        /\ Admitted(g) /\ receipts[g][i.key] = None
        /\ Len(effects[g]) # i.expected \/ i.expected = MaxRevision
    BY <1>5 DEF Answered, Commands
  <2>2. g \in Guests /\ i \in Issued
    BY <1>4, <1>6, <2>1 DEF Admitted, Commands
  <2>3. Len(effects[g]) \in Nat /\ i.expected \in Nat
    BY <2>2, IssuedTyped, LogIsTyped, LenProperties, BoundsAssumption DEF IInv, LogTyped, Intents
  <2>4. standing[g] = "live" => Len(effects[g]) >= i.expected
    BY <2>2 DEF SInv, IntentsReached
  <2>5. standing[g] = "live" => Past(g, i.expected)
    BY <2>1, <2>3, <2>4 DEF Past
  <2> QED
    BY <2>1, <2>5 DEF Lost, Admitted, Past
<1>12. PICK i \in Issued \cup {None} : i = v.call.intent
  BY <1>6
<1>13. SettlesOnly(i)
  BY <1>5, <1>12
<1>14. SupersededFates'
  BY <1>5, <1>9, <1>13, SupersededStay DEF SupersededFates
<1> QED
  BY <1>5, <1>7, <1>9, <1>10, <1>11, <1>13, <1>14, TabSuperseded

LEMMA ServeFloatingSuperseded ==
    ASSUME IInv, SInv, NEW r \in floating, ServeFloating(r)
    PROVE  SInv'
<1>1. PICK a \in Answers :
          /\ Serve(r, a)
          /\ floating' \subseteq (floating \ {r}) \cup {[r EXCEPT !.answer = a]}
  BY DEF ServeFloating
<1>2. r \in Call /\ (r.step \in Commands => r.intent # None)
  BY DEF IInv, TypeOK, FloatingShape
<1>3. PICK c \in Call : c = r
  BY <1>2
<1>4. LogTyped' /\ Forward /\ SettlesOnly(c.intent)
  BY <1>1, <1>2, <1>3, ServedTrue DEF IInv
<1>5. PICK i \in Issued \cup {None} : i = c.intent
  BY <1>3 DEF Issued
<1>6. SettlesOnly(i)
  BY <1>4, <1>5
<1>7. UNCHANGED <<tab, told>>
  BY DEF ServeFloating
<1>8. \A f \in floating' : f.intent \in Issued \cup {None}
  <2>1. [r EXCEPT !.answer = a].intent = r.intent
    BY <1>2 DEF Call
  <2> QED
    BY <1>1, <2>1 DEF Issued
<1>9. Issued' \subseteq Issued
  <2>1. Issued' = ({tab[u].intent : u \in Tabs} \cup {f.intent : f \in floating'}
                   \cup {Fate(d) : d \in told}) \ {None}
    BY <1>7 DEF Issued, Fate
  <2> QED
    BY <1>8, <2>1 DEF Issued
<1> QED
  BY <1>4, <1>6, <1>7, <1>9, OtherSuperseded

LEMMA QuietSuperseded ==
    ASSUME IInv, SInv, LogTyped', Forward, SettlesOnly(None),
           UNCHANGED <<tab, told>>, floating' \subseteq floating
    PROVE  SInv'
<1>1. Issued' \subseteq Issued
  <2>1. Issued' = ({tab[u].intent : u \in Tabs} \cup {f.intent : f \in floating'}
                   \cup {Fate(d) : d \in told}) \ {None}
    BY DEF Issued, Fate
  <2> QED
    BY <2>1 DEF Issued
<1> QED
  BY <1>1, OtherSuperseded

\* What the player is told superseded was refused to a retry.
LEMMA ReceiveSuperseded ==
    ASSUME IInv, SInv, NEW t \in Tabs, Receive(t)
    PROVE  SInv'
<1>1. PICK v \in Tab : v = tab[t]
  BY TabHere
<1>2. PICK a \in Answers : a = v.call.answer
  BY <1>1 DEF Receive, Tab, Call
<1>3. /\ v.call # None /\ v.call \in Call /\ cookie' = Jar(a)
      /\ tab' = [tab EXCEPT ![t] = After(v, a, Jar(a))]
      /\ Learns(v, a) /\ UNCHANGED <<server, floating, failures>>
  BY <1>1, <1>2 DEF Receive, Tab
<1>4. PICK jar \in Cookies \cup {None} : jar = Jar(a)
  BY JarTyped
<1>5. PICK w : w = After(v, a, jar)
  OBVIOUS
<1>6. Shape(v) /\ RefusalTrue(v)
  BY <1>1, TabHere DEF SInv, RefusalsTrue
<1>7. Outcome(v, a, w)
  BY <1>3, <1>5, <1>6, AfterOutcome
<1>8. LogTyped' /\ Forward /\ SettlesOnly(None)
  BY <1>3, QuietServer
<1>9. PICK d : d = [key |-> v.intent.key, expected |-> v.intent.expected,
                    guest |-> v.call.cookie.guest, saved |-> a.kind = "view"]
  OBVIOUS
<1>10. told' = IF v.intent # None /\ a.kind \in {"view", "rejected"} /\ w.intent = None
               THEN told \cup {d} ELSE told
  BY <1>3, <1>4, <1>5, <1>9 DEF Learns
<1>11. v.intent # None => Fate(d) = v.intent
  BY <1>9 DEF Tab, Intents, Fate
<1>12. tab' = [tab EXCEPT ![t] = w]
  BY <1>3, <1>4, <1>5
<1>13. Issued' \subseteq Issued
  <2>1. w \in Tab /\ w.intent \in {tab[t].intent, None}
    BY <1>1, <1>7 DEF Outcome
  <2>2. \A e \in told' : e \in told \/ Fate(e) = tab[t].intent
    BY <1>1, <1>10, <1>11
  <2> QED
    BY <1>3, <1>12, <2>1, <2>2, IssuedShrinks
<1>14. RefusalTrue(w)'
  BY <1>7 DEF Outcome, RefusalTrue
<1>15. ASSUME v.intent # None, a.kind = "rejected", w.intent = None
       PROVE  Lost(d.guest, Fate(d))'
  <2>1. v.call.step = "retry" /\ v.call.intent = v.intent /\ a # None
    BY <1>3, <1>6, <1>7, <1>15, AnswerFields DEF Outcome, Shape
  <2>2. Lost(v.call.cookie.guest, v.call.intent)
    BY <1>2, <1>3, <1>6, <1>15, <2>1 DEF RefusalTrue
  <2>3. v.call.intent \in Issued
    BY <1>1, <1>15, <2>1 DEF Issued
  <2>4. Lost(v.call.cookie.guest, v.call.intent)'
    BY <1>8, <2>2, <2>3, LostStays DEF SInv
  <2>5. d.guest = v.call.cookie.guest /\ Fate(d) = v.call.intent
    BY <1>9, <1>11, <1>15, <2>1
  <2> QED
    BY <2>4, <2>5
<1>16. SupersededFates'
  <2>1. \A e \in told : ~e.saved => Lost(e.guest, Fate(e))'
    BY <1>8, SupersededStay
  <2>2. d.saved <=> a.kind = "view"
    BY <1>9
  <2>3. \A e \in told' : ~e.saved => Lost(e.guest, Fate(e))'
    BY <1>10, <1>15, <2>1, <2>2
  <2> QED
    BY <2>3 DEF SupersededFates
<1> QED
  BY <1>7, <1>8, <1>12, <1>13, <1>14, <1>16, TabSuperseded DEF Outcome

LEMMA LoseSuperseded ==
    ASSUME IInv, SInv, NEW t \in Tabs, Lose(t)
    PROVE  SInv'
<1>1. PICK v \in Tab : v = tab[t]
  BY TabHere
<1>2. PICK a \in Answers : a = [kind |-> "lost"]
  BY DEF Answers
<1>3. PICK jar \in Cookies \cup {None} : jar = cookie
  BY DEF IInv, TypeOK
<1>4. PICK w : w = After(v, a, jar)
  OBVIOUS
<1>5. /\ v.call # None /\ UNCHANGED <<server, told>>
      /\ tab' = [tab EXCEPT ![t] = w]
      /\ floating' \subseteq floating \cup ({tab[t].call} \ {None})
  BY <1>1, <1>2, <1>3, <1>4 DEF Lose, Floats, Severed
<1>6. Outcome(v, a, w)
  BY <1>1, <1>4, <1>5, TabHere, AfterOutcome
<1>7. LogTyped' /\ Forward /\ SettlesOnly(None)
  BY <1>5, QuietServer
<1>8. Issued' \subseteq Issued
  BY <1>1, <1>5, <1>6, IssuedShrinks DEF Outcome
<1>9. RefusalTrue(w)'
  BY <1>6 DEF Outcome, RefusalTrue
<1>10. SupersededFates'
  BY <1>5, <1>7, SupersededStay DEF SupersededFates
<1> QED
  BY <1>5, <1>6, <1>7, <1>8, <1>9, <1>10, TabSuperseded DEF Outcome

LEMMA TimeSuperseded ==
    ASSUME IInv, SInv, NEW g \in Guests, FallDue(g) \/ GraceEnds(g) \/ Expire(g)
    PROVE  SInv'
<1>1. UNCHANGED <<tab, floating, told>>
  BY DEF FallDue, GraceEnds, Expire
<1>2. LogTyped /\ ReceiptsStand
  BY LogIsTyped DEF IInv
<1>3. LogTyped' /\ Forward /\ SettlesOnly(None)
  <2>1. CASE UNCHANGED <<standing, effects, receipts>>
    BY <1>2, <2>1, QuietLog
  <2>2. CASE Log!Remove(g)
    BY <1>2, <2>2, RemoveForward
  <2> QED
    BY <2>1, <2>2 DEF FallDue, GraceEnds, Expire, logVars
<1> QED
  BY <1>1, <1>3, QuietSuperseded

-----------------------------------------------------------------------------
LEMMA InitSuperseded == Init => SInv
<1> SUFFICES ASSUME Init PROVE SInv
  OBVIOUS
<1>1. tab = [t \in Tabs |-> Opened] /\ floating = {} /\ told = {}
  BY DEF Init
<1>2. /\ Opened.intent = None
      /\ Opened.call = Request("query", None, None, FALSE, None)
  BY DEF Opened
<1>3. Opened.call.answer = None
  BY <1>2 DEF Request
<1>4. Issued = {}
  BY <1>1, <1>2 DEF Issued
<1>5. RefusalsTrue
  BY <1>1, <1>3 DEF RefusalsTrue, RefusalTrue
<1> QED
  BY <1>1, <1>4, <1>5 DEF SInv, KeysBind, IntentsReached, SupersededFates

LEMMA StepSuperseded ==
    ASSUME OneGuest, Faults = FALSE
    PROVE  IInv /\ SInv /\ [Next]_vars => SInv'
<1> SUFFICES ASSUME IInv, SInv, [Next]_vars PROVE SInv'
  OBVIOUS
<1>1. CASE UNCHANGED vars
  <2>1. UNCHANGED server /\ UNCHANGED <<tab, floating, told>>
    BY <1>1 DEF vars
  <2>2. LogTyped' /\ Forward /\ SettlesOnly(None)
    BY <2>1, QuietServer
  <2> QED
    BY <2>1, <2>2, QuietSuperseded
<1>2. ASSUME NEW t \in Tabs, NEW key \in Keys, Choose(t, key) PROVE SInv'
  BY <1>2, ChooseSuperseded
<1>3. ASSUME NEW t \in Tabs, Requery(t) \/ Visible(t) PROVE SInv'
  <2>1. /\ Moves(t, Querying(tab[t], FALSE, cookie))
        /\ floating' \subseteq floating \cup ({tab[t].call} \ {None})
    BY <1>3 DEF Requery, Visible, Floats, Overtaken
  <2> QED
    BY <2>1, QueryingSuperseded
<1>4. ASSUME NEW t \in Tabs,
             \/ Aside(t) \/ Reconcile(t) \/ Recover(t) \/ Reload(t)
             \/ ServeCall(t) \/ Receive(t) \/ Lose(t)
      PROVE  SInv'
  BY <1>4, AsideSuperseded, ReconcileSuperseded, RecoverSuperseded, ReloadSuperseded,
     ServeCallSuperseded, ReceiveSuperseded, LoseSuperseded
<1>5. ASSUME NEW t \in Tabs PROVE ~Fault(t)
  BY DEF Fault
<1>6. ASSUME NEW r \in floating, ServeFloating(r) PROVE SInv'
  BY <1>6, ServeFloatingSuperseded
<1>7. ASSUME NEW r \in floating, ReceiveFloating(r) PROVE SInv'
  <2>1. UNCHANGED server /\ UNCHANGED <<tab, told>> /\ floating' \subseteq floating
    BY <1>7 DEF ReceiveFloating
  <2>2. LogTyped' /\ Forward /\ SettlesOnly(None)
    BY <2>1, QuietServer
  <2> QED
    BY <2>1, <2>2, QuietSuperseded
<1>8. ASSUME NEW g \in Guests, FallDue(g) \/ GraceEnds(g) \/ Expire(g) PROVE SInv'
  BY <1>8, TimeSuperseded
<1> QED
  BY <1>1, <1>2, <1>3, <1>4, <1>5, <1>6, <1>7, <1>8 DEF Next, Aside

\* In a browser of one guest, before a server that does not fail inside a
\* request, the player is told the truth of every intent, and it stays true
\* whatever is still on its way (reconcile in counter-shell.tsx).
THEOREM FatesAreAlwaysTold ==
    ASSUME OneGuest, Faults = FALSE
    PROVE  Spec => []FatesTold
<1>1. Init => IInv /\ SInv
  BY InitEstablishes, InitSuperseded
<1>2. (IInv /\ SInv) /\ [Next]_vars => (IInv /\ SInv)'
  BY StepKeeps, StepSuperseded
<1>3. IInv /\ SInv => FatesTold
  <2> SUFFICES ASSUME IInv, SInv, NEW d \in told, standing[d.guest] = "live"
               PROVE  IF d.saved THEN receipts[d.guest][d.key] # None
                      ELSE receipts[d.guest][d.key] = None /\ Past(d.guest, d.expected)
    BY DEF FatesTold
  <2>1. CASE d.saved
    BY <2>1 DEF IInv, SavedFates, Saved
  <2>2. CASE ~d.saved
    BY <2>2 DEF SInv, SupersededFates, Lost, Fate
  <2> QED
    BY <2>1, <2>2
<1> QED
  BY <1>1, <1>2, <1>3, PTL DEF Spec
=============================================================================
