------------------------------- MODULE UiLoads -------------------------------
(***************************************************************************)
(* The asynchronous loads of the web page (web/public/app.js, and          *)
(* analysis.js, eval.js under modules/): what the user clicks starts       *)
(* requests, their answers come in any order, and each one decides by what *)
(* the page is at then whether it still may write to it.                   *)
(*                                                                         *)
(* Left out: searching and sorting, "Load more", the reports without a     *)
(* generation of their own, whether the analysis is folded or hidden, and  *)
(* the histories an evaluation page shows.                                 *)
(***************************************************************************)
EXTENDS Naturals, FiniteSets

CONSTANTS
    Flavors, Ids,
    Of,             \* flavor |-> the ids of its sessions
    Nobody,         \* no session
    MaxClicks       \* bound: what the user clicks

ASSUME UiAssumption ==
    /\ Of \in [Flavors -> SUBSET Ids] /\ Nobody \notin Ids /\ MaxClicks \in Nat

VARIABLES
    flavor,         \* flavor-select
    listed,         \* the flavor whose sessions the sidebar shows, {} before the first
    hash,           \* the selection: the URL's hash, then current-session-id's data-id too
    pane,           \* transcript-container
    ai,             \* ai-summary-text
    cache,          \* state.summaryCache
    currentPoll,    \* state.currentPollSessionId
    label, disabled,\* the Recompute button
    transcriptGeneration, renderGeneration,
    lists, transcripts, analyses, loops, evals,   \* requests without an answer, polls
    clicks, started                               \* history, and a name for a request

pageVars == <<flavor, listed, hash>>
analysisVars == <<ai, cache, currentPoll, label, disabled, analyses, loops, started>>
evalVars == <<renderGeneration, evals>>
vars == <<pageVars, pane, analysisVars, transcriptGeneration, evalVars, lists, transcripts, clicks>>

Nothing == [what |-> "nothing", of |-> Nobody]
Show(what, id) == [what |-> what, of |-> id]

\* The page may be opened by a link to a session: its hash is there first.
Init ==
    /\ flavor \in Flavors /\ listed = {} /\ hash \in Ids \cup {Nobody}
    /\ pane = Nothing /\ ai = Nothing /\ cache = [s \in Ids |-> Nothing]
    /\ currentPoll = Nobody /\ label = "Recompute" /\ disabled = TRUE
    /\ transcriptGeneration = 0 /\ renderGeneration = 0
    /\ lists = {[n |-> 0, of |-> flavor]} /\ transcripts = {} /\ analyses = {} /\ loops = {} /\ evals = {}
    /\ clicks = 0 /\ started = 0

-----------------------------------------------------------------------------
(* triggerAnalysis *)

\* A session whose analysis is cached shows it and asks nothing.  Otherwise the
\* analysis is requested, and a loop polls its progress, once right away.
Trigger(s, force) ==
    IF ~force /\ cache[s] # Nothing
    THEN /\ ai' = cache[s]
         /\ UNCHANGED <<currentPoll, analyses, loops, started>>
    ELSE /\ ai' = Show("progress", s)
         /\ currentPoll' = s
         /\ started' = started + 1
         /\ analyses' = analyses \cup {[n |-> started', of |-> s, force |-> force]}
         /\ loops' = loops \cup {[n |-> started', of |-> s, polling |-> TRUE, asking |-> TRUE]}

Replace(set, old, new) == (set \ {old}) \cup {new}

\* The finally around the request: its loop stops, however it ended.
\* Mutant: a request that throws leaves its loop polling.
StoppedIfAnswered(n, outcome) ==
    IF outcome = "throws" THEN loops
    ELSE {IF l.n = n THEN [l EXCEPT !.polling = FALSE] ELSE l : l \in loops}
Stopped(n, outcome) == {IF l.n = n THEN [l EXCEPT !.polling = FALSE] ELSE l : l \in loops}

\* The outer finally.
Restore(a) ==
    IF a.force THEN label' = "Recompute" /\ disabled' = FALSE
    ELSE UNCHANGED <<label, disabled>>

\* The answer to POST .../summarize: an analysis, a body without one, or none.
\* What is shown is cached, a failure to parse it included.
AnalysisAnswers(a) == \E outcome \in {"analysis", "failed", "throws"} :
    /\ a \in analyses
    /\ analyses' = analyses \ {a}
    /\ loops' = Stopped(a.n, outcome)
    /\ IF outcome = "throws" THEN ai' = Show("error", a.of) /\ UNCHANGED cache
       ELSE IF currentPoll # a.of THEN UNCHANGED <<ai, cache>>
       ELSE /\ ai' = Show(outcome, a.of)
            /\ cache' = [cache EXCEPT ![a.of] = ai']
    /\ Restore(a)
    /\ UNCHANGED <<pageVars, pane, currentPoll, started, transcriptGeneration, evalVars,
                   lists, transcripts, clicks>>

\* An answer to GET .../progress is written into the progress elements there
\* are, if the selection is still the loop's.
MayReport(l) == currentPoll = l.of

ProgressAnswers(l) ==
    /\ l \in loops /\ l.asking
    /\ loops' = Replace(loops, l, [l EXCEPT !.asking = FALSE])
    /\ ai' = IF MayReport(l) /\ ai.what = "progress" THEN Show("progress", l.of) ELSE ai
    /\ UNCHANGED <<pageVars, pane, cache, currentPoll, label, disabled, analyses, started,
                   transcriptGeneration, evalVars, lists, transcripts, clicks>>

\* A second later: the loop asks again, or ends.
PollWakes(l) ==
    /\ l \in loops /\ ~l.asking
    /\ loops' = IF l.polling /\ currentPoll = l.of
                THEN Replace(loops, l, [l EXCEPT !.asking = TRUE]) ELSE loops \ {l}
    /\ UNCHANGED <<pageVars, pane, ai, cache, currentPoll, label, disabled, analyses, started,
                   transcriptGeneration, evalVars, lists, transcripts, clicks>>

-----------------------------------------------------------------------------
(* Sessions *)

SelectConversation(s) ==
    /\ hash' = s
    /\ transcriptGeneration' = transcriptGeneration + 1
    /\ pane' = Show("loading", s)
    /\ transcripts' = transcripts \cup {[gen |-> transcriptGeneration', of |-> s]}
    /\ disabled' = FALSE
    /\ Trigger(s, FALSE)
    /\ UNCHANGED <<flavor, cache, label, evalVars>>

Click == clicks < MaxClicks /\ clicks' = clicks + 1

ClickSession(s) ==
    /\ listed # {} /\ \E f \in listed : s \in Of[f]
    /\ Click /\ SelectConversation(s)
    /\ UNCHANGED <<listed, lists>>

ClickRecompute ==
    /\ ~disabled /\ hash # Nobody
    /\ Click /\ Trigger(hash, TRUE)
    /\ label' = "Recomputing..." /\ disabled' = TRUE
    /\ UNCHANGED <<pageVars, pane, cache, transcriptGeneration, evalVars, lists, transcripts>>

\* Only the newest selection's transcript, or failure, is shown.
\* Mutant: whichever arrives.
IsNewestAnyway(t) == TRUE
IsNewest(t) == t.gen = transcriptGeneration

TranscriptAnswers(t) == \E what \in {"transcript", "failed"} :
    /\ t \in transcripts
    /\ transcripts' = transcripts \ {t}
    /\ pane' = IF IsNewest(t) THEN Show(what, t.of) ELSE pane
    /\ UNCHANGED <<pageVars, analysisVars, transcriptGeneration, evalVars, lists, clicks>>

-----------------------------------------------------------------------------
(* The list of sessions *)

\* loadConversations starts with a request, named by the click it answers.
LoadConversations(f) == lists' = lists \cup {[n |-> clicks', of |-> f]}

ChangeFlavor(f) ==
    /\ f # flavor /\ Click
    /\ flavor' = f /\ LoadConversations(f)
    /\ pane' = Nothing /\ disabled' = TRUE
    /\ UNCHANGED <<listed, hash, ai, cache, currentPoll, label, analyses, loops, started,
                   transcriptGeneration, evalVars, transcripts>>

ClickRefresh ==
    /\ Click /\ LoadConversations(flavor)
    /\ UNCHANGED <<pageVars, pane, analysisVars, transcriptGeneration, evalVars, transcripts>>

\* A list that arrives opens the session in the URL's hash, or the newest one if
\* there is no hash, as a click would.  One without a session shows how to get
\* some in the place of whatever was there (showEmptyStoreOnboarding).
ListAnswers(l) ==
    /\ l \in lists
    /\ lists' = lists \ {l} /\ listed' = {l.of}
    /\ \/ \E s \in Of[l.of] : hash \in {Nobody, s} /\ SelectConversation(s)
       \/ /\ IF hash = Nobody THEN Of[l.of] = {} ELSE hash \notin Of[l.of]
          /\ pane' = IF Of[l.of] = {} THEN Show("onboarding", Nobody) ELSE pane
          /\ UNCHANGED <<flavor, hash, analysisVars, transcriptGeneration, evalVars, transcripts>>
    /\ UNCHANGED clicks

ListFails(l) ==
    /\ l \in lists
    /\ lists' = lists \ {l} /\ listed' = {}
    /\ UNCHANGED <<flavor, hash, pane, analysisVars, transcriptGeneration, evalVars, transcripts, clicks>>

-----------------------------------------------------------------------------
(* The evaluation page *)

\* The page is opened, or one of its runs saved or deleted.
OpenEval(loading) ==
    /\ loading \/ pane.what = "eval"
    /\ Click
    /\ renderGeneration' = renderGeneration + 1
    /\ evals' = evals \cup {[gen |-> renderGeneration', reload |-> loading]}
    /\ pane' = IF loading THEN Nothing ELSE pane
    /\ UNCHANGED <<pageVars, analysisVars, transcriptGeneration, lists, transcripts>>

\* Mutant: every answer is rendered.
IsLatestAnyway(e) == TRUE
IsLatest(e) == e.gen = renderGeneration

\* A save or a delete renders even if its requests fail.
EvalAnswers(e) == \E failed \in {FALSE, e.reload} :
    /\ e \in evals
    /\ evals' = evals \ {e}
    /\ pane' = IF ~IsLatest(e) THEN pane
               ELSE IF failed THEN Nothing ELSE Show("eval", e.gen)
    /\ UNCHANGED <<pageVars, analysisVars, transcriptGeneration, renderGeneration, lists, transcripts, clicks>>

-----------------------------------------------------------------------------
User == \/ \E s \in Ids : ClickSession(s)
        \/ ClickRecompute
        \/ \E f \in Flavors : ChangeFlavor(f)
        \/ ClickRefresh
        \/ \E loading \in BOOLEAN : OpenEval(loading)

Answer == \/ \E l \in lists : ListAnswers(l) \/ ListFails(l)
          \/ \E t \in transcripts : TranscriptAnswers(t)
          \/ \E a \in analyses : AnalysisAnswers(a)
          \/ \E e \in evals : EvalAnswers(e)

Poll == \E l \in loops : ProgressAnswers(l) \/ PollWakes(l)

Next == User \/ Answer \/ Poll

\* Every request is answered or fails, and timers fire; nobody has to click.
RequestsEnd == WF_vars(Answer) /\ WF_vars(Poll)

Spec == Init /\ [][Next]_vars
FairSpec == Spec /\ RequestsEnd

-----------------------------------------------------------------------------

\* app.js, transcriptGeneration: "clicking session A then B quickly must never
\* let A's slower response render into B's view"; and a poll's answer does not
\* move the progress of another session.
ViewsFollowTheSelection ==
    /\ pane.what = "transcript" => pane.of = hash
    /\ ai.what = "progress" => ai.of = hash

\* eval.js, renderGeneration: "a slow earlier op can't clobber a newer render
\* with stale data".
EvalsNeverGoBack ==
    [][pane.what = "eval" /\ pane'.what = "eval" => pane'.of >= pane.of]_vars

\* analysis.js: "Stop polling even when the request throws, or the loop would
\* hit /progress forever"; and the button comes back.
PollsEnd == <>[](loops = {} /\ label = "Recompute")

\* analysis.js: "A newer session selection may have superseded this request
\* while it was in flight (the user clicked another session). If so, don't
\* clobber the now-current analysis."
AnalysisIsOfTheSelection == ai.what = "analysis" => ai.of = hash
=============================================================================
