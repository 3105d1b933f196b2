---------------------------- MODULE UiLoadsProofs ----------------------------
(***************************************************************************)
(* The loads of the web page, for any agents, any sessions and any number  *)
(* of clicks: a late answer never shows one session under the selection of *)
(* another, and the evaluation page never goes back to an older state.     *)
(***************************************************************************)
EXTENDS UiLoads, TLAPS

\* The selection is counted: a transcript request of the newest count is for
\* the session that is selected.
Selection ==
    /\ hash \in Ids \cup {Nobody}
    /\ transcriptGeneration \in Nat
    /\ \A t \in transcripts :
          /\ t.gen \in Nat /\ t.gen <= transcriptGeneration
          /\ t.gen = transcriptGeneration => t.of = hash
    /\ pane.what = "transcript" => pane.of = hash

\* A progress is shown for the selection alone, which is then what is polled;
\* no cached analysis is one.
Polling ==
    /\ cache \in [Ids -> [what : {"nothing", "analysis", "failed"}, of : Ids \cup {Nobody}]]
    /\ \A a \in analyses : a.of \in Ids
    /\ ai.what = "progress" => ai.of = hash /\ currentPoll = hash

\* The renders of the evaluation page are counted too.
Rendering ==
    /\ renderGeneration \in Nat
    /\ \A e \in evals : e.gen \in Nat /\ e.gen <= renderGeneration
    /\ pane.what = "eval" => pane.of \in Nat /\ pane.of <= renderGeneration

\* The sessions that are listed, or will be, are those of an agent.
Listing == flavor \in Flavors /\ \A l \in lists : l.of \in Flavors

Loads == Selection /\ Polling /\ Rendering

UiIInv == Listing /\ Loads

\* The evaluations never go back, as a step.
EvalForward == pane.what = "eval" /\ pane'.what = "eval" => pane'.of >= pane.of

LEMMA InitIInv == Init => UiIInv
BY DEF Init, UiIInv, Listing, Loads, Selection, Polling, Rendering, Nothing

-------------------------------------------------------------------------------
(* A step that leaves a part alone. *)

LEMMA UnmovedKeepsSelection ==
    ASSUME Selection, UNCHANGED <<hash, transcriptGeneration>>, transcripts' \subseteq transcripts,
           pane' = pane \/ pane'.what # "transcript"
    PROVE  Selection'
BY DEF Selection

LEMMA UnmovedKeepsPolling ==
    ASSUME Polling, UNCHANGED <<cache, ai, currentPoll, hash>>, analyses' \subseteq analyses
    PROVE  Polling'
BY DEF Polling

LEMMA UnmovedKeepsRendering ==
    ASSUME Rendering, UNCHANGED renderGeneration, evals' \subseteq evals,
           pane' = pane \/ pane'.what # "eval"
    PROVE  Rendering' /\ EvalForward
BY DEF Rendering, EvalForward

-------------------------------------------------------------------------------
(* The selection of a session. *)

\* triggerAnalysis shows a progress only of the session it polls.
LEMMA TriggerKeepsPolling ==
    ASSUME Polling, NEW s \in Ids, NEW force \in BOOLEAN, Trigger(s, force),
           UNCHANGED cache, hash' = s
    PROVE  Polling'
<1>1. CASE ~force /\ cache[s] # Nothing
  <2>1. ai' = cache[s] /\ UNCHANGED <<currentPoll, analyses>>
    BY <1>1 DEF Trigger
  <2>2. ai'.what # "progress"
    BY <2>1 DEF Polling
  <2> QED BY <2>1, <2>2 DEF Polling
<1>2. CASE force \/ cache[s] = Nothing
  <2>1. /\ ai' = Show("progress", s) /\ currentPoll' = s
        /\ analyses' = analyses \cup {[n |-> started', of |-> s, force |-> force]}
    BY <1>2 DEF Trigger
  <2>2. \A a \in analyses' : a.of \in Ids
    BY <2>1 DEF Polling
  <2> QED BY <2>1, <2>2 DEF Polling, Show
<1> QED BY <1>1, <1>2

LEMMA SelectKeeps ==
    ASSUME Loads, NEW s \in Ids, SelectConversation(s)
    PROVE  Loads' /\ EvalForward
<1>1. /\ hash' = s /\ transcriptGeneration' = transcriptGeneration + 1
      /\ pane' = Show("loading", s)
      /\ transcripts' = transcripts \cup {[gen |-> transcriptGeneration', of |-> s]}
      /\ Trigger(s, FALSE) /\ UNCHANGED <<cache, renderGeneration, evals>>
  BY DEF SelectConversation, evalVars
<1>2. pane'.what = "loading"
  BY <1>1 DEF Show
<1>3. transcriptGeneration \in Nat
  BY DEF Loads, Selection
<1>4. ASSUME NEW t \in transcripts'
      PROVE  /\ t.gen \in Nat /\ t.gen <= transcriptGeneration'
             /\ t.gen = transcriptGeneration' => t.of = hash'
  <2>1. CASE t \in transcripts
    BY <1>1, <1>3, <2>1 DEF Loads, Selection
  <2>2. CASE t = [gen |-> transcriptGeneration', of |-> s]
    BY <1>1, <1>3, <2>2
  <2> QED BY <1>1, <2>1, <2>2
<1>5. Selection'
  BY <1>1, <1>2, <1>3, <1>4 DEF Selection
<1>6. Polling'
  BY <1>1, TriggerKeepsPolling DEF Loads
<1>7. Rendering' /\ EvalForward
  BY <1>1, <1>2, UnmovedKeepsRendering DEF Loads
<1> QED BY <1>5, <1>6, <1>7 DEF Loads

LEMMA ClickRecomputeKeeps ==
    ASSUME Loads, ClickRecompute
    PROVE  Loads' /\ EvalForward
<1>1. /\ hash \in Ids /\ Trigger(hash, TRUE)
      /\ UNCHANGED <<hash, pane, cache, transcriptGeneration, transcripts, renderGeneration, evals>>
  BY DEF ClickRecompute, pageVars, evalVars, Loads, Selection
<1>2. Selection' /\ Rendering' /\ EvalForward
  BY <1>1, UnmovedKeepsSelection, UnmovedKeepsRendering DEF Loads
<1>3. Polling'
  BY <1>1, TriggerKeepsPolling DEF Loads
<1> QED BY <1>2, <1>3 DEF Loads

-------------------------------------------------------------------------------
(* The answers. *)

LEMMA TranscriptAnswersKeeps ==
    ASSUME Loads, NEW t \in transcripts, TranscriptAnswers(t)
    PROVE  Loads' /\ EvalForward
<1>1. PICK what \in {"transcript", "failed"} :
        /\ transcripts' = transcripts \ {t}
        /\ pane' = IF IsNewest(t) THEN Show(what, t.of) ELSE pane
  BY DEF TranscriptAnswers
<1>2. UNCHANGED <<hash, cache, ai, currentPoll, analyses, transcriptGeneration,
                  renderGeneration, evals>>
  BY DEF TranscriptAnswers, pageVars, analysisVars, evalVars
<1>3. pane' = pane \/ (pane'.of = hash /\ pane'.what # "eval")
  BY <1>1 DEF IsNewest, Show, Loads, Selection
<1>4. Selection'
  BY <1>1, <1>2, <1>3 DEF Loads, Selection
<1>5. Polling'
  BY <1>2, UnmovedKeepsPolling DEF Loads
<1>6. Rendering' /\ EvalForward
  BY <1>2, <1>3, UnmovedKeepsRendering DEF Loads
<1> QED BY <1>4, <1>5, <1>6 DEF Loads

LEMMA AnalysisAnswersKeeps ==
    ASSUME Loads, NEW a \in analyses, AnalysisAnswers(a)
    PROVE  Loads' /\ EvalForward
<1>1. PICK outcome \in {"analysis", "failed", "throws"} :
        /\ analyses' = analyses \ {a}
        /\ IF outcome = "throws" THEN ai' = Show("error", a.of) /\ UNCHANGED cache
           ELSE IF currentPoll # a.of THEN UNCHANGED <<ai, cache>>
           ELSE /\ ai' = Show(outcome, a.of)
                /\ cache' = [cache EXCEPT ![a.of] = ai']
  BY DEF AnalysisAnswers
<1>2. UNCHANGED <<hash, pane, currentPoll, transcripts, transcriptGeneration,
                  renderGeneration, evals>>
  BY DEF AnalysisAnswers, pageVars, evalVars
<1>3. a.of \in Ids
  BY DEF Loads, Polling
<1>4. ai' = ai \/ ai'.what # "progress"
  BY <1>1 DEF Show
<1>5. cache' \in [Ids -> [what : {"nothing", "analysis", "failed"}, of : Ids \cup {Nobody}]]
  <2>1. CASE UNCHANGED cache
    BY <2>1 DEF Loads, Polling
  <2>2. CASE outcome # "throws" /\ cache' = [cache EXCEPT ![a.of] = Show(outcome, a.of)]
    <3>1. Show(outcome, a.of) \in [what : {"nothing", "analysis", "failed"}, of : Ids \cup {Nobody}]
      BY <1>3, <2>2 DEF Show
    <3> QED BY <2>2, <3>1 DEF Loads, Polling
  <2> QED BY <1>1, <2>1, <2>2
<1>6. Polling'
  BY <1>1, <1>2, <1>4, <1>5 DEF Loads, Polling
<1>7. Selection' /\ Rendering' /\ EvalForward
  BY <1>2, UnmovedKeepsSelection, UnmovedKeepsRendering DEF Loads
<1> QED BY <1>6, <1>7 DEF Loads

LEMMA ProgressAnswersKeeps ==
    ASSUME Loads, NEW l \in loops, ProgressAnswers(l)
    PROVE  Loads' /\ EvalForward
<1>1. /\ ai' = IF MayReport(l) /\ ai.what = "progress" THEN Show("progress", l.of) ELSE ai
      /\ UNCHANGED <<hash, pane, cache, currentPoll, analyses, transcripts,
                     transcriptGeneration, renderGeneration, evals>>
  BY DEF ProgressAnswers, pageVars, evalVars
<1>2. Polling'
  BY <1>1 DEF Loads, Polling, MayReport, Show
<1>3. Selection' /\ Rendering' /\ EvalForward
  BY <1>1, UnmovedKeepsSelection, UnmovedKeepsRendering DEF Loads
<1> QED BY <1>2, <1>3 DEF Loads

LEMMA EvalAnswersKeeps ==
    ASSUME Loads, NEW e \in evals, EvalAnswers(e)
    PROVE  Loads' /\ EvalForward
<1>1. /\ evals' = evals \ {e}
      /\ \/ pane' = pane
         \/ pane' = Nothing
         \/ IsLatest(e) /\ pane' = Show("eval", e.gen)
      /\ UNCHANGED <<hash, cache, ai, currentPoll, analyses, transcripts,
                     transcriptGeneration, renderGeneration>>
  BY DEF EvalAnswers, pageVars, analysisVars
<1>2. pane' = pane \/ pane'.what # "transcript"
  BY <1>1 DEF Nothing, Show
<1>3. Selection' /\ Polling'
  BY <1>1, <1>2, UnmovedKeepsSelection, UnmovedKeepsPolling DEF Loads
<1>4. Rendering' /\ EvalForward
  <2>1. CASE pane' = pane \/ pane' = Nothing
    BY <1>1, <2>1, UnmovedKeepsRendering DEF Loads, Nothing
  <2>2. CASE IsLatest(e) /\ pane' = Show("eval", e.gen)
    <3>1. pane'.what = "eval" /\ pane'.of = renderGeneration
      BY <2>2 DEF IsLatest, Show
    <3> QED BY <1>1, <3>1 DEF Loads, Rendering, EvalForward
  <2> QED BY <1>1, <2>1, <2>2
<1> QED BY <1>3, <1>4 DEF Loads

LEMMA ListAnswersKeeps ==
    ASSUME Listing, Loads, NEW l \in lists, ListAnswers(l)
    PROVE  Loads' /\ EvalForward
<1>1. CASE \E s \in Of[l.of] : SelectConversation(s)
  <2>1. Of[l.of] \subseteq Ids
    BY UiAssumption DEF Listing
  <2> QED BY <1>1, <2>1, SelectKeeps
<1>2. CASE /\ pane' = IF Of[l.of] = {} THEN Show("onboarding", Nobody) ELSE pane
           /\ UNCHANGED <<flavor, hash, analysisVars, transcriptGeneration, evalVars, transcripts>>
  <2>1. UNCHANGED <<hash, cache, ai, currentPoll, analyses, transcripts,
                    transcriptGeneration, renderGeneration, evals>>
    BY <1>2 DEF analysisVars, evalVars
  <2>2. pane' = pane \/ pane'.what = "onboarding"
    BY <1>2 DEF Show
  <2> QED BY <2>1, <2>2, UnmovedKeepsSelection, UnmovedKeepsPolling, UnmovedKeepsRendering DEF Loads
<1> QED BY <1>1, <1>2 DEF ListAnswers

-------------------------------------------------------------------------------
(* The other clicks. *)

LEMMA ChangeFlavorKeeps ==
    ASSUME Loads, NEW f \in Flavors, ChangeFlavor(f)
    PROVE  Loads' /\ EvalForward
<1>1. /\ pane' = Nothing
      /\ UNCHANGED <<hash, cache, ai, currentPoll, analyses, transcripts,
                     transcriptGeneration, renderGeneration, evals>>
  BY DEF ChangeFlavor, evalVars
<1>2. pane'.what = "nothing"
  BY <1>1 DEF Nothing
<1> QED BY <1>1, <1>2, UnmovedKeepsSelection, UnmovedKeepsPolling, UnmovedKeepsRendering DEF Loads

LEMMA ClickRefreshKeeps ==
    ASSUME Loads, ClickRefresh
    PROVE  Loads' /\ EvalForward
<1>1. UNCHANGED <<hash, pane, cache, ai, currentPoll, analyses, transcripts,
                  transcriptGeneration, renderGeneration, evals>>
  BY DEF ClickRefresh, pageVars, analysisVars, evalVars
<1> QED BY <1>1, UnmovedKeepsSelection, UnmovedKeepsPolling, UnmovedKeepsRendering DEF Loads

LEMMA OpenEvalKeeps ==
    ASSUME Loads, NEW loading \in BOOLEAN, OpenEval(loading)
    PROVE  Loads' /\ EvalForward
<1>1. /\ renderGeneration' = renderGeneration + 1
      /\ evals' = evals \cup {[gen |-> renderGeneration', reload |-> loading]}
      /\ pane' = pane \/ pane' = Nothing
      /\ UNCHANGED <<hash, cache, ai, currentPoll, analyses, transcripts, transcriptGeneration>>
  BY DEF OpenEval, pageVars, analysisVars
<1>2. pane' = pane \/ pane'.what = "nothing"
  BY <1>1 DEF Nothing
<1>3. Selection' /\ Polling'
  BY <1>1, <1>2, UnmovedKeepsSelection, UnmovedKeepsPolling DEF Loads
<1>4. renderGeneration \in Nat /\ renderGeneration' \in Nat
  BY <1>1 DEF Loads, Rendering
<1>5. \A e \in evals' : e.gen \in Nat /\ e.gen <= renderGeneration'
  BY <1>1, <1>4 DEF Loads, Rendering
<1>6. Rendering' /\ EvalForward
  BY <1>1, <1>2, <1>4, <1>5 DEF Loads, Rendering, EvalForward
<1> QED BY <1>3, <1>6 DEF Loads

-------------------------------------------------------------------------------
(* Every step. *)

\* A list is asked for by the agent that is chosen.
LEMMA NextKeepsListing == Listing /\ [Next]_vars => Listing'
<1> SUFFICES ASSUME Listing, [Next]_vars PROVE Listing'
  OBVIOUS
<1>1. ASSUME NEW f \in Flavors, flavor' = f, LoadConversations(f) PROVE Listing'
  BY <1>1 DEF Listing, LoadConversations
<1>2. ASSUME UNCHANGED flavor, lists' \subseteq lists PROVE Listing'
  BY <1>2 DEF Listing
<1>3. CASE User
  BY <1>1, <1>2, <1>3 DEF User, Listing, ClickSession, SelectConversation, ClickRecompute,
     ChangeFlavor, ClickRefresh, OpenEval, pageVars
<1>4. CASE Answer
  BY <1>2, <1>4 DEF Answer, ListAnswers, ListFails, SelectConversation, TranscriptAnswers,
     AnalysisAnswers, EvalAnswers, pageVars
<1>5. CASE Poll
  BY <1>2, <1>5 DEF Poll, ProgressAnswers, PollWakes, pageVars
<1>6. CASE UNCHANGED vars
  BY <1>2, <1>6 DEF vars, pageVars
<1> QED BY <1>3, <1>4, <1>5, <1>6 DEF Next

LEMMA NextKeepsLoads == UiIInv /\ [Next]_vars => Loads' /\ EvalForward
<1> SUFFICES ASSUME Listing, Loads, [Next]_vars PROVE Loads' /\ EvalForward
  BY DEF UiIInv
<1>1. CASE User
  BY <1>1, SelectKeeps, ClickRecomputeKeeps, ChangeFlavorKeeps, ClickRefreshKeeps,
     OpenEvalKeeps DEF User, ClickSession
<1>2. CASE Answer
  <2>1. ASSUME NEW l \in lists, ListFails(l) PROVE Loads' /\ EvalForward
    <3>1. UNCHANGED <<hash, pane, cache, ai, currentPoll, analyses, transcripts,
                      transcriptGeneration, renderGeneration, evals>>
      BY <2>1 DEF ListFails, analysisVars, evalVars
    <3> QED BY <3>1, UnmovedKeepsSelection, UnmovedKeepsPolling, UnmovedKeepsRendering DEF Loads
  <2> QED BY <1>2, <2>1, ListAnswersKeeps, TranscriptAnswersKeeps, AnalysisAnswersKeeps,
             EvalAnswersKeeps DEF Answer
<1>3. CASE Poll
  <2>1. ASSUME NEW l \in loops, PollWakes(l) PROVE Loads' /\ EvalForward
    <3>1. UNCHANGED <<hash, pane, cache, ai, currentPoll, analyses, transcripts,
                      transcriptGeneration, renderGeneration, evals>>
      BY <2>1 DEF PollWakes, pageVars, evalVars
    <3> QED BY <3>1, UnmovedKeepsSelection, UnmovedKeepsPolling, UnmovedKeepsRendering DEF Loads
  <2> QED BY <1>3, <2>1, ProgressAnswersKeeps DEF Poll
<1>4. CASE UNCHANGED vars
  <2>1. UNCHANGED <<hash, pane, cache, ai, currentPoll, analyses, transcripts,
                    transcriptGeneration, renderGeneration, evals>>
    BY <1>4 DEF vars, pageVars, analysisVars, evalVars
  <2> QED BY <2>1, UnmovedKeepsSelection, UnmovedKeepsPolling, UnmovedKeepsRendering DEF Loads
<1> QED BY <1>1, <1>2, <1>3, <1>4 DEF Next

LEMMA NextKeepsIInv == UiIInv /\ [Next]_vars => UiIInv' /\ EvalForward
BY NextKeepsListing, NextKeepsLoads DEF UiIInv

\* In every state, what is shown and what is awaited fits the selection, the poll and the
\* generations of the page.
THEOREM UiInvariant == Spec => []UiIInv
<1> QED BY InitIInv, NextKeepsIInv, PTL DEF Spec

\* Whichever answers come late, the transcript that is shown is the selected
\* session's, and so is a progress (transcriptGeneration, currentPollSessionId).
THEOREM LateAnswersShowNothing == Spec => []ViewsFollowTheSelection
<1>1. UiIInv => ViewsFollowTheSelection
  BY DEF UiIInv, Loads, Selection, Polling, ViewsFollowTheSelection
<1> QED BY <1>1, UiInvariant, PTL

\* A slow render of the evaluation page never replaces a newer one
\* (renderGeneration).
THEOREM RendersGoForward == Spec => EvalsNeverGoBack
<1>1. UiIInv /\ [Next]_vars => [pane.what = "eval" /\ pane'.what = "eval" => pane'.of >= pane.of]_vars
  BY NextKeepsIInv DEF EvalForward
<1> QED BY <1>1, UiInvariant, PTL DEF Spec, EvalsNeverGoBack
===============================================================================
