-------------------------- MODULE ReasoningSummary --------------------------
(***************************************************************************)
(* The summary of Grok's thinking (ReasoningAggregator,                    *)
(* src/app/dataplane/reverse/protocol/xai_chat_reasoning*.go): thoughts,   *)
(* tool cards and agents' reports become events of four sections, which    *)
(* wait until the language is known and are then shown, or dropped by the  *)
(* rules of emit.                                                          *)
(*                                                                         *)
(* A text is the event it is read as, its track, its key and its vote for  *)
(* a language; the words of a line are left out.                           *)
(***************************************************************************)
EXTENDS Integers, Sequences, FiniteSets

CONSTANTS Track,       \* the topics recognised
          Promoted,    \* those whose evidence is promoted to a finding
          Text,        \* texts told apart by their normalised key
          EnVotes,     \* English texts that settle the language (3 in the code)
          MaxPending,  \* events that settle it without a vote (4 in the code)
          MaxReport,   \* events of a report (6 in the code)
          MaxInputs    \* events read, and texts that say nothing new (bound)

VARIABLES agg,     \* ReasoningAggregator
          shown,   \* history: the lines of the summary, titles among them
          inputs

vars == <<agg, shown, inputs>>

None == "none"
Sections == {"understanding", "scope", "evidence", "finding"}
Event(section, track, level, key) == [section |-> section, track |-> track, level |-> level, key |-> key]
Init ==
    /\ agg = [language |-> None, en |-> 0, agents |-> FALSE, emitted |-> {}, pending |-> <<>>,
              sections |-> {}, best |-> [t \in {} |-> 0], counts |-> [t \in {} |-> 0]]
    /\ shown = <<>>
    /\ inputs = 0

-----------------------------------------------------------------------------
(* What is read out of a text. *)

(* normalizeHeader and normalizeSummary. *)
Headers == {Event(s, None, 0, <<s, "header", t>>) : s \in {"evidence", "understanding"}, t \in Text}
Readings == {<<"scope", 1>>, <<"evidence", 2>>, <<"understanding", 2>>, <<"finding", 3>>, <<"understanding", 1>>}
Summaries == {Event(r[1], track, r[2], <<r[1], "summary", t>>) : r \in Readings, track \in Track \cup {None}, t \in Text}
(* A finding is an understanding until the agents search.                    *)
Thoughts == {e \in Headers \cup Summaries : agg.agents => <<e.section, e.level>> # <<"understanding", 2>>}
(* OnToolUsage: searches, pages, pictures, code. *)
Searches == {Event("scope", t, 1, <<"scope", "web", t>>) : t \in Track}
SocialChecks == {Event("evidence", t, 2, <<"evidence", "social", t>>) : t \in Track}
(* classifyPageSource, pickBrowseTrack. *)
Pages == {Event("evidence", t, 3, <<"evidence", "community", t>>) : t \in Track}
         \cup {Event("evidence", t, 4, <<"evidence", "official", t>>) : t \in Track}
Pictures == {Event("scope", "visual_assets", 1, <<"scope", "image", t>>) : t \in Text}
Code == {Event("evidence", None, 0, <<"evidence", "code_execution", None>>)}
Cards == SocialChecks \cup Pages \cup Pictures \cup Code
AgentsStarted == Event("scope", None, 0, <<"scope", "agents_started", None>>)
(* extractReportEvents: an agent's report, a clause of which has its topic    *)
(* and level.                                                                *)
ReportedEvidence == {Event("evidence", t, l, <<"evidence", "report", t, l, x>>) :
                        t \in Track \cup {None}, l \in {2, 4}, x \in Text}
ReportedFinding == {Event("finding", t, l, <<"finding", "report", t, l, x>>) :
                        t \in Track \cup {None}, l \in {3, 4}, x \in Text}
(* selectReportEvents: a clause once, one piece of evidence and two findings *)
(* a topic, evidence first, the best founded first in a topic. The order of  *)
(* the topics is left open.                                                  *)
Selected(row) ==
    \A i, j \in DOMAIN row : i < j =>
        /\ row[i].key # row[j].key
        /\ row[j].section = "evidence" => row[i].section = "evidence"
        /\ (row[i].section = row[j].section /\ row[i].track = row[j].track) =>
              /\ row[i].section = "finding" /\ row[j].level <= row[i].level
              /\ \A k \in DOMAIN row : (row[k].section = "finding" /\ row[k].track = row[i].track) => k \in {i, j}
Rows(n) == [1..n -> ReportedEvidence \cup ReportedFinding]
Reports == {row \in UNION {Rows(n) : n \in 0..MaxReport} : Selected(row)}

-----------------------------------------------------------------------------
(* emit: the aggregator and the lines after an event. *)

Counted(f, k) == IF k \in DOMAIN f THEN f[k] ELSE 0
Set(f, k, v) == [j \in DOMAIN f \cup {k} |-> IF j = k THEN v ELSE f[j]]
(* Evidence after the first finding is promoted or dropped. *)
Promote(a, e) ==
    IF e.section = "evidence" /\ "finding" \in a.sections
    THEN [e EXCEPT !.section = "finding", !.key = <<"finding", "promoted", e.key>>] ELSE e
(* Faulty variant: only evidence can come too late. *)
TooLateEvidence(a, e) ==
    e.section = "evidence" /\ "finding" \in a.sections /\ e.level < 4 /\ e.track \notin Promoted

TooLate(a, e) ==
    \/ e.section = "scope" /\ a.sections \cap {"evidence", "finding"} # {}
    \/ e.section = "evidence" /\ "finding" \in a.sections /\ e.level < 4 /\ e.track \notin Promoted
MaxPerTrack(section) == IF section \in {"scope", "evidence"} THEN 1 ELSE 2
(* A topic has had its lines, or a better one. *)
Spent(a, e) ==
    LET k == <<e.section, e.track>> IN
    e.track # None /\ (Counted(a.counts, k) >= MaxPerTrack(e.section) \/ Counted(a.best, k) > e.level)
Emit(a, lines, event) ==
    LET e == Promote(a, event)
        k == <<e.section, e.track>>
        title == IF e.section \in a.sections THEN <<>> ELSE <<[title |-> a.language, section |-> e.section]>>
    IN  IF TooLate(a, event) \/ e.key \in a.emitted \/ Spent(a, e) THEN [agg |-> a, lines |-> lines]
        ELSE [agg |-> [a EXCEPT !.emitted = @ \cup {e.key}, !.sections = @ \cup {e.section},
                                !.best = IF e.track = None THEN @ ELSE Set(@, k, e.level),
                                !.counts = IF e.track = None THEN @ ELSE Set(@, k, Counted(@, k) + 1)],
              lines |-> lines \o title \o <<e>>]
EmitAll(a, lines, events) ==
    LET after[i \in 0 .. Len(events)] ==
            IF i = 0 THEN [agg |-> a, lines |-> lines]
            ELSE LET before == after[i - 1] IN Emit(before.agg, before.lines, events[i])
    IN  after[Len(events)]
FlushPending(a, lines) == EmitAll([a EXCEPT !.pending = <<>>], lines, a.pending)

(* dispatch: an event waits while the language is unknown. *)
Dispatch(state, event) ==
    LET a == state.agg
        waiting == [a EXCEPT !.pending = Append(@, event)]
        settled == [waiting EXCEPT !.language = "en"]
    IN  CASE a.language = None /\ a.en < EnVotes /\ Len(waiting.pending) < MaxPending ->
               [agg |-> waiting, lines |-> state.lines]
          [] a.language = None /\ (a.en >= EnVotes \/ Len(waiting.pending) >= MaxPending) ->
               FlushPending(settled, state.lines)
          [] OTHER -> LET flushed == FlushPending(a, state.lines) IN Emit(flushed.agg, flushed.lines, event)
DispatchAll(a, events) ==
    LET after[i \in 0 .. Len(events)] ==
            IF i = 0 THEN [agg |-> a, lines |-> shown] ELSE Dispatch(after[i - 1], events[i])
    IN  after[Len(events)]

(* observeLanguage: Chinese settles it at once, English only counts. *)
Vote(v) ==
    CASE v = "zh" -> [agg EXCEPT !.language = IF @ = None THEN "zh" ELSE @]
      [] v = "en" -> [agg EXCEPT !.en = IF @ < EnVotes THEN @ + 1 ELSE @]
      [] OTHER -> agg
Votes == {"zh", "en", None}

-----------------------------------------------------------------------------

Becomes(state) == agg' = state.agg /\ shown' = state.lines
(* An input that is read as these events, after a vote.                      *)
More == inputs < MaxInputs
Read(a, events) ==
    /\ inputs' = inputs + (IF events = <<>> THEN 1 ELSE Len(events)) /\ inputs' <= MaxInputs
    /\ Becomes(DispatchAll(a, events))
(* A text may say nothing new, and a query may have no known topic.          *)
Maybe(events) == {<<e>> : e \in events} \cup {<<>>}
(* OnThinking. *)
OnThinking == More /\ \E v \in Votes, t \in Maybe(Thoughts) : Read(Vote(v), t)
(* OnToolUsage of a search: the first of an agent says that agents started.  *)
OnSearch ==
    /\ More
    /\ \E v \in Votes, found \in Maybe(Searches), agent \in BOOLEAN :
        LET first == agent /\ ~agg.agents
        IN  Read([Vote(v) EXCEPT !.agents = @ \/ first], IF first THEN <<AgentsStarted>> \o found ELSE found)
OnCard == More /\ \E v \in Votes, c \in Maybe(Cards) : Read(Vote(v), c)
OnReport == More /\ \E v \in Votes, r \in Reports : Read(Vote(v), r)
(* Finalize, at a soft stop: the language is settled by what is known.       *)
Finalize ==
    /\ agg.pending # <<>>
    /\ Becomes(FlushPending([agg EXCEPT !.language = IF @ # None THEN @ ELSE IF agg.en > 0 THEN "en" ELSE "zh"],
                            shown))
    /\ UNCHANGED inputs

Next == OnThinking \/ OnSearch \/ OnCard \/ OnReport \/ Finalize
Spec == Init /\ [][Next]_vars

-----------------------------------------------------------------------------

Line(i) == "title" \notin DOMAIN shown[i]
(* The aggregator is as the code keeps it. *)
TypeOK ==
    /\ agg.language \in {None, "zh", "en"} /\ agg.en \in 0..EnVotes
    /\ Len(agg.pending) <= MaxPending
    /\ agg.sections \subseteq Sections
    /\ inputs \in 0..MaxInputs

(* The summary is read from the top: no scope below evidence or a finding,   *)
(* no evidence below a finding, whatever waited for the language meanwhile.  *)
SectionsInOrder ==
    \A i, j \in 1..Len(shown) : (i < j /\ Line(i) /\ Line(j)) =>
        /\ ~(shown[j].section = "scope" /\ shown[i].section \in {"evidence", "finding"})
        /\ ~(shown[j].section = "evidence" /\ shown[i].section = "finding")

(* Every section has one title, above its first line, and all titles are in  *)
(* the same language.                                                        *)
OneTitlePerSection ==
    \A i \in 1..Len(shown) :
        IF Line(i) THEN \E j \in 1..(i - 1) : ~Line(j) /\ shown[j].section = shown[i].section
        ELSE /\ \A j \in 1..(i - 1) : shown[j].section # shown[i].section
             /\ \A j \in 1..Len(shown) : Line(j) \/ shown[j].title = shown[i].title
             /\ shown[i].title # None

(* A topic does not flood the summary, and what is said of it in a section   *)
(* only gets better founded.                                                 *)
TopicsAreBounded ==
    \A i \in 1..Len(shown) : (Line(i) /\ shown[i].track # None) =>
        LET same == {j \in 1..Len(shown) : /\ Line(j) /\ shown[j].section = shown[i].section
                                           /\ shown[j].track = shown[i].track}
        IN  /\ Cardinality(same) <= (IF shown[i].section \in {"scope", "evidence"} THEN 1 ELSE 2)
            /\ \A j \in same : j < i => shown[j].level <= shown[i].level

(* The summary can be read from the top.                                     *)
SummaryIsOrderly == TypeOK /\ SectionsInOrder /\ OneTitlePerSection /\ TopicsAreBounded
=============================================================================
