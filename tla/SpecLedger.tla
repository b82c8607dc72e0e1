------------------------------ MODULE SpecLedger ------------------------------
(***************************************************************************)
(* The ledger of user stories and acceptance criteria                      *)
(* (src/agent/src/spec_ledger.py) over the runs and tickets of one         *)
(* repository.  A lap of the specification stage merges its draft's delta  *)
(* into the ledger before anybody has approved it; approval, a clean run   *)
(* and a mergeable exit stamp the ledger afterwards.  Whether the stamps   *)
(* still belong to the wording they stand next to is what the module asks. *)
(*                                                                         *)
(* A lap's draft is any small delta: the file is the model's to edit, so   *)
(* nothing is assumed of how it relates to the lap before.  A lap that     *)
(* fails a check of the sync saves nothing and is a stutter.  One run      *)
(* works on the repository at a time, and the ledger is read and written   *)
(* whole, by execs in a sandbox: a read that fails counts as a file        *)
(* without entries, and so does a file whose writing was cut short.        *)
(***************************************************************************)
EXTENDS Integers, FiniteSetsExt, Functions, TLC

CONSTANTS
    Titles,       \* texts of stories
    Texts,        \* texts of criteria
    MaxStories,   \* bound: stories ever recorded
    MaxCriteria,  \* bound: criteria ever recorded per story
    MaxRuns,      \* bound: runs over the repository, and rewinds of them
    MaxLaps,      \* bound: laps that save the ledger, and accidents
    MaxAccidents  \* bound: reads that fail and writes that are cut short

SpecLedgerAssumption ==
    /\ Titles # {} /\ Texts # {}
    /\ MaxStories \in Nat \ {0} /\ MaxCriteria \in Nat /\ MaxRuns \in Nat /\ MaxLaps \in Nat
    /\ MaxAccidents \in Nat
ASSUME SpecLedgerAssumption

VARIABLES
    ledger,     \* ledger.json: the entries by id, stories and criteria apart
    sketchpad,  \* the draft file, as the last saved lap wrote it back
    approved,   \* 03-specification.approved.json
    base,       \* round-base-specification.json
    superseded, \* a specification was approved since the round was seeded
    phase,      \* where the run under way is
    runs,       \* runs begun, and rewound
    laps,       \* laps that saved the ledger
    accidents,  \* reads of the ledger that failed before a save, writes cut short
    apart,      \* ghost: the draft file and the ledger are not of one lap
    reworked    \* ghost: criteria that saved laps of this run reworded or reopened

vars == <<ledger, sketchpad, approved, base, superseded, phase, runs, laps, accidents,
          apart, reworked>>

Status == {"active", "revised", "deferred", "retired"}
Built  == {"active", "revised"}          \* what has to be delivered
Live   == Built \cup {"deferred"}

StoryIds     == 1..MaxStories
CriterionIds == StoryIds \X (1..MaxCriteria)
NoStory == 0                              \* no citation
NoCriterion == <<0, 0>>

\* pending_reset_run_id: not set, this run's, or an earlier run's.
Mark == {"none", "mine", "stale"}

Story     == [status : Status, title : Titles, resolved : BOOLEAN]
Criterion == [status : Status, text : Texts, mark : Mark,
              coded : BOOLEAN, tested : BOOLEAN, resolved : BOOLEAN]

Stories(l)     == DOMAIN l.stories
Criteria(l)    == DOMAIN l.criteria
Children(l, u) == {c \in DOMAIN l.criteria : c[1] = u}

EmptyLedger == [stories |-> << >>, criteria |-> << >>]

Accident ==
    /\ accidents < MaxAccidents /\ laps + accidents < MaxLaps
    /\ accidents' = accidents + 1

\* Any read that fails, and any file that does not parse, is a ledger without entries.
load_ledger(l) ==
    \/ l = ledger /\ UNCHANGED accidents
    \/ l = EmptyLedger /\ ledger # EmptyLedger /\ Accident

----------------------------------------------------------------------------
(* A specification as shown at the gate and approved there: what is live.   *)

NoSpecification == [written |-> FALSE, stories |-> << >>, criteria |-> << >>]

live_stories(l)  == {u \in DOMAIN l.stories : l.stories[u].status \in Live}
live_criteria(l) == {c \in DOMAIN l.criteria :
                        l.criteria[c].status \in Live /\ c[1] \in live_stories(l)}

render_live_user_stories(l) ==
    [written  |-> TRUE,
     stories  |-> [u \in live_stories(l) |->
        [text |-> l.stories[u].title, deferred |-> l.stories[u].status = "deferred"]],
     criteria |-> [c \in live_criteria(l) |->
        [text |-> l.criteria[c].text, deferred |-> l.criteria[c].status = "deferred"]]]

\* The first round's snapshot is empty and gives way to the approved file.
read_round_base_specification == IF base.written THEN base ELSE approved

----------------------------------------------------------------------------
(* A draft's delta: at most one story with at most one criterion under it,  *)
(* and at most one id in each of the lists.                                 *)

AcBlock == [existing_ac_id : CriterionIds \cup {NoCriterion}, description : Texts, deferred : BOOLEAN]

StoryBlock == [existing_us_id : StoryIds \cup {NoStory}, title : Titles, deferred : BOOLEAN,
               acceptance_criteria : {{}} \cup {{a} : a \in AcBlock}]

Draft == [user_stories    : {{}} \cup {{b} : b \in StoryBlock},
          retired_us_ids  : {{}} \cup {{u} : u \in StoryIds},
          retired_ac_ids  : {{}} \cup {{c} : c \in CriterionIds},
          bug_affected_ac_ids : {{}} \cup {{c} : c \in CriterionIds}]

EmptyDraft == [user_stories |-> {}, retired_us_ids |-> {}, retired_ac_ids |-> {},
               bug_affected_ac_ids |-> {}]

\* Ids: one more than the largest recorded, retired entries included.
\* Mutant: a retired story's number is free again.
next_us_number_of_live(l) == Max({0} \cup live_stories(l)) + 1

next_us_number(l)    == Max({0} \cup DOMAIN l.stories) + 1
next_ac_number(l, u) == Max({0} \cup {c[2] : c \in Children(l, u)}) + 1

\* Greenfield leniency: on an empty ledger a citation means "new".
ledger_was_empty(l) == DOMAIN l.stories = {}
is_new_story(l, b) == ledger_was_empty(l) \/ b.existing_us_id = NoStory
is_new_ac(l, a)    == ledger_was_empty(l) \/ a.existing_ac_id = NoCriterion

us_id(l, b) == IF is_new_story(l, b) THEN next_us_number(l) ELSE b.existing_us_id
ac_id(l, u, a) == IF is_new_ac(l, a) THEN <<u, next_ac_number(l, u)>> ELSE a.existing_ac_id

touched_us(l, d) == {us_id(l, b) : b \in d.user_stories}
touched_ac(l, d) == UNION {{ac_id(l, us_id(l, b), a) : a \in b.acceptance_criteria}
                              : b \in d.user_stories}

\* What is new must not repeat a live entry; a citation must be of a live one.
duplicate_story(l, b) ==
    \E u \in live_stories(l) : l.stories[u].title = b.title
duplicate_ac(l, a) ==
    \E c \in DOMAIN l.criteria : l.criteria[c].status \in Live /\ l.criteria[c].text = a.description

story_accepted(l, b) ==
    IF is_new_story(l, b)
    THEN ledger_was_empty(l) \/ ~duplicate_story(l, b)
    ELSE b.existing_us_id \in live_stories(l)

ac_accepted(l, u, a) ==
    IF is_new_ac(l, a)
    THEN ledger_was_empty(l) \/ ~duplicate_ac(l, a)
    ELSE a.existing_ac_id \in Children(l, u) /\ l.criteria[a.existing_ac_id].status # "retired"

\* No check of the sync fails: its citations, its retirements, its bug list.
accepted(l, d) ==
    /\ \A b \in d.user_stories :
          /\ story_accepted(l, b)
          /\ \A a \in b.acceptance_criteria : ac_accepted(l, us_id(l, b), a)
    /\ d.retired_us_ids \subseteq DOMAIN l.stories \ touched_us(l, d)
    /\ d.retired_ac_ids \subseteq DOMAIN l.criteria \ touched_ac(l, d)
    /\ \A c \in d.bug_affected_ac_ids :
          /\ c \notin d.retired_ac_ids
          /\ c \in touched_ac(l, d) \/
                /\ c \in DOMAIN l.criteria
                /\ l.criteria[c].status \in Live
                /\ c[1] \notin d.retired_us_ids
    /\ touched_us(l, d) \subseteq StoryIds          \* MaxStories
    /\ touched_ac(l, d) \subseteq CriterionIds      \* MaxCriteria

----------------------------------------------------------------------------
(* sync_ledger's passes over an accepted draft, in its order.               *)

\* Markers of runs that never reached an approval are dropped.
swept(l) == [l EXCEPT !.criteria =
    [c \in DOMAIN @ |-> IF @[c].mark = "stale" THEN [@[c] EXCEPT !.mark = "none"] ELSE @[c]]]

story_entry(l, b) ==
    IF is_new_story(l, b)
    THEN [status |-> IF b.deferred THEN "deferred" ELSE "active", title |-> b.title,
          resolved |-> FALSE]
    ELSE [l.stories[b.existing_us_id] EXCEPT
              !.status = IF b.deferred THEN "deferred" ELSE "revised", !.title = b.title]

\* A reworded criterion is marked; a lap that repeats what the ledger holds unmarks it.
ac_entry(l, b, a) ==
    LET parked == a.deferred \/ b.deferred
    IN  IF is_new_ac(l, a)
        THEN [status |-> IF parked THEN "deferred" ELSE "active", text |-> a.description,
              mark |-> "none", coded |-> FALSE, tested |-> FALSE, resolved |-> FALSE]
        ELSE LET e == l.criteria[a.existing_ac_id]
             IN  [e EXCEPT !.status = IF parked THEN "deferred" ELSE "revised",
                           !.text = a.description,
                           !.mark = IF a.description # e.text THEN "mine" ELSE "none"]

\* A deferred story parks the criteria the draft does not repeat, too.
merged(l, d) ==
    LET us     == [u \in touched_us(l, d) |-> CHOOSE b \in d.user_stories : us_id(l, b) = u]
        parked == {u \in DOMAIN us : us[u].deferred}
        acs    == touched_ac(l, d)
        block(c) == CHOOSE a \in us[c[1]].acceptance_criteria : ac_id(l, c[1], a) = c
    IN  [stories  |-> [u \in DOMAIN l.stories \cup DOMAIN us |->
                          IF u \in DOMAIN us THEN story_entry(l, us[u]) ELSE l.stories[u]],
         criteria |-> [c \in DOMAIN l.criteria \cup acs |->
                          IF c \in acs THEN ac_entry(l, us[c[1]], block(c))
                          ELSE IF c[1] \in parked /\ l.criteria[c].status \in Built
                               THEN [l.criteria[c] EXCEPT !.status = "deferred"]
                               ELSE l.criteria[c]]]

\* Mutant: a retired story is taken out of the list.
retired_and_removed(l, us, acs) ==
    [stories  |-> Restrict(l.stories, DOMAIN l.stories \ us),
     criteria |-> [c \in DOMAIN l.criteria |->
                      IF c[1] \in us \/ c \in acs
                      THEN [l.criteria[c] EXCEPT !.status = "retired"]
                      ELSE l.criteria[c]]]

\* Mutant: the story's criteria stay as they are.
retired_by_name(l, us, acs) ==
    [stories  |-> [u \in DOMAIN l.stories |->
                      IF u \in us THEN [l.stories[u] EXCEPT !.status = "retired"]
                      ELSE l.stories[u]],
     criteria |-> [c \in DOMAIN l.criteria |->
                      IF c \in acs THEN [l.criteria[c] EXCEPT !.status = "retired"]
                      ELSE l.criteria[c]]]

\* Retirement is by name only, and takes a story's criteria along.
retired(l, us, acs) ==
    LET gone == {u \in us : l.stories[u].status # "retired"}
    IN  [stories  |-> [u \in DOMAIN l.stories |->
                          IF u \in us THEN [l.stories[u] EXCEPT !.status = "retired"]
                          ELSE l.stories[u]],
         criteria |-> [c \in DOMAIN l.criteria |->
                          IF c[1] \in gone \/ c \in acs
                          THEN [l.criteria[c] EXCEPT !.status = "retired"]
                          ELSE l.criteria[c]]]

reopened(l, acs) == [l EXCEPT !.criteria =
    [c \in DOMAIN @ |-> IF c \in acs THEN [@[c] EXCEPT !.mark = "mine"] ELSE @[c]]]

sync_ledger(l, d) ==
    reopened(retired(merged(swept(l), d), d.retired_us_ids, d.retired_ac_ids),
             d.bug_affected_ac_ids)

\* Mutant: the draft is left in its file as it was submitted.
written_back_as_submitted(l, d) == d

\* The draft goes back to its file citing the ids its entries were given.
written_back(l, d) == [d EXCEPT !.user_stories =
    {[b EXCEPT !.existing_us_id = us_id(l, b),
               !.acceptance_criteria =
                   {[a EXCEPT !.existing_ac_id = ac_id(l, us_id(l, b), a)] : a \in @}]
        : b \in @}]

----------------------------------------------------------------------------
(* Stamps.                                                                  *)

\* Mutant: whichever run set the marker.
resets_of_any_run(l) ==
    LET marked == {c \in DOMAIN l.criteria : l.criteria[c].mark # "none"}
    IN  [l EXCEPT !.criteria =
            [c \in DOMAIN @ |->
                IF c \in marked
                THEN [@[c] EXCEPT !.mark = "none", !.coded = FALSE,
                                  !.tested = FALSE, !.resolved = FALSE]
                ELSE @[c]]]

\* Mutant: the story keeps its own stamp.
resets_without_story(l) ==
    [l EXCEPT !.criteria =
        [c \in DOMAIN @ |->
            IF @[c].mark = "mine"
            THEN [@[c] EXCEPT !.mark = "none", !.coded = FALSE,
                              !.tested = FALSE, !.resolved = FALSE]
            ELSE [@[c] EXCEPT !.mark = "none"]]]

\* The marked criteria of this run lose what was delivered for them, and their
\* stories are no longer resolved; other runs' markers are dropped.
apply_tracking_resets(l) ==
    LET mine == {c \in DOMAIN l.criteria : l.criteria[c].mark = "mine"}
    IN  [stories  |-> [u \in DOMAIN l.stories |->
                          IF \E c \in mine : c[1] = u
                          THEN [l.stories[u] EXCEPT !.resolved = FALSE] ELSE l.stories[u]],
         criteria |-> [c \in DOMAIN l.criteria |->
                          IF c \in mine
                          THEN [l.criteria[c] EXCEPT !.mark = "none", !.coded = FALSE,
                                                     !.tested = FALSE, !.resolved = FALSE]
                          ELSE [l.criteria[c] EXCEPT !.mark = "none"]]]

\* A clean run delivers its own criteria; which of them tests measured is its input.
stamp_delivery(l, own, passed) == [l EXCEPT !.criteria =
    [c \in DOMAIN @ |->
        IF c \in own /\ @[c].status \in Built
        THEN [@[c] EXCEPT !.coded = TRUE, !.tested = l.criteria[c].tested \/ c \in passed]
        ELSE @[c]]]

\* Criteria first, so that a story whose last one resolves now resolves with it.
stamp_resolution(l) ==
    LET after == [c \in DOMAIN l.criteria |->
                     IF l.criteria[c].status \in Built /\ l.criteria[c].coded /\ l.criteria[c].tested
                     THEN [l.criteria[c] EXCEPT !.resolved = TRUE] ELSE l.criteria[c]]
        live(u) == {c \in Children(l, u) : after[c].status \in Built}
        earned(u) == /\ l.stories[u].status \in Built
                     /\ live(u) # {} /\ \A c \in live(u) : after[c].resolved
    IN  [stories  |-> [u \in DOMAIN l.stories |->
                          IF earned(u) THEN [l.stories[u] EXCEPT !.resolved = TRUE]
                          ELSE l.stories[u]],
         criteria |-> after]

----------------------------------------------------------------------------
Init ==
    /\ ledger = EmptyLedger /\ sketchpad = EmptyDraft /\ apart = FALSE
    /\ approved = NoSpecification /\ base = NoSpecification /\ superseded = TRUE
    /\ phase = "done" /\ runs = 0 /\ laps = 0 /\ accidents = 0 /\ reworked = {}

\* Everything shown is as the round found it, nothing it showed is retired, no bug.
no_new_work(l, d) ==
    LET shown == render_live_user_stories(l)
        prior == read_round_base_specification
    IN  /\ DOMAIN shown.stories # {}
        /\ \A u \in DOMAIN shown.stories :
              u \in DOMAIN prior.stories /\ prior.stories[u] = shown.stories[u]
        /\ \A c \in DOMAIN shown.criteria :
              c \in DOMAIN prior.criteria /\ prior.criteria[c] = shown.criteria[c]
        /\ \A u \in DOMAIN prior.stories \cap Stories(l) : l.stories[u].status # "retired"
        /\ \A c \in DOMAIN prior.criteria \cap Criteria(l) : l.criteria[c].status # "retired"
        /\ d.bug_affected_ac_ids = {}

\* Without approved stories to decide about, an empty draft proposes nothing.
empty_draft(d) == d = EmptyDraft /\ DOMAIN read_round_base_specification.stories = {}

\* What a lap changed in the wording, and what it names as broken.
reworks(l, d) ==
    d.bug_affected_ac_ids \cup
        {c \in Criteria(l) : sync_ledger(l, d).criteria[c].text # l.criteria[c].text}

\* The draft file is written back, then the ledger is saved; only then are the decisions
\* on the approved stories and the PRD changes checked.  A draft that fails them is
\* redrafted or, where verify only advises, shown; nothing ends on such a draft.
VerifySpecification(d) ==
    /\ phase = "draft" /\ laps + accidents < MaxLaps /\ laps' = laps + 1
    /\ \E l \in {ledger, EmptyLedger} :
          /\ load_ledger(l) /\ ~empty_draft(d) /\ accepted(l, d)
          /\ sketchpad' = written_back(l, d)
          /\ ledger' = sync_ledger(l, d) /\ apart' = FALSE
          /\ reworked' = (reworked \cap Criteria(l)) \cup reworks(l, d)
    /\ \/ phase' \in {"draft", "gate"}
       \/ no_new_work(ledger', d) /\ phase' = "nothing"
    /\ UNCHANGED <<approved, base, superseded, runs>>

\* A kill or a failed write between the two leaves the file citing what the ledger was
\* never given; one inside the second leaves a ledger that does not parse.
LapCutShort(d) ==
    /\ phase = "draft" /\ Accident
    /\ ~empty_draft(d) /\ accepted(ledger, d)
    /\ sketchpad' = written_back(ledger, d) /\ apart' = TRUE
    /\ \/ UNCHANGED <<ledger, reworked>>
       \/ ledger' = EmptyLedger /\ reworked' = {}
    /\ UNCHANGED <<approved, base, superseded, phase, runs, laps>>

\* Later the ledger is lost by a kill inside a save, or by a save of what a failed read
\* returned: the plan's verify saves what it loaded with its own steps added, the node
\* that mints tickets even when it has none to mint.
LoseLedger ==
    /\ phase \in {"plan", "build", "measured"} /\ ledger # EmptyLedger /\ Accident
    /\ ledger' = EmptyLedger /\ apart' = TRUE /\ reworked' = {}
    /\ UNCHANGED <<sketchpad, approved, base, superseded, phase, runs, laps>>

\* The hook that applies the resets may be lost with the sandbox, or read nothing.
ApproveSpecification ==
    /\ phase = "gate" /\ phase' = "plan"
    /\ approved' = render_live_user_stories(ledger) /\ superseded' = TRUE
    /\ ledger' \in {ledger, apply_tracking_resets(ledger)}
    /\ UNCHANGED <<sketchpad, base, runs, laps, accidents, apart, reworked>>

\* A rejection at the gate, or a correction at the plan's gate.
SendBack ==
    /\ phase \in {"gate", "plan"} /\ phase' = "draft"
    /\ UNCHANGED <<ledger, sketchpad, approved, base, superseded, runs, laps, accidents,
                   apart, reworked>>

ApprovePlan ==
    /\ phase = "plan" /\ phase' = "build"
    /\ UNCHANGED <<ledger, sketchpad, approved, base, superseded, runs, laps, accidents,
                   apart, reworked>>

\* A flaky test becomes a story without criteria that no draft ever saw.
minted(l, title) == [l EXCEPT !.stories =
    [u \in DOMAIN @ \cup {next_us_number(l)} |->
        IF u \in DOMAIN @ THEN @[u]
        ELSE [status |-> "active", title |-> title, resolved |-> FALSE]]]

MintTicket(title) ==
    /\ phase = "build"
    /\ \E l \in {ledger, EmptyLedger} :
          /\ load_ledger(l) /\ next_us_number(l) \in StoryIds
          /\ ledger' = minted(l, title)
          /\ apart' = (apart \/ l # ledger) /\ reworked' = reworked \cap Criteria(l)
    /\ UNCHANGED <<sketchpad, approved, base, superseded, phase, runs, laps>>

\* Stamps are saved if something changed: a read that fails loses them, no more.
ComputeMetrics(clean, passed) ==
    /\ phase = "build" /\ phase' = IF clean THEN "measured" ELSE "failed"
    /\ \/ UNCHANGED ledger
       \/ clean /\ ledger' = stamp_delivery(ledger, DOMAIN approved.criteria, passed)
    /\ UNCHANGED <<sketchpad, approved, base, superseded, runs, laps, accidents, apart, reworked>>

Finalize(merge_ready) ==
    /\ phase \in {"measured", "failed"} /\ (merge_ready => phase = "measured")
    /\ phase' = "done"
    /\ \/ UNCHANGED ledger
       \/ merge_ready /\ ledger' = stamp_resolution(ledger)
    /\ UNCHANGED <<sketchpad, approved, base, superseded, runs, laps, accidents, apart, reworked>>

\* Past the approved stage; "failed": the metrics were not clean, or the run gave up.
Beyond == {"plan", "build", "measured", "failed", "done"}
Back(p) == IF p = "plan" THEN "plan" ELSE "build"

\* Taken up again, the run passes the approved stage, whose hook fires again.
Resume ==
    /\ phase \in Beyond /\ approved.written
    /\ phase' = Back(phase)
    /\ ledger' \in {ledger, apply_tracking_resets(ledger)}
    /\ UNCHANGED <<sketchpad, approved, base, superseded, runs, laps, accidents, apart, reworked>>

\* To a run of its own, the markers are another run's.
Foreign(l) == [l EXCEPT !.criteria =
    [c \in DOMAIN @ |-> IF @[c].mark = "mine" THEN [@[c] EXCEPT !.mark = "stale"] ELSE @[c]]]

\* A new run over what is approved passes it likewise, under its own run id.
Reattach ==
    /\ runs < MaxRuns /\ runs' = runs + 1 /\ reworked' = {}
    /\ phase \in Beyond /\ approved.written
    /\ phase' = Back(phase)
    /\ ledger' \in {Foreign(ledger), apply_tracking_resets(Foreign(ledger))}
    /\ UNCHANGED <<sketchpad, approved, base, superseded, laps, accidents, apart>>

\* A new run that drafts.  A new submission begins a round if a specification was
\* approved since the last one was seeded; one in the middle of a build is dropped.
Redraft(new_submission) ==
    /\ runs < MaxRuns /\ runs' = runs + 1 /\ reworked' = {}
    /\ IF new_submission THEN phase \notin {"build", "measured"}
                         ELSE phase \in {"draft", "gate", "nothing"}
    /\ phase' = "draft" /\ ledger' = Foreign(ledger)
    /\ IF new_submission /\ superseded
       THEN sketchpad' = EmptyDraft /\ base' = approved /\ superseded' = FALSE /\ apart' = FALSE
       ELSE UNCHANGED <<sketchpad, base, superseded, apart>>
    /\ UNCHANGED <<approved, laps, accidents>>

\* Rewound to the specification, a run that failed drafts again in the same round, as
\* itself or as a run of its own.
Rewind(resume) ==
    /\ runs < MaxRuns /\ runs' = runs + 1
    /\ phase \in Beyond /\ approved.written /\ phase' = "draft"
    /\ IF resume THEN UNCHANGED <<ledger, reworked>>
                 ELSE ledger' = Foreign(ledger) /\ reworked' = {}
    /\ UNCHANGED <<sketchpad, approved, base, superseded, laps, accidents, apart>>

\* Inputs: citations of what exists or of nothing, one mention besides the story.
Mentions == {[EmptyDraft EXCEPT !.retired_us_ids = {u}] : u \in DOMAIN ledger.stories}
    \cup {[EmptyDraft EXCEPT !.retired_ac_ids = {c}] : c \in DOMAIN ledger.criteria}
    \cup {[EmptyDraft EXCEPT !.bug_affected_ac_ids = {c}] : c \in DOMAIN ledger.criteria}
    \cup {EmptyDraft}
AcBlocks == [existing_ac_id : DOMAIN ledger.criteria \cup {NoCriterion},
             description : Texts, deferred : BOOLEAN]
Blocks == [existing_us_id : DOMAIN ledger.stories \cup {NoStory}, title : Titles,
           deferred : BOOLEAN, acceptance_criteria : {{}} \cup {{a} : a \in AcBlocks}]

\* The guard, stated first, spares TLC the drafts of the other phases.
Lap ==
    /\ phase = "draft" /\ laps + accidents < MaxLaps
    /\ \E m \in Mentions, bs \in {{}} \cup {{b} : b \in Blocks} :
          LET d == [m EXCEPT !.user_stories = bs]
          IN  VerifySpecification(d) \/ LapCutShort(d)

Next ==
    \/ Lap \/ LoseLedger
    \/ ApproveSpecification \/ SendBack \/ ApprovePlan
    \/ \E title \in Titles : MintTicket(title)
    \/ \E clean \in BOOLEAN, passed \in SUBSET DOMAIN approved.criteria :
          ComputeMetrics(clean, passed)
    \/ \E merge_ready \in BOOLEAN : Finalize(merge_ready)
    \/ Resume \/ Reattach
    \/ \E new_submission \in BOOLEAN : Redraft(new_submission)
    \/ \E resume \in BOOLEAN : Rewind(resume)

Spec == Init /\ [][Next]_vars

----------------------------------------------------------------------------
TextSymmetry == Permutations(Titles) \cup Permutations(Texts)

\* Every entry is well formed, and every criterion has its story.
TypeOK ==
    /\ Stories(ledger) \subseteq StoryIds /\ Criteria(ledger) \subseteq CriterionIds
    /\ \A u \in Stories(ledger) : ledger.stories[u] \in Story
    /\ \A c \in Criteria(ledger) :
          ledger.criteria[c] \in Criterion /\ c[1] \in Stories(ledger)
    /\ sketchpad \in Draft
    /\ approved.written \in BOOLEAN /\ base.written \in BOOLEAN /\ superseded \in BOOLEAN
    /\ phase \in Beyond \cup {"draft", "gate", "nothing"}
    /\ runs \in 0..MaxRuns /\ laps \in 0..MaxLaps /\ accidents \in 0..MaxAccidents
    /\ apart \in BOOLEAN /\ reworked \subseteq Criteria(ledger)

\* While the file can be read and written, an id stands for one requirement for good: no
\* lap, ticket, stamp or rewind of any run takes an entry out, and one that is retired
\* neither comes back nor lends its id to another wording.  What a failed read or a save
\* cut short does to the ids is excepted: then they start again at the first.
RetiredForGood ==
    [][accidents' = accidents =>
       /\ \A u \in Stories(ledger) :
             /\ u \in Stories(ledger')
             /\ ledger.stories[u].status = "retired" =>
                   /\ ledger'.stories[u].status = "retired"
                   /\ ledger'.stories[u].title = ledger.stories[u].title
       /\ \A c \in Criteria(ledger) :
             /\ c \in Criteria(ledger')
             /\ ledger.criteria[c].status = "retired" =>
                   /\ ledger'.criteria[c].status = "retired"
                   /\ ledger'.criteria[c].text = ledger.criteria[c].text]_vars

\* The coverage gates read a criterion's own status and never its story's: none is
\* left live under a retired story, none is left to build under a parked one.
ParkedTogether ==
    \A c \in Criteria(ledger) :
        /\ ledger.stories[c[1]].status = "retired" => ledger.criteria[c].status = "retired"
        /\ ledger.stories[c[1]].status = "deferred" => ledger.criteria[c].status \notin Built

\* A rejected or abandoned draft destroys no delivered work: while the file can be read
\* and written, a criterion goes back to the work queue only by an approval, of a run
\* whose own laps reworked it.
StampsOutliveRejection ==
    [][accidents' = accidents => \A c \in Criteria(ledger) :
          ledger.criteria[c].coded /\ ~ledger'.criteria[c].coded =>
              c \in reworked \cap reworked' /\ phase' \in Beyond]_vars

\* What is called resolved was delivered and measured, and stays so; a story is
\* resolved by criteria that still are, through every reset in between.
ResolvedIsMeasured ==
    /\ \A c \in Criteria(ledger) :
          ledger.criteria[c].resolved => ledger.criteria[c].coded /\ ledger.criteria[c].tested
    /\ \A u \in Stories(ledger) :
          ledger.stories[u].resolved => \E c \in Children(ledger, u) : ledger.criteria[c].resolved

\* A draft that passed passes again unedited, and adds nothing: after a rejection, a
\* correction, a rewind or a new run, what a lap created is cited and not recorded twice.
\* That needs a draft file and a ledger of one lap: a ledger lost since, or a lap cut
\* between its two writes, leaves a draft whose citations are of nothing.
LapCanBeRepeated ==
    phase \in {"draft", "gate"} /\ ~apart =>
        /\ accepted(ledger, sketchpad)
        /\ Stories(sync_ledger(ledger, sketchpad)) = Stories(ledger)
        /\ Criteria(sync_ledger(ledger, sketchpad)) = Criteria(ledger)

\* What the gates say of an approval ("cleared on spec approval when the requirement's
\* wording really changed", gates/wireframe_linkage_checks.py:386).  The code does not
\* keep it, even where the hook runs: see "Observed" in the README.  No run checks it.
RewordedIsRedone ==
    [][approved' # approved /\ ledger' = apply_tracking_resets(ledger) =>
          \A c \in DOMAIN approved.criteria \cap DOMAIN approved'.criteria :
              approved'.criteria[c].text # approved.criteria[c].text
                  => ~ledger'.criteria[c].coded]_vars
=============================================================================
