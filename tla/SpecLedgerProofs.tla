-------------------------- MODULE SpecLedgerProofs --------------------------
(***************************************************************************)
(* The ledger for any titles and texts, any number of stories, criteria,   *)
(* runs and laps.                                                          *)
(*                                                                         *)
(* The passes of a lap and the stamps are functions from ledgers to        *)
(* ledgers.  First, lemmas say entry by entry what each of them makes of a *)
(* well-formed ledger; the actions are then one lemma or two each.  What   *)
(* is not inductive is strengthened by Marked (only what this run reworked *)
(* bears its mark) and Redraftable (what the draft file cites is live, in  *)
(* every phase: a rewind may submit the file again).  A failed read or a   *)
(* save cut short leaves an empty ledger, of which all but the citations   *)
(* holds; the steps that are one count it, and what is claimed of steps    *)
(* excepts those.                                                          *)
(***************************************************************************)
EXTENDS SpecLedger, WellFoundedInduction, TLAPS

\* What is numbered one past the largest number in use is not in use.
LEMMA MaxOfBounded ==
    ASSUME NEW n \in Nat, NEW S \in SUBSET (0..n), S # {}
    PROVE  Max(S) \in S /\ \A x \in S : x <= Max(S)
<1> DEFINE T == {n - x : x \in S}
<1>1. T \subseteq Nat
  <2>1. \A x \in S : n - x \in Nat
    OBVIOUS
  <2>2. QED
    BY <2>1
<1>2. T # {}
  <2>1. PICK x \in S : TRUE
    OBVIOUS
  <2>2. n - x \in T
    OBVIOUS
  <2>3. QED
    BY <2>2, Zenon
<1>3. PICK t \in T : \A y \in T : ~(<<y, t>> \in OpToRel(<, Nat))
  <2> HIDE DEF T
  <2>1. QED
    BY <1>1, <1>2, WFMin, NatLessThanWellFounded
<1>4. PICK m \in S : t = n - m
  OBVIOUS
<1>5. ASSUME NEW x \in S PROVE m >= x
  <2>1. n - x \in T /\ n - x \in Nat /\ t \in Nat
    BY <1>1
  <2>2. ~(n - x < t)
    BY <1>3, <2>1 DEF OpToRel
  <2>3. QED
    BY <1>4, <2>1, <2>2
<1>6. PICK k \in S : k = Max(S) /\ \A x \in S : k >= x
  BY <1>5 DEF Max
<1>7. QED
  BY <1>6

----------------------------------------------------------------------------
(* The invariant.                                                           *)

\* A ledger is a record of two functions; every criterion has its story.
WellFormed(l) ==
    /\ l = [stories |-> l.stories, criteria |-> l.criteria]
    /\ l.stories \in [DOMAIN l.stories -> Story] /\ DOMAIN l.stories \subseteq StoryIds
    /\ l.criteria \in [DOMAIN l.criteria -> Criterion]
    /\ DOMAIN l.criteria \subseteq CriterionIds
    /\ \A c \in DOMAIN l.criteria : c[1] \in DOMAIN l.stories

\* ParkedTogether and ResolvedIsMeasured, of a ledger.
Together(l) ==
    \A c \in DOMAIN l.criteria :
        /\ l.stories[c[1]].status = "retired" => l.criteria[c].status = "retired"
        /\ l.stories[c[1]].status = "deferred" => l.criteria[c].status \notin Built

Measured(l) ==
    /\ \A c \in DOMAIN l.criteria :
          l.criteria[c].resolved => l.criteria[c].coded /\ l.criteria[c].tested
    /\ \A u \in DOMAIN l.stories :
          l.stories[u].resolved => \E c \in Children(l, u) : l.criteria[c].resolved

\* A draft that cites what is there, by entries that may be cited.
Cited(l, d) ==
    /\ \A b \in d.user_stories :
          /\ b.existing_us_id \in live_stories(l) \ d.retired_us_ids
          /\ \A a \in b.acceptance_criteria :
                /\ a.existing_ac_id \in Children(l, b.existing_us_id) \ d.retired_ac_ids
                /\ l.criteria[a.existing_ac_id].status \in Live
    /\ d.retired_us_ids \subseteq DOMAIN l.stories
    /\ d.retired_ac_ids \subseteq DOMAIN l.criteria
    /\ \A c \in d.bug_affected_ac_ids :
          /\ c \in DOMAIN l.criteria \ d.retired_ac_ids
          /\ l.criteria[c].status \in Live /\ c[1] \notin d.retired_us_ids

\* Only what laps of this run reworked bears this run's mark.
Marked == \A c \in DOMAIN ledger.criteria : ledger.criteria[c].mark = "mine" => c \in reworked

\* What the draft file cites is there, unless an accident set the two apart.
Redraftable ==
    /\ sketchpad \in Draft
    /\ ~apart => Cited(ledger, sketchpad)

Bookkeeping ==
    /\ approved.written \in BOOLEAN /\ base.written \in BOOLEAN /\ superseded \in BOOLEAN
    /\ phase \in Beyond \cup {"draft", "gate", "nothing"}
    /\ runs \in 0..MaxRuns /\ laps \in 0..MaxLaps /\ accidents \in 0..MaxAccidents
    /\ apart \in BOOLEAN /\ reworked \subseteq DOMAIN ledger.criteria

LedgerInv ==
    /\ WellFormed(ledger) /\ Together(ledger) /\ Measured(ledger)
    /\ Marked /\ Redraftable /\ Bookkeeping

\* The bounds, as numbers.
LEMMA Constants ==
    /\ MaxStories \in Nat \ {0} /\ MaxCriteria \in Nat /\ MaxRuns \in Nat /\ MaxLaps \in Nat
    /\ MaxAccidents \in Nat
BY SpecLedgerAssumption DEF SpecLedgerAssumption

----------------------------------------------------------------------------
(* Ids.                                                                     *)

\* A new number is none that was ever given.
LEMMA NewStoryNumber ==
    ASSUME NEW l, WellFormed(l)
    PROVE  next_us_number(l) \in Nat \ {0} /\ next_us_number(l) \notin DOMAIN l.stories
<1> DEFINE S == {0} \cup DOMAIN l.stories
<1>1. S \in SUBSET (0..MaxStories) /\ S # {}
  BY Constants DEF WellFormed, StoryIds
<1>2. Max(S) \in S /\ \A x \in S : x <= Max(S)
  <2> HIDE DEF S
  <2>1. QED
    BY <1>1, MaxOfBounded, Constants
<1>3. Max(S) \in 0..MaxStories
  BY <1>1, <1>2
<1>4. Max(S) + 1 \notin S
  <2> HIDE DEF S
  <2>1. QED
    BY <1>1, <1>2, <1>3
<1>5. QED
  BY <1>3, <1>4 DEF next_us_number

\* Nor is the number a new criterion gets among those of its story.
LEMMA NewCriterionNumber ==
    ASSUME NEW l, WellFormed(l), NEW u
    PROVE  /\ next_ac_number(l, u) \in Nat \ {0}
           /\ <<u, next_ac_number(l, u)>> \notin DOMAIN l.criteria
<1> DEFINE S == {0} \cup {c[2] : c \in Children(l, u)}
<1>1. S \in SUBSET (0..MaxCriteria) /\ S # {}
  <2>1. \A c \in Children(l, u) : c[2] \in 0..MaxCriteria
    BY Constants DEF WellFormed, CriterionIds, Children
  <2>2. QED
    BY <2>1, Constants
<1>2. Max(S) \in S /\ \A x \in S : x <= Max(S)
  <2> HIDE DEF S
  <2>1. QED
    BY <1>1, MaxOfBounded, Constants
<1>3. Max(S) \in 0..MaxCriteria
  BY <1>1, <1>2
<1>4. Max(S) + 1 \notin S
  <2> HIDE DEF S
  <2>1. QED
    BY <1>1, <1>2, <1>3
<1>5. ASSUME <<u, Max(S) + 1>> \in DOMAIN l.criteria PROVE FALSE
  <2>1. <<u, Max(S) + 1>> \in Children(l, u)
    BY <1>5 DEF Children
  <2>2. <<u, Max(S) + 1>>[2] \in S
    BY <2>1
  <2>3. <<u, Max(S) + 1>>[2] = Max(S) + 1
    OBVIOUS
  <2>4. QED
    <3> HIDE DEF S
    <3>1. QED
      BY <1>4, <2>2, <2>3
<1>6. QED
  BY <1>3, <1>5 DEF next_ac_number

----------------------------------------------------------------------------
(* Passes that leave everything but the marks.                              *)

\* Everything of a criterion but its mark.
Same(e, f) ==
    /\ e.status = f.status /\ e.text = f.text
    /\ e.coded = f.coded /\ e.tested = f.tested /\ e.resolved = f.resolved

Remarks(l, m) ==
    /\ WellFormed(m) /\ m.stories = l.stories /\ DOMAIN m.criteria = DOMAIN l.criteria
    /\ \A c \in DOMAIN l.criteria : Same(l.criteria[c], m.criteria[c])

\* Setting a marker changes nothing else of a criterion.
LEMMA MarkEdit ==
    ASSUME NEW e \in Criterion, NEW k \in Mark
    PROVE  /\ [e EXCEPT !.mark = k] \in Criterion
           /\ [e EXCEPT !.mark = k].mark = k
           /\ Same(e, [e EXCEPT !.mark = k])
BY DEF Criterion, Same

\* A ledger with other marks.
LEMMA RemarksOf ==
    ASSUME NEW l, WellFormed(l), NEW g,
           g = [c \in DOMAIN l.criteria |-> g[c]],
           \A c \in DOMAIN l.criteria : g[c] \in Criterion /\ Same(l.criteria[c], g[c])
    PROVE  /\ Remarks(l, [l EXCEPT !.criteria = g])
           /\ [l EXCEPT !.criteria = g].criteria = g
<1> DEFINE m == [l EXCEPT !.criteria = g]
<1>1. m = [stories |-> l.stories, criteria |-> g]
  BY DEF WellFormed
<1> HIDE DEF m
<1>2. m.stories = l.stories /\ m.criteria = g /\ m = [stories |-> m.stories, criteria |-> m.criteria]
  BY <1>1
<1>3. g \in [DOMAIN l.criteria -> Criterion] /\ DOMAIN g = DOMAIN l.criteria
  OBVIOUS
<1>4. WellFormed(m)
  BY <1>2, <1>3 DEF WellFormed
<1>5. Remarks(l, m)
  BY <1>2, <1>3, <1>4 DEF Remarks
<1>6. QED
  BY <1>2, <1>5 DEF m

\* Sweeping clears other runs' markers and keeps this one's.
LEMMA SweptRemarks ==
    ASSUME NEW l, WellFormed(l)
    PROVE  /\ Remarks(l, swept(l))
           /\ \A c \in DOMAIN l.criteria :
                 swept(l).criteria[c].mark = "mine" <=> l.criteria[c].mark = "mine"
<1> DEFINE g == [c \in DOMAIN l.criteria |->
                    IF l.criteria[c].mark = "stale" THEN [l.criteria[c] EXCEPT !.mark = "none"]
                                                    ELSE l.criteria[c]]
<1>1. swept(l) = [l EXCEPT !.criteria = g]
  BY DEF swept
<1>2. ASSUME NEW c \in DOMAIN l.criteria
      PROVE  /\ g[c] \in Criterion /\ Same(l.criteria[c], g[c])
             /\ g[c].mark = "mine" <=> l.criteria[c].mark = "mine"
  <2>1. l.criteria[c] \in Criterion /\ "none" \in Mark
    BY DEF WellFormed, Mark
  <2>2. CASE l.criteria[c].mark = "stale"
    BY <2>1, <2>2, MarkEdit
  <2>3. CASE l.criteria[c].mark # "stale"
    BY <2>1, <2>3 DEF Same
  <2>4. QED
    BY <2>2, <2>3
<1>3. g = [c \in DOMAIN l.criteria |-> g[c]]
  OBVIOUS
<1> HIDE DEF g
<1>4. QED
  BY <1>1, <1>2, <1>3, RemarksOf

\* A ledger another run finds carries none of its markers.
LEMMA ForeignRemarks ==
    ASSUME NEW l, WellFormed(l)
    PROVE  /\ Remarks(l, Foreign(l))
           /\ \A c \in DOMAIN l.criteria : Foreign(l).criteria[c].mark # "mine"
<1> DEFINE g == [c \in DOMAIN l.criteria |->
                    IF l.criteria[c].mark = "mine" THEN [l.criteria[c] EXCEPT !.mark = "stale"]
                                                   ELSE l.criteria[c]]
<1>1. Foreign(l) = [l EXCEPT !.criteria = g]
  BY DEF Foreign
<1>2. ASSUME NEW c \in DOMAIN l.criteria
      PROVE  g[c] \in Criterion /\ Same(l.criteria[c], g[c]) /\ g[c].mark # "mine"
  <2>1. l.criteria[c] \in Criterion /\ "stale" \in Mark
    BY DEF WellFormed, Mark
  <2>2. CASE l.criteria[c].mark = "mine"
    BY <2>1, <2>2, MarkEdit
  <2>3. CASE l.criteria[c].mark # "mine"
    BY <2>1, <2>3 DEF Same
  <2>4. QED
    BY <2>2, <2>3
<1>3. g = [c \in DOMAIN l.criteria |-> g[c]]
  OBVIOUS
<1> HIDE DEF g
<1>4. QED
  BY <1>1, <1>2, <1>3, RemarksOf

\* Reopening for a bug marks the criteria it names and no other.
LEMMA ReopenedRemarks ==
    ASSUME NEW l, WellFormed(l), NEW acs
    PROVE  /\ Remarks(l, reopened(l, acs))
           /\ \A c \in DOMAIN l.criteria :
                 reopened(l, acs).criteria[c].mark = "mine"
                     => c \in acs \/ l.criteria[c].mark = "mine"
<1> DEFINE g == [c \in DOMAIN l.criteria |->
                    IF c \in acs THEN [l.criteria[c] EXCEPT !.mark = "mine"]
                                 ELSE l.criteria[c]]
<1>1. reopened(l, acs) = [l EXCEPT !.criteria = g]
  BY DEF reopened
<1>2. ASSUME NEW c \in DOMAIN l.criteria
      PROVE  /\ g[c] \in Criterion /\ Same(l.criteria[c], g[c])
             /\ g[c].mark = "mine" => c \in acs \/ l.criteria[c].mark = "mine"
  <2>1. l.criteria[c] \in Criterion /\ "mine" \in Mark
    BY DEF WellFormed, Mark
  <2>2. CASE c \in acs
    BY <2>1, <2>2, MarkEdit
  <2>3. CASE c \notin acs
    BY <2>1, <2>3 DEF Same
  <2>4. QED
    BY <2>2, <2>3
<1>3. g = [c \in DOMAIN l.criteria |-> g[c]]
  OBVIOUS
<1> HIDE DEF g
<1>4. QED
  BY <1>1, <1>2, <1>3, RemarksOf

\* The invariants of a ledger do not read marks.
LEMMA RemarksKeep ==
    ASSUME NEW l, NEW m, WellFormed(l), Remarks(l, m)
    PROVE  /\ Together(l) => Together(m)
           /\ Measured(l) => Measured(m)
           /\ \A d : Cited(l, d) => Cited(m, d)
<1> USE DEF Remarks, Same
<1>1. Together(l) => Together(m)
  BY DEF Together
<1>2. \A u : Children(m, u) = Children(l, u)
  BY DEF Children
<1>3. Measured(l) => Measured(m)
  BY <1>2 DEF Measured, Children
<1>4. live_stories(m) = live_stories(l)
  BY DEF live_stories
<1>5. ASSUME NEW d, Cited(l, d) PROVE Cited(m, d)
  BY <1>2, <1>4, <1>5 DEF Cited, Children
<1>6. QED
  BY <1>1, <1>3, <1>5

----------------------------------------------------------------------------
(* What a draft names.                                                      *)

\* A draft holds one story block at most, and a block one criterion.
LEMMA DraftShape ==
    ASSUME NEW d \in Draft
    PROVE  /\ \A b \in d.user_stories : b \in StoryBlock
           /\ \A b \in d.user_stories, b2 \in d.user_stories : b = b2
           /\ \A b \in StoryBlock : \A a \in b.acceptance_criteria : a \in AcBlock
           /\ \A b \in StoryBlock :
                 \A a \in b.acceptance_criteria, a2 \in b.acceptance_criteria : a = a2
<1>1. d.user_stories \in {{}} \cup {{b} : b \in StoryBlock}
  BY DEF Draft
<1>2. \A b \in StoryBlock : b.acceptance_criteria \in {{}} \cup {{a} : a \in AcBlock}
  BY DEF StoryBlock
<1>3. QED
  BY <1>1, <1>2

\* The id of a block is new, or that of a live entry the block cites.
LEMMA StoryOfBlock ==
    ASSUME NEW l, WellFormed(l), NEW b \in StoryBlock, story_accepted(l, b)
    PROVE  /\ us_id(l, b) \in Nat \ {0}
           /\ is_new_story(l, b) => us_id(l, b) \notin DOMAIN l.stories
           /\ ~is_new_story(l, b) =>
                 /\ us_id(l, b) = b.existing_us_id /\ us_id(l, b) \in DOMAIN l.stories
                 /\ l.stories[us_id(l, b)].status \in Live
<1>1. CASE is_new_story(l, b)
  BY <1>1, NewStoryNumber DEF us_id
<1>2. CASE ~is_new_story(l, b)
  <2>1. us_id(l, b) = b.existing_us_id /\ b.existing_us_id \in live_stories(l)
    BY <1>2 DEF us_id, story_accepted
  <2>2. DOMAIN l.stories \subseteq Nat \ {0}
    BY Constants DEF WellFormed, StoryIds
  <2>3. QED
    BY <1>2, <2>1, <2>2 DEF live_stories
<1>3. QED
  BY <1>1, <1>2

\* An accepted criterion block is a new criterion of its story, or a live one of it.
LEMMA CriterionOfBlock ==
    ASSUME NEW l, WellFormed(l), NEW u \in Nat \ {0}, NEW a \in AcBlock, ac_accepted(l, u, a)
    PROVE  /\ ac_id(l, u, a)[1] = u /\ ac_id(l, u, a) # NoCriterion
           /\ is_new_ac(l, a) => ac_id(l, u, a) \notin DOMAIN l.criteria
           /\ ~is_new_ac(l, a) =>
                 /\ ac_id(l, u, a) = a.existing_ac_id /\ ac_id(l, u, a) \in DOMAIN l.criteria
                 /\ l.criteria[ac_id(l, u, a)].status \in Live
<1>1. CASE is_new_ac(l, a)
  <2>1. ac_id(l, u, a) = <<u, next_ac_number(l, u)>>
    BY <1>1 DEF ac_id
  <2>2. QED
    BY <1>1, <2>1, NewCriterionNumber DEF NoCriterion
<1>2. CASE ~is_new_ac(l, a)
  <2>1. /\ ac_id(l, u, a) = a.existing_ac_id /\ a.existing_ac_id \in Children(l, u)
        /\ l.criteria[a.existing_ac_id].status # "retired"
    BY <1>2 DEF ac_id, ac_accepted
  <2>2. a.existing_ac_id \in DOMAIN l.criteria /\ a.existing_ac_id[1] = u
    BY <2>1 DEF Children
  <2>3. l.criteria[a.existing_ac_id] \in Criterion
    BY <2>2 DEF WellFormed
  <2>4. l.criteria[a.existing_ac_id].status \in Live
    BY <2>1, <2>3 DEF Criterion, Status, Live, Built
  <2>5. QED
    BY <1>2, <2>1, <2>2, <2>4 DEF NoCriterion
<1>3. QED
  BY <1>1, <1>2

\* The entries a block becomes: live, parked where the draft parks them, and with
\* the stamps they had.
LEMMA StoryEntry ==
    ASSUME NEW l, WellFormed(l), NEW b \in StoryBlock, story_accepted(l, b)
    PROVE  /\ story_entry(l, b) \in Story
           /\ story_entry(l, b).status \in Live
           /\ story_entry(l, b).status = "deferred" <=> b.deferred = TRUE
           /\ is_new_story(l, b) => story_entry(l, b).resolved = FALSE
           /\ ~is_new_story(l, b) =>
                 story_entry(l, b).resolved = l.stories[us_id(l, b)].resolved
<1>1. b.title \in Titles /\ b.deferred \in BOOLEAN
  BY DEF StoryBlock
<1>2. CASE is_new_story(l, b)
  <2>1. story_entry(l, b) = [status |-> IF b.deferred THEN "deferred" ELSE "active",
                             title |-> b.title, resolved |-> FALSE]
    BY <1>2 DEF story_entry
  <2>2. QED
    BY <1>1, <1>2, <2>1 DEF Story, Status, Live, Built
<1>3. CASE ~is_new_story(l, b)
  <2> DEFINE e == l.stories[b.existing_us_id]
  <2>1. us_id(l, b) = b.existing_us_id /\ e \in Story
    BY <1>3, StoryOfBlock DEF WellFormed
  <2>2. story_entry(l, b) =
           [e EXCEPT !.status = IF b.deferred THEN "deferred" ELSE "revised", !.title = b.title]
    BY <1>3 DEF story_entry
  <2> HIDE DEF e
  <2>3. story_entry(l, b) =
           [status |-> IF b.deferred THEN "deferred" ELSE "revised", title |-> b.title,
            resolved |-> e.resolved]
    BY <2>1, <2>2 DEF Story
  <2>4. e.resolved \in BOOLEAN
    BY <2>1 DEF Story
  <2>5. QED
    BY <1>1, <1>3, <2>1, <2>3, <2>4 DEF Story, Status, Live, Built, e
<1>4. QED
  BY <1>2, <1>3

\* What was delivered for a criterion, and measured.
Stamps(e, f) == e.coded = f.coded /\ e.tested = f.tested /\ e.resolved = f.resolved

AcEntryIs(l, b, a, c, e) ==
    /\ e \in Criterion /\ e.status \in Live
    /\ b.deferred = TRUE => e.status = "deferred"
    /\ is_new_ac(l, a) => e.mark = "none" /\ e.coded = FALSE /\ e.resolved = FALSE
    /\ ~is_new_ac(l, a) => /\ Stamps(l.criteria[c], e)
                           /\ e.mark = "mine" => e.text # l.criteria[c].text

\* What ac_entry writes for an accepted block.
LEMMA AcEntry ==
    ASSUME NEW l, WellFormed(l), NEW u \in Nat \ {0}, NEW b \in StoryBlock,
           NEW a \in AcBlock, ac_accepted(l, u, a)
    PROVE  AcEntryIs(l, b, a, ac_id(l, u, a), ac_entry(l, b, a))
<1> DEFINE c == ac_id(l, u, a)
           e == ac_entry(l, b, a)
<1>1. a.description \in Texts /\ a.deferred \in BOOLEAN /\ b.deferred \in BOOLEAN
  BY DEF AcBlock, StoryBlock
<1>2. CASE is_new_ac(l, a)
  <2>1. e =
           [status |-> IF a.deferred \/ b.deferred THEN "deferred" ELSE "active",
            text |-> a.description, mark |-> "none", coded |-> FALSE, tested |-> FALSE,
            resolved |-> FALSE]
    BY <1>2 DEF ac_entry
  <2> HIDE DEF c, e
  <2>2. e \in Criterion /\ e.status \in Live
    BY <1>1, <2>1 DEF Criterion, Status, Mark, Live, Built
  <2>3. b.deferred = TRUE => e.status = "deferred"
    BY <1>1, <2>1
  <2>4. e.mark = "none" /\ e.coded = FALSE /\ e.resolved = FALSE
    BY <2>1
  <2>5. AcEntryIs(l, b, a, c, e)
    BY <1>2, <2>2, <2>3, <2>4 DEF AcEntryIs
  <2>6. QED
    BY <2>5 DEF c, e
<1>3. CASE ~is_new_ac(l, a)
  <2> DEFINE x == l.criteria[a.existing_ac_id]
             p == IF a.deferred \/ b.deferred THEN "deferred" ELSE "revised"
             k == IF a.description # x.text THEN "mine" ELSE "none"
  <2>1. c = a.existing_ac_id /\ x \in Criterion
    BY <1>3, CriterionOfBlock DEF WellFormed
  <2>2. e = [x EXCEPT !.status = p, !.text = a.description, !.mark = k]
    BY <1>3 DEF ac_entry
  <2>3. p \in Status /\ p \in Live /\ k \in Mark
    BY DEF Status, Mark, Live, Built
  <2>4. b.deferred = TRUE => p = "deferred"
    OBVIOUS
  <2>5. k = "mine" => a.description # x.text
    OBVIOUS
  <2>6. x = l.criteria[c]
    BY <2>1
  <2> HIDE DEF x, p, k, c, e
  <2>7. e =
           [status |-> p, text |-> a.description, mark |-> k,
            coded |-> x.coded, tested |-> x.tested, resolved |-> x.resolved]
    BY <2>1, <2>2 DEF Criterion
  <2>8. x.coded \in BOOLEAN /\ x.tested \in BOOLEAN /\ x.resolved \in BOOLEAN
    BY <2>1 DEF Criterion
  <2>9. e \in Criterion
    BY <1>1, <2>3, <2>7, <2>8 DEF Criterion
  <2>10. e.status = p /\ e.text = a.description /\ e.mark = k /\ Stamps(x, e)
    BY <2>7 DEF Stamps
  <2>11. AcEntryIs(l, b, a, c, e)
    BY <1>3, <2>3, <2>9, <2>10, <2>4, <2>5, <2>6 DEF AcEntryIs
  <2>12. QED
    BY <2>11 DEF c, e
<1>4. QED
  BY <1>2, <1>3

----------------------------------------------------------------------------
(* Merging.                                                                 *)

\* A story of the draft takes this criterion along.
Parks(l, d, c) ==
    /\ l.criteria[c].status \in Built
    /\ \E b \in d.user_stories : us_id(l, b) = c[1] /\ b.deferred = TRUE

\* What merging makes of every entry, without the choices in its definition.
MergedShape(l, d, m) ==
    /\ m = [stories |-> m.stories, criteria |-> m.criteria]
    /\ m.stories = [u \in DOMAIN l.stories \cup touched_us(l, d) |-> m.stories[u]]
    /\ m.criteria = [c \in DOMAIN l.criteria \cup touched_ac(l, d) |-> m.criteria[c]]

MergedByEntry(l, d, m) ==
    /\ \A u \in touched_us(l, d) : \E b \in d.user_stories :
          us_id(l, b) = u /\ m.stories[u] = story_entry(l, b)
    /\ \A u \in DOMAIN l.stories \ touched_us(l, d) : m.stories[u] = l.stories[u]
    /\ \A c \in touched_ac(l, d) : \E b \in d.user_stories : \E a \in b.acceptance_criteria :
          ac_id(l, us_id(l, b), a) = c /\ m.criteria[c] = ac_entry(l, b, a)
    /\ \A c \in DOMAIN l.criteria \ touched_ac(l, d) :
          m.criteria[c] = IF Parks(l, d, c)
                          THEN [l.criteria[c] EXCEPT !.status = "deferred"]
                          ELSE l.criteria[c]

\* Merging writes the blocks' entries and keeps every other.
LEMMA MergedEntries ==
    ASSUME NEW l, WellFormed(l), NEW d \in Draft, accepted(l, d)
    PROVE  MergedShape(l, d, merged(l, d)) /\ MergedByEntry(l, d, merged(l, d))
<1> DEFINE m == merged(l, d)
<1> DEFINE U   == touched_us(l, d)
           C   == touched_ac(l, d)
           us  == [u \in U |-> CHOOSE b \in d.user_stories : us_id(l, b) = u]
           parked == {u \in DOMAIN us : us[u].deferred}
           block(c) == CHOOSE a \in us[c[1]].acceptance_criteria : ac_id(l, c[1], a) = c
           f == [u \in DOMAIN l.stories \cup DOMAIN us |->
                    IF u \in DOMAIN us THEN story_entry(l, us[u]) ELSE l.stories[u]]
           g == [c \in DOMAIN l.criteria \cup C |->
                    IF c \in C THEN ac_entry(l, us[c[1]], block(c))
                    ELSE IF c[1] \in parked /\ l.criteria[c].status \in Built
                         THEN [l.criteria[c] EXCEPT !.status = "deferred"]
                         ELSE l.criteria[c]]
<1>1. m = [stories |-> f, criteria |-> g]
  BY Zenon DEF merged
<1>2. \A u \in U : us[u] \in d.user_stories /\ us_id(l, us[u]) = u
  BY DEF touched_us
<1>3. DOMAIN us = U
  OBVIOUS
<1>4. \A b \in d.user_stories : us_id(l, b) \in U /\ us[us_id(l, b)] = b
  <2>1. \A b \in d.user_stories, b2 \in d.user_stories : b = b2
    BY DraftShape
  <2>2. \A b \in d.user_stories : us_id(l, b) \in U
    BY DEF touched_us
  <2> HIDE DEF us, U
  <2>3. QED
    BY <1>2, <2>1, <2>2
<1>5. ASSUME NEW c \in C
      PROVE  \E b \in d.user_stories : \E a \in b.acceptance_criteria :
                ac_id(l, us_id(l, b), a) = c /\ g[c] = ac_entry(l, b, a)
  <2>1. PICK b \in d.user_stories : \E a \in b.acceptance_criteria : ac_id(l, us_id(l, b), a) = c
    BY DEF touched_ac
  <2>2. PICK a \in b.acceptance_criteria : ac_id(l, us_id(l, b), a) = c
    BY <2>1
  <2>3. b \in StoryBlock /\ a \in AcBlock
    BY DraftShape
  <2>4. story_accepted(l, b) /\ ac_accepted(l, us_id(l, b), a)
    BY DEF accepted
  <2>5. us_id(l, b) \in Nat \ {0}
    BY <2>3, <2>4, StoryOfBlock
  <2>6. c[1] = us_id(l, b)
    BY <2>2, <2>3, <2>4, <2>5, CriterionOfBlock
  <2>7. us[c[1]] = b
    BY <1>4, <2>6
  <2>8. block(c) \in b.acceptance_criteria /\ ac_id(l, us_id(l, b), block(c)) = c
    <3> HIDE DEF us
    <3>1. \E x \in us[c[1]].acceptance_criteria : ac_id(l, c[1], x) = c
      BY <2>2, <2>6, <2>7
    <3>2. QED
      BY <2>6, <2>7, <3>1
  <2>9. g[c] = ac_entry(l, b, block(c))
    <3> HIDE DEF us, block
    <3>1. g[c] = ac_entry(l, us[c[1]], block(c))
      OBVIOUS
    <3>2. QED
      BY <2>7, <3>1
  <2>10. QED
    <3> HIDE DEF g, block
    <3>1. QED
      BY <2>8, <2>9
<1>6. ASSUME NEW c \in DOMAIN l.criteria \ C
      PROVE  g[c] = IF Parks(l, d, c)
                    THEN [l.criteria[c] EXCEPT !.status = "deferred"]
                    ELSE l.criteria[c]
  <2>1. c[1] \in parked <=> \E b \in d.user_stories : us_id(l, b) = c[1] /\ b.deferred = TRUE
    <3>1. \A b \in d.user_stories : b.deferred \in BOOLEAN
      BY DraftShape DEF StoryBlock
    <3> HIDE DEF us, U
    <3>2. QED
      BY <1>2, <1>3, <1>4, <3>1
  <2>2. g[c] = IF c[1] \in parked /\ l.criteria[c].status \in Built
               THEN [l.criteria[c] EXCEPT !.status = "deferred"]
               ELSE l.criteria[c]
    <3> HIDE DEF parked, us, block
    <3>1. QED
      OBVIOUS
  <2> HIDE DEF g, parked, us
  <2>3. QED
    BY <2>1, <2>2 DEF Parks
<1>7. \A u \in U : \E b \in d.user_stories : us_id(l, b) = u /\ f[u] = story_entry(l, b)
  <2>1. \A u \in U : f[u] = story_entry(l, us[u])
    <3> HIDE DEF us
    <3>1. QED
      BY <1>3
  <2> HIDE DEF f, us
  <2>2. QED
    BY <1>2, <2>1
<1>8. \A u \in DOMAIN l.stories \ U : f[u] = l.stories[u]
  <2> HIDE DEF us
  <2>1. QED
    BY <1>3
<1>9. f = [u \in DOMAIN l.stories \cup U |-> f[u]] /\ g = [c \in DOMAIN l.criteria \cup C |-> g[c]]
  <2>1. f = [u \in DOMAIN l.stories \cup U |-> f[u]]
    OBVIOUS
  <2>2. g = [c \in DOMAIN l.criteria \cup C |-> g[c]]
    <3> HIDE DEF parked, us, block
    <3>1. QED
      OBVIOUS
  <2>3. QED
    BY <2>1, <2>2
<1>10. m.stories = f /\ m.criteria = g
  <2> HIDE DEF m, f, g
  <2>1. QED
    BY <1>1
<1> HIDE DEF m, f, g, us
<1>11. MergedShape(l, d, m)
  BY <1>1, <1>9, <1>10 DEF MergedShape
<1>12. MergedByEntry(l, d, m)
  BY <1>5, <1>6, <1>7, <1>8, <1>10 DEF MergedByEntry
<1>13. QED
  BY <1>11, <1>12 DEF m

\* Setting a status changes nothing else of a criterion.
LEMMA StatusEdit ==
    ASSUME NEW e \in Criterion, NEW s \in Status
    PROVE  LET f == [e EXCEPT !.status = s]
           IN  f \in Criterion /\ f.status = s /\ f.text = e.text /\ f.mark = e.mark /\ Stamps(e, f)
BY DEF Criterion, Stamps

\* A story the draft names is live before and after; the others stay as they are.
MergedStories(l, d, m) ==
    /\ DOMAIN m.stories = DOMAIN l.stories \cup touched_us(l, d)
    /\ \A u \in DOMAIN m.stories : m.stories[u] \in Story
    /\ \A u \in touched_us(l, d) :
          /\ m.stories[u].status \in Live
          /\ u \notin DOMAIN l.stories => m.stories[u].resolved = FALSE
    /\ \A u \in DOMAIN l.stories :
          /\ u \in touched_us(l, d) => l.stories[u].status \in Live
          /\ u \notin touched_us(l, d) => m.stories[u] = l.stories[u]
          /\ m.stories[u].resolved = l.stories[u].resolved
    /\ \A b \in d.user_stories :
          m.stories[us_id(l, b)].status = "deferred" <=> b.deferred = TRUE

\* What merging does to a story.
LEMMA MergedStory ==
    ASSUME NEW l, WellFormed(l), NEW d \in Draft, accepted(l, d)
    PROVE  MergedStories(l, d, merged(l, d))
<1> DEFINE m == merged(l, d)
           U == touched_us(l, d)
<1> HIDE DEF m
<1>0. MergedShape(l, d, m) /\ MergedByEntry(l, d, m)
  BY MergedEntries DEF m
<1>1. /\ \A u \in U : \E b \in d.user_stories : us_id(l, b) = u /\ m.stories[u] = story_entry(l, b)
      /\ \A u \in DOMAIN l.stories \ U : m.stories[u] = l.stories[u]
      /\ DOMAIN m.stories = DOMAIN l.stories \cup U
  BY <1>0 DEF MergedShape, MergedByEntry
<1>2. ASSUME NEW u \in U
      PROVE  /\ m.stories[u] \in Story /\ m.stories[u].status \in Live
             /\ u \in DOMAIN l.stories => /\ l.stories[u].status \in Live
                                          /\ m.stories[u].resolved = l.stories[u].resolved
             /\ u \notin DOMAIN l.stories => m.stories[u].resolved = FALSE
             /\ \A b \in d.user_stories :
                   us_id(l, b) = u => (m.stories[u].status = "deferred" <=> b.deferred = TRUE)
  <2>1. PICK b \in d.user_stories : us_id(l, b) = u /\ m.stories[u] = story_entry(l, b)
    BY <1>1
  <2>2. b \in StoryBlock /\ story_accepted(l, b)
    BY DraftShape DEF accepted
  <2>3. b.deferred \in BOOLEAN
    BY <2>2 DEF StoryBlock
  <2>4. m.stories[u] \in Story /\ m.stories[u].status \in Live
    BY <2>1, <2>2, StoryEntry DEF Live, Built
  <2>5. m.stories[u].status = "deferred" <=> b.deferred = TRUE
    BY <2>1, <2>2, <2>3, StoryEntry
  <2>6. /\ u \in DOMAIN l.stories => /\ l.stories[u].status \in Live
                                     /\ m.stories[u].resolved = l.stories[u].resolved
        /\ u \notin DOMAIN l.stories => m.stories[u].resolved = FALSE
    <3>1. CASE is_new_story(l, b)
      <4>1. u \notin DOMAIN l.stories
        BY <2>1, <2>2, <3>1, StoryOfBlock
      <4>2. m.stories[u].resolved = FALSE
        BY <2>1, <2>2, <3>1, StoryEntry
      <4>3. QED
        BY <4>1, <4>2
    <3>2. CASE ~is_new_story(l, b)
      <4>1. u \in DOMAIN l.stories /\ l.stories[u].status \in Live
        BY <2>1, <2>2, <3>2, StoryOfBlock
      <4>2. m.stories[u].resolved = l.stories[u].resolved
        BY <2>1, <2>2, <3>2, StoryEntry
      <4>3. QED
        BY <4>1, <4>2
    <3>3. QED
      BY <3>1, <3>2
  <2>7. \A b2 \in d.user_stories : b2 = b
    BY DraftShape
  <2>8. QED
    BY <2>4, <2>5, <2>6, <2>7
<1>3. \A u \in DOMAIN l.stories : l.stories[u] \in Story
  BY DEF WellFormed
<1>4. \A b \in d.user_stories : us_id(l, b) \in U
  BY DEF touched_us
<1> HIDE DEF U
<1>5. /\ \A u \in DOMAIN m.stories : m.stories[u] \in Story
      /\ \A u \in DOMAIN l.stories : m.stories[u].resolved = l.stories[u].resolved
      /\ \A b \in d.user_stories :
            m.stories[us_id(l, b)].status = "deferred" <=> b.deferred = TRUE
  BY <1>1, <1>2, <1>3, <1>4
<1>6. MergedStories(l, d, m)
  BY <1>1, <1>2, <1>5 DEF MergedStories, U
<1>7. QED
  BY <1>6 DEF m

\* A criterion the draft names is live before and after, and bears a mark exactly
\* if its wording differs; the others are parked with their story or stay.
MergedCriteria(l, d, m) ==
    /\ DOMAIN m.criteria = DOMAIN l.criteria \cup touched_ac(l, d)
    /\ \A c \in DOMAIN m.criteria : m.criteria[c] \in Criterion
    /\ \A c \in touched_ac(l, d) :
          /\ c[1] \in touched_us(l, d) /\ m.criteria[c].status \in Live
          /\ m.stories[c[1]].status = "deferred" => m.criteria[c].status = "deferred"
          /\ c \notin DOMAIN l.criteria => /\ m.criteria[c].mark = "none"
                                           /\ m.criteria[c].coded = FALSE
                                           /\ m.criteria[c].resolved = FALSE
          /\ c \in DOMAIN l.criteria =>
                /\ Stamps(l.criteria[c], m.criteria[c]) /\ l.criteria[c].status \in Live
                /\ m.criteria[c].mark = "mine" => m.criteria[c].text # l.criteria[c].text
    /\ \A c \in DOMAIN l.criteria \ touched_ac(l, d) :
          /\ Stamps(l.criteria[c], m.criteria[c])
          /\ m.criteria[c].text = l.criteria[c].text /\ m.criteria[c].mark = l.criteria[c].mark
          /\ \/ m.criteria[c].status = l.criteria[c].status
             \/ l.criteria[c].status \in Built /\ m.criteria[c].status = "deferred"
          /\ c[1] \in touched_us(l, d) /\ m.stories[c[1]].status = "deferred"
                => m.criteria[c].status \notin Built

\* What merging does to a criterion.
LEMMA MergedCriterion ==
    ASSUME NEW l, WellFormed(l), NEW d \in Draft, accepted(l, d)
    PROVE  MergedCriteria(l, d, merged(l, d))
<1> DEFINE m == merged(l, d)
           C == touched_ac(l, d)
<1> HIDE DEF m
<1>0. MergedShape(l, d, m) /\ MergedByEntry(l, d, m) /\ MergedStories(l, d, m)
  BY MergedEntries, MergedStory DEF m
<1>1. /\ \A c \in C : \E b \in d.user_stories : \E a \in b.acceptance_criteria :
            ac_id(l, us_id(l, b), a) = c /\ m.criteria[c] = ac_entry(l, b, a)
      /\ \A c \in DOMAIN l.criteria \ C :
            m.criteria[c] = IF Parks(l, d, c)
                            THEN [l.criteria[c] EXCEPT !.status = "deferred"]
                            ELSE l.criteria[c]
      /\ DOMAIN m.criteria = DOMAIN l.criteria \cup C
  BY <1>0 DEF MergedShape, MergedByEntry
<1>2. \A b \in d.user_stories :
          /\ m.stories[us_id(l, b)].status = "deferred" <=> b.deferred = TRUE
          /\ b \in StoryBlock /\ b.deferred \in BOOLEAN /\ story_accepted(l, b)
          /\ us_id(l, b) \in Nat \ {0} /\ us_id(l, b) \in touched_us(l, d)
  <2>1. \A b \in d.user_stories :
            b \in StoryBlock /\ b.deferred \in BOOLEAN /\ story_accepted(l, b)
    BY DraftShape DEF accepted, StoryBlock
  <2>2. \A b \in d.user_stories : m.stories[us_id(l, b)].status = "deferred" <=> b.deferred = TRUE
    BY <1>0 DEF MergedStories
  <2>3. \A b \in d.user_stories : us_id(l, b) \in Nat \ {0}
    BY <2>1, StoryOfBlock
  <2>4. \A b \in d.user_stories : us_id(l, b) \in touched_us(l, d)
    BY DEF touched_us
  <2>5. QED
    BY <2>1, <2>2, <2>3, <2>4
<1>3. ASSUME NEW c \in C
      PROVE  /\ m.criteria[c] \in Criterion
             /\ c[1] \in touched_us(l, d) /\ m.criteria[c].status \in Live
             /\ m.stories[c[1]].status = "deferred" => m.criteria[c].status = "deferred"
             /\ c \notin DOMAIN l.criteria => /\ m.criteria[c].mark = "none"
                                              /\ m.criteria[c].coded = FALSE
                                              /\ m.criteria[c].resolved = FALSE
             /\ c \in DOMAIN l.criteria =>
                   /\ Stamps(l.criteria[c], m.criteria[c]) /\ l.criteria[c].status \in Live
                   /\ m.criteria[c].mark = "mine" => m.criteria[c].text # l.criteria[c].text
  <2>1. PICK b \in d.user_stories : \E a \in b.acceptance_criteria :
            ac_id(l, us_id(l, b), a) = c /\ m.criteria[c] = ac_entry(l, b, a)
    BY <1>1
  <2>2. PICK a \in b.acceptance_criteria :
            ac_id(l, us_id(l, b), a) = c /\ m.criteria[c] = ac_entry(l, b, a)
    BY <2>1
  <2>3. a \in AcBlock /\ ac_accepted(l, us_id(l, b), a)
    BY <1>2, DraftShape DEF accepted
  <2> DEFINE u == us_id(l, b)
             e == m.criteria[c]
  <2>4. u \in Nat \ {0} /\ b \in StoryBlock
    BY <1>2
  <2>5. AcEntryIs(l, b, a, c, e)
    <3>1. ac_id(l, u, a) = c /\ ac_accepted(l, u, a) /\ e = ac_entry(l, b, a)
      BY <2>2, <2>3
    <3> HIDE DEF u, e
    <3>2. QED
      BY <2>3, <2>4, <3>1, AcEntry
  <2>6. /\ c[1] = u
        /\ is_new_ac(l, a) => c \notin DOMAIN l.criteria
        /\ ~is_new_ac(l, a) => c \in DOMAIN l.criteria /\ l.criteria[c].status \in Live
    BY <2>2, <2>3, <2>4, CriterionOfBlock
  <2>7. /\ u \in touched_us(l, d)
        /\ m.stories[u].status = "deferred" <=> b.deferred = TRUE
    BY <1>2
  <2> HIDE DEF u
  <2>8. e.status \in Live
    BY <2>5 DEF AcEntryIs
  <2>9. m.stories[c[1]].status = "deferred" => e.status = "deferred"
    BY <2>5, <2>6, <2>7 DEF AcEntryIs
  <2>10. QED
    BY <2>5, <2>6, <2>7, <2>8, <2>9 DEF AcEntryIs
<1>4. ASSUME NEW c \in DOMAIN l.criteria \ C
      PROVE  /\ m.criteria[c] \in Criterion /\ Stamps(l.criteria[c], m.criteria[c])
             /\ m.criteria[c].text = l.criteria[c].text /\ m.criteria[c].mark = l.criteria[c].mark
             /\ \/ m.criteria[c].status = l.criteria[c].status
                \/ l.criteria[c].status \in Built /\ m.criteria[c].status = "deferred"
             /\ c[1] \in touched_us(l, d) /\ m.stories[c[1]].status = "deferred"
                   => m.criteria[c].status \notin Built
  <2>1. l.criteria[c] \in Criterion /\ "deferred" \in Status
    BY DEF WellFormed, Status
  <2>2. CASE Parks(l, d, c)
    <3>1. m.criteria[c] = [l.criteria[c] EXCEPT !.status = "deferred"]
      BY <1>1, <2>2
    <3>2. l.criteria[c].status \in Built
      BY <2>2 DEF Parks
    <3>3. QED
      BY <2>1, <3>1, <3>2, StatusEdit DEF Built
  <2>3. CASE ~Parks(l, d, c)
    <3>1. m.criteria[c] = l.criteria[c]
      BY <1>1, <2>3
    <3>2. ASSUME c[1] \in touched_us(l, d), m.stories[c[1]].status = "deferred"
          PROVE  l.criteria[c].status \notin Built
      <4>1. PICK b \in d.user_stories : us_id(l, b) = c[1]
        BY <3>2 DEF touched_us
      <4>2. b.deferred = TRUE
        BY <1>2, <3>2, <4>1
      <4>3. QED
        BY <2>3, <4>1, <4>2 DEF Parks
    <3>3. QED
      BY <2>1, <3>1, <3>2 DEF Stamps
  <2>4. QED
    BY <2>2, <2>3
<1> HIDE DEF C
<1>5. \A c \in DOMAIN m.criteria : m.criteria[c] \in Criterion
  BY <1>1, <1>3, <1>4
<1>6. MergedCriteria(l, d, m)
  BY <1>1, <1>3, <1>4, <1>5 DEF MergedCriteria, C
<1>7. QED
  BY <1>6 DEF m

\* Merging keeps a ledger well formed.
LEMMA MergedWellFormed ==
    ASSUME NEW l, WellFormed(l), NEW d \in Draft, accepted(l, d)
    PROVE  WellFormed(merged(l, d))
<1> DEFINE m == merged(l, d)
<1> HIDE DEF m
<1>1. MergedShape(l, d, m) /\ MergedStories(l, d, m) /\ MergedCriteria(l, d, m)
  BY MergedEntries, MergedStory, MergedCriterion DEF m
<1>2. m = [stories |-> m.stories, criteria |-> m.criteria]
  BY <1>1 DEF MergedShape
<1>3. m.stories \in [DOMAIN m.stories -> Story] /\ DOMAIN m.stories \subseteq StoryIds
  <2>1. m.stories = [u \in DOMAIN l.stories \cup touched_us(l, d) |-> m.stories[u]]
    BY <1>1 DEF MergedShape
  <2>2. DOMAIN m.stories \subseteq StoryIds /\ \A u \in DOMAIN m.stories : m.stories[u] \in Story
    BY <1>1 DEF MergedStories, WellFormed, accepted
  <2>3. QED
    BY <2>1, <2>2
<1>4. m.criteria \in [DOMAIN m.criteria -> Criterion] /\ DOMAIN m.criteria \subseteq CriterionIds
  <2>1. m.criteria = [c \in DOMAIN l.criteria \cup touched_ac(l, d) |-> m.criteria[c]]
    BY <1>1 DEF MergedShape
  <2>2. DOMAIN m.criteria \subseteq CriterionIds /\ \A c \in DOMAIN m.criteria : m.criteria[c] \in Criterion
    BY <1>1 DEF MergedCriteria, WellFormed, accepted
  <2>3. QED
    BY <2>1, <2>2
<1>5. \A c \in DOMAIN m.criteria : c[1] \in DOMAIN m.stories
  BY <1>1 DEF MergedStories, MergedCriteria, WellFormed
<1>6. WellFormed(m)
  BY <1>2, <1>3, <1>4, <1>5 DEF WellFormed
<1>7. QED
  BY <1>6 DEF m

\* A parked story's criteria are parked with it, those the draft does not repeat too.
LEMMA MergedTogether ==
    ASSUME NEW l, WellFormed(l), Together(l), NEW d \in Draft, accepted(l, d)
    PROVE  Together(merged(l, d))
<1> DEFINE m == merged(l, d)
<1> HIDE DEF m
<1>1. MergedStories(l, d, m) /\ MergedCriteria(l, d, m)
  BY MergedStory, MergedCriterion DEF m
<1>2. "retired" \notin Live /\ "deferred" \notin Built
  BY DEF Live, Built
<1>3. ASSUME NEW c \in DOMAIN m.criteria
      PROVE  /\ m.stories[c[1]].status = "retired" => m.criteria[c].status = "retired"
             /\ m.stories[c[1]].status = "deferred" => m.criteria[c].status \notin Built
  <2>1. CASE c \in touched_ac(l, d)
    <3>1. c[1] \in touched_us(l, d)
      BY <1>1, <2>1 DEF MergedCriteria
    <3>2. m.stories[c[1]].status \in Live
      BY <1>1, <3>1 DEF MergedStories
    <3>3. m.stories[c[1]].status = "deferred" => m.criteria[c].status = "deferred"
      BY <1>1, <2>1 DEF MergedCriteria
    <3>4. QED
      BY <1>2, <3>2, <3>3
  <2>2. CASE c \notin touched_ac(l, d)
    <3>1. c \in DOMAIN l.criteria /\ c[1] \in DOMAIN l.stories
      BY <1>1, <2>2 DEF MergedCriteria, WellFormed
    <3>2. CASE c[1] \in touched_us(l, d)
      <4>1. m.stories[c[1]].status \in Live
        BY <1>1, <3>2 DEF MergedStories
      <4>2. m.stories[c[1]].status = "deferred" => m.criteria[c].status \notin Built
        BY <1>1, <2>2, <3>1, <3>2 DEF MergedCriteria
      <4>3. QED
        BY <1>2, <4>1, <4>2
    <3>3. CASE c[1] \notin touched_us(l, d)
      <4>1. m.stories[c[1]] = l.stories[c[1]]
        BY <1>1, <3>1, <3>3 DEF MergedStories
      <4>2. \/ m.criteria[c].status = l.criteria[c].status
            \/ l.criteria[c].status \in Built /\ m.criteria[c].status = "deferred"
        BY <1>1, <2>2, <3>1 DEF MergedCriteria
      <4>3. /\ l.stories[c[1]].status = "retired" => l.criteria[c].status = "retired"
            /\ l.stories[c[1]].status = "deferred" => l.criteria[c].status \notin Built
        BY <3>1 DEF Together
      <4>4. "retired" \notin Built
        BY DEF Built
      <4>5. QED
        BY <1>2, <4>1, <4>2, <4>3, <4>4
    <3>4. QED
      BY <3>2, <3>3
  <2>3. QED
    BY <2>1, <2>2
<1>4. Together(m)
  BY <1>3 DEF Together
<1>5. QED
  BY <1>4 DEF m

\* Merging gives no stamp and takes none.
LEMMA MergedMeasured ==
    ASSUME NEW l, WellFormed(l), Measured(l), NEW d \in Draft, accepted(l, d)
    PROVE  Measured(merged(l, d))
<1> DEFINE m == merged(l, d)
<1> HIDE DEF m
<1>1. MergedStories(l, d, m) /\ MergedCriteria(l, d, m)
  BY MergedStory, MergedCriterion DEF m
<1>2. \A c \in DOMAIN l.criteria : c \in DOMAIN m.criteria /\ Stamps(l.criteria[c], m.criteria[c])
  BY <1>1 DEF MergedCriteria
<1>3. \A c \in DOMAIN m.criteria \ DOMAIN l.criteria : m.criteria[c].resolved = FALSE
  BY <1>1 DEF MergedCriteria
<1>4. \A c \in DOMAIN m.criteria :
          m.criteria[c].resolved => m.criteria[c].coded /\ m.criteria[c].tested
  BY <1>2, <1>3 DEF Measured, Stamps
<1>5. ASSUME NEW u \in DOMAIN m.stories, m.stories[u].resolved
      PROVE  \E c \in Children(m, u) : m.criteria[c].resolved
  <2>1. u \in DOMAIN l.stories /\ m.stories[u].resolved = l.stories[u].resolved
    BY <1>1, <1>5 DEF MergedStories
  <2>2. PICK c \in Children(l, u) : l.criteria[c].resolved
    BY <1>5, <2>1 DEF Measured
  <2>3. QED
    BY <1>2, <2>2 DEF Children, Stamps
<1>6. Measured(m)
  BY <1>4, <1>5 DEF Measured
<1>7. QED
  BY <1>6 DEF m

----------------------------------------------------------------------------
(* Retiring.                                                                *)

\* Setting a status changes nothing else of a story.
LEMMA StoryStatusEdit ==
    ASSUME NEW e \in Story, NEW s \in Status
    PROVE  LET f == [e EXCEPT !.status = s]
           IN  f \in Story /\ f.status = s /\ f.title = e.title /\ f.resolved = e.resolved
BY DEF Story

\* Entries change their status only, those named and the criteria of stories that
\* were not retired before.
Retires(l, us, acs, m) ==
    /\ DOMAIN m.stories = DOMAIN l.stories /\ DOMAIN m.criteria = DOMAIN l.criteria
    /\ \A u \in DOMAIN l.stories :
          /\ m.stories[u].title = l.stories[u].title
          /\ m.stories[u].resolved = l.stories[u].resolved
          /\ u \in us => m.stories[u].status = "retired"
          /\ u \notin us => m.stories[u].status = l.stories[u].status
    /\ \A c \in DOMAIN l.criteria :
          /\ Stamps(l.criteria[c], m.criteria[c])
          /\ m.criteria[c].text = l.criteria[c].text /\ m.criteria[c].mark = l.criteria[c].mark
          /\ \/ m.criteria[c].status = "retired" /\ (c[1] \in us \/ c \in acs)
             \/ /\ m.criteria[c].status = l.criteria[c].status /\ c \notin acs
                /\ c[1] \in us => l.stories[c[1]].status = "retired"

\* Retiring writes "retired" where it was asked to, and nothing anywhere else.
LEMMA RetiredEntries ==
    ASSUME NEW l, WellFormed(l), NEW us, NEW acs
    PROVE  WellFormed(retired(l, us, acs)) /\ Retires(l, us, acs, retired(l, us, acs))
<1> DEFINE gone == {u \in us : l.stories[u].status # "retired"}
           f == [u \in DOMAIN l.stories |->
                    IF u \in us THEN [l.stories[u] EXCEPT !.status = "retired"] ELSE l.stories[u]]
           g == [c \in DOMAIN l.criteria |->
                    IF c[1] \in gone \/ c \in acs
                    THEN [l.criteria[c] EXCEPT !.status = "retired"] ELSE l.criteria[c]]
           m == retired(l, us, acs)
<1>1. m = [stories |-> f, criteria |-> g]
  BY Zenon DEF retired
<1>2. "retired" \in Status
  BY DEF Status
<1>3. ASSUME NEW u \in DOMAIN l.stories
      PROVE  /\ f[u] \in Story /\ f[u].title = l.stories[u].title
             /\ f[u].resolved = l.stories[u].resolved
             /\ u \in us => f[u].status = "retired"
             /\ u \notin us => f[u].status = l.stories[u].status
  <2>1. l.stories[u] \in Story
    BY DEF WellFormed
  <2>2. CASE u \in us
    BY <1>2, <2>1, <2>2, StoryStatusEdit
  <2>3. CASE u \notin us
    BY <2>1, <2>3
  <2>4. QED
    BY <2>2, <2>3
<1>4. ASSUME NEW c \in DOMAIN l.criteria
      PROVE  /\ g[c] \in Criterion /\ Stamps(l.criteria[c], g[c])
             /\ g[c].text = l.criteria[c].text /\ g[c].mark = l.criteria[c].mark
             /\ \/ g[c].status = "retired" /\ (c[1] \in us \/ c \in acs)
                \/ /\ g[c].status = l.criteria[c].status /\ c \notin acs
                   /\ c[1] \in us => l.stories[c[1]].status = "retired"
  <2>1. l.criteria[c] \in Criterion
    BY DEF WellFormed
  <2>2. CASE c[1] \in gone \/ c \in acs
    <3>1. g[c] = [l.criteria[c] EXCEPT !.status = "retired"]
      BY <2>2
    <3>2. c[1] \in us \/ c \in acs
      BY <2>2
    <3> HIDE DEF g, gone
    <3>3. QED
      BY <1>2, <2>1, <3>1, <3>2, StatusEdit
  <2>3. CASE ~(c[1] \in gone \/ c \in acs)
    <3>1. g[c] = l.criteria[c]
      BY <2>3
    <3>2. c \notin acs /\ (c[1] \in us => l.stories[c[1]].status = "retired")
      BY <2>3
    <3> HIDE DEF g, gone
    <3>3. QED
      BY <2>1, <3>1, <3>2 DEF Stamps
  <2>4. QED
    BY <2>2, <2>3
<1>5. /\ f \in [DOMAIN l.stories -> Story] /\ DOMAIN f = DOMAIN l.stories
      /\ g \in [DOMAIN l.criteria -> Criterion] /\ DOMAIN g = DOMAIN l.criteria
  <2>1. f = [u \in DOMAIN l.stories |-> f[u]] /\ g = [c \in DOMAIN l.criteria |-> g[c]]
    OBVIOUS
  <2> HIDE DEF f, g
  <2>2. QED
    BY <1>3, <1>4, <2>1
<1> HIDE DEF m, f, g, gone
<1>6. m.stories = f /\ m.criteria = g
  BY <1>1
<1>7. WellFormed(m)
  BY <1>1, <1>5, <1>6 DEF WellFormed
<1>8. Retires(l, us, acs, m)
  BY <1>3, <1>4, <1>5, <1>6 DEF Retires
<1>9. QED
  BY <1>7, <1>8 DEF m

\* A retired story leaves nothing live behind, and no stamp moves.
LEMMA RetiredKeeps ==
    ASSUME NEW l, WellFormed(l), NEW us, NEW acs
    PROVE  /\ Together(l) => Together(retired(l, us, acs))
           /\ Measured(l) => Measured(retired(l, us, acs))
<1> DEFINE m == retired(l, us, acs)
<1> HIDE DEF m
<1>1. Retires(l, us, acs, m)
  BY RetiredEntries DEF m
<1>2. "retired" \notin Built
  BY DEF Built
<1>3. ASSUME Together(l), NEW c \in DOMAIN m.criteria
      PROVE  /\ m.stories[c[1]].status = "retired" => m.criteria[c].status = "retired"
             /\ m.stories[c[1]].status = "deferred" => m.criteria[c].status \notin Built
  <2>1. c \in DOMAIN l.criteria /\ c[1] \in DOMAIN l.stories
    BY <1>1 DEF Retires, WellFormed
  <2>2. /\ l.stories[c[1]].status = "retired" => l.criteria[c].status = "retired"
        /\ l.stories[c[1]].status = "deferred" => l.criteria[c].status \notin Built
    BY <1>3, <2>1 DEF Together
  <2>3. /\ c[1] \in us => m.stories[c[1]].status = "retired"
        /\ c[1] \notin us => m.stories[c[1]].status = l.stories[c[1]].status
    BY <1>1, <2>1 DEF Retires
  <2>4. \/ m.criteria[c].status = "retired"
        \/ /\ m.criteria[c].status = l.criteria[c].status
           /\ c[1] \in us => l.stories[c[1]].status = "retired"
    BY <1>1, <2>1 DEF Retires
  <2>5. QED
    BY <1>2, <2>2, <2>3, <2>4
<1>4. Together(l) => Together(m)
  BY <1>3 DEF Together
<1>5. \A u : Children(m, u) = Children(l, u)
  BY <1>1 DEF Retires, Children
<1>6. \A c \in DOMAIN l.criteria : Stamps(l.criteria[c], m.criteria[c])
  BY <1>1 DEF Retires
<1>7. \A u \in DOMAIN l.stories : m.stories[u].resolved = l.stories[u].resolved
  BY <1>1 DEF Retires
<1>8. DOMAIN m.stories = DOMAIN l.stories /\ DOMAIN m.criteria = DOMAIN l.criteria
  BY <1>1 DEF Retires
<1>9. Measured(l) => Measured(m)
  BY <1>5, <1>6, <1>7, <1>8 DEF Measured, Children, Stamps
<1>10. QED
  BY <1>4, <1>9 DEF m

----------------------------------------------------------------------------
(* A lap.                                                                   *)

\* What a draft names does not depend on marks, nor does whether it passes.
LEMMA RemarksAccept ==
    ASSUME NEW l, NEW m, Remarks(l, m), NEW d
    PROVE  /\ touched_us(m, d) = touched_us(l, d) /\ touched_ac(m, d) = touched_ac(l, d)
           /\ accepted(l, d) => accepted(m, d)
<1>1. /\ m.stories = l.stories /\ DOMAIN m.criteria = DOMAIN l.criteria
      /\ \A c \in DOMAIN l.criteria : /\ m.criteria[c].status = l.criteria[c].status
                                      /\ m.criteria[c].text = l.criteria[c].text
  BY DEF Remarks, Same
<1>2. \A u : Children(m, u) = Children(l, u)
  BY <1>1 DEF Children
<1>3. ledger_was_empty(m) = ledger_was_empty(l) /\ live_stories(m) = live_stories(l)
  BY <1>1 DEF ledger_was_empty, live_stories
<1>4. /\ \A b : is_new_story(m, b) = is_new_story(l, b)
      /\ \A a : is_new_ac(m, a) = is_new_ac(l, a)
  BY <1>3 DEF is_new_story, is_new_ac
<1>5. \A b : us_id(m, b) = us_id(l, b)
  BY <1>1, <1>4 DEF us_id, next_us_number
<1>6. \A u, a : ac_id(m, u, a) = ac_id(l, u, a)
  BY <1>2, <1>4 DEF ac_id, next_ac_number
<1>7. touched_us(m, d) = touched_us(l, d) /\ touched_ac(m, d) = touched_ac(l, d)
  BY <1>5, <1>6 DEF touched_us, touched_ac
<1>8. \A b : story_accepted(l, b) => story_accepted(m, b)
  BY <1>1, <1>3, <1>4 DEF story_accepted, duplicate_story
<1>9. \A u, a : ac_accepted(l, u, a) => ac_accepted(m, u, a)
  <2> TAKE u, a
  <2>1. duplicate_ac(m, a) => duplicate_ac(l, a)
    BY <1>1 DEF duplicate_ac
  <2>2. CASE is_new_ac(l, a)
    BY <1>3, <1>4, <2>1, <2>2 DEF ac_accepted
  <2>3. CASE ~is_new_ac(l, a)
    BY <1>1, <1>2, <1>4, <2>3 DEF ac_accepted, Children
  <2>4. QED
    BY <2>2, <2>3
<1>10. ASSUME accepted(l, d) PROVE accepted(m, d)
  <2>1. \A b \in d.user_stories :
            /\ story_accepted(m, b)
            /\ \A a \in b.acceptance_criteria : ac_accepted(m, us_id(m, b), a)
    BY <1>5, <1>8, <1>9, <1>10 DEF accepted
  <2>2. \A c \in d.bug_affected_ac_ids :
            /\ c \notin d.retired_ac_ids
            /\ c \in touched_ac(m, d) \/
                  /\ c \in DOMAIN m.criteria
                  /\ m.criteria[c].status \in Live
                  /\ c[1] \notin d.retired_us_ids
    BY <1>1, <1>7, <1>10 DEF accepted
  <2>3. QED
    BY <1>1, <1>7, <1>10, <2>1, <2>2 DEF accepted
<1>11. QED
  BY <1>7, <1>10

\* What a lap makes of the entries.
Synced(l, d, m) ==
    /\ DOMAIN m.stories = DOMAIN l.stories \cup touched_us(l, d)
    /\ DOMAIN m.criteria = DOMAIN l.criteria \cup touched_ac(l, d)
    /\ \A u \in touched_us(l, d) : m.stories[u].status \in Live
    /\ \A u \in DOMAIN l.stories :
          l.stories[u].status = "retired" => /\ m.stories[u].status = "retired"
                                             /\ m.stories[u].title = l.stories[u].title
    /\ \A c \in touched_ac(l, d) :
          c[1] \in touched_us(l, d) /\ m.criteria[c].status \in Live
    /\ \A c \in DOMAIN l.criteria :
          /\ Stamps(l.criteria[c], m.criteria[c])
          /\ l.criteria[c].status = "retired" => /\ m.criteria[c].status = "retired"
                                                 /\ m.criteria[c].text = l.criteria[c].text
          /\ l.criteria[c].status \in Live /\ c \notin d.retired_ac_ids
                /\ c[1] \notin d.retired_us_ids => m.criteria[c].status \in Live
    /\ \A c \in DOMAIN m.criteria :
          m.criteria[c].mark = "mine" =>
              \/ c \in d.bug_affected_ac_ids
              \/ c \in DOMAIN l.criteria /\ m.criteria[c].text # l.criteria[c].text
              \/ c \in DOMAIN l.criteria /\ l.criteria[c].mark = "mine"

\* The whole of sync_ledger, in the two facts the rest needs: what it does to every
\* entry, and that it keeps stories and criteria together and measurements honest.
LEMMA SyncEntries ==
    ASSUME NEW l, WellFormed(l), NEW d \in Draft, accepted(l, d)
    PROVE  /\ WellFormed(sync_ledger(l, d)) /\ Synced(l, d, sync_ledger(l, d))
           /\ Together(l) => Together(sync_ledger(l, d))
           /\ Measured(l) => Measured(sync_ledger(l, d))
<1> DEFINE a == swept(l)
           b == merged(a, d)
           r == retired(b, d.retired_us_ids, d.retired_ac_ids)
           m == reopened(r, d.bug_affected_ac_ids)
<1>1. m = sync_ledger(l, d)
  BY DEF sync_ledger
<1> HIDE DEF a, b, r, m
<1>2. /\ Remarks(l, a) /\ WellFormed(a)
      /\ \A c \in DOMAIN l.criteria : a.criteria[c].mark = "mine" <=> l.criteria[c].mark = "mine"
  BY SweptRemarks DEF a, Remarks
<1>3. /\ accepted(a, d)
      /\ touched_us(a, d) = touched_us(l, d) /\ touched_ac(a, d) = touched_ac(l, d)
  BY <1>2, RemarksAccept
<1>4. MergedStories(a, d, b) /\ MergedCriteria(a, d, b) /\ WellFormed(b)
  BY <1>2, <1>3, MergedStory, MergedCriterion, MergedWellFormed DEF b
<1>5. Retires(b, d.retired_us_ids, d.retired_ac_ids, r) /\ WellFormed(r)
  BY <1>4, RetiredEntries DEF r
<1>6. /\ Remarks(r, m) /\ WellFormed(m)
      /\ \A c \in DOMAIN r.criteria :
            m.criteria[c].mark = "mine" => c \in d.bug_affected_ac_ids \/ r.criteria[c].mark = "mine"
  BY <1>5, ReopenedRemarks DEF m, Remarks
<1>7. /\ Together(l) => Together(m)
      /\ Measured(l) => Measured(m)
  <2>1. (Together(l) => Together(a)) /\ (Measured(l) => Measured(a))
    BY <1>2, RemarksKeep
  <2>2. (Together(a) => Together(b)) /\ (Measured(a) => Measured(b))
    BY <1>2, <1>3, MergedTogether, MergedMeasured DEF b
  <2>3. (Together(b) => Together(r)) /\ (Measured(b) => Measured(r))
    BY <1>4, RetiredKeeps DEF r
  <2>4. (Together(r) => Together(m)) /\ (Measured(r) => Measured(m))
    BY <1>5, <1>6, RemarksKeep
  <2>5. QED
    BY <2>1, <2>2, <2>3, <2>4
<1>8. /\ a.stories = l.stories /\ DOMAIN a.criteria = DOMAIN l.criteria
      /\ \A c \in DOMAIN l.criteria :
            /\ a.criteria[c].status = l.criteria[c].status
            /\ a.criteria[c].text = l.criteria[c].text
            /\ Stamps(l.criteria[c], a.criteria[c])
  BY <1>2 DEF Remarks, Same, Stamps
<1>9. /\ m.stories = r.stories /\ DOMAIN m.criteria = DOMAIN r.criteria
      /\ \A c \in DOMAIN r.criteria :
            /\ m.criteria[c].status = r.criteria[c].status
            /\ m.criteria[c].text = r.criteria[c].text
            /\ Stamps(r.criteria[c], m.criteria[c])
  BY <1>6 DEF Remarks, Same, Stamps
<1>10. /\ DOMAIN m.stories = DOMAIN l.stories \cup touched_us(l, d)
       /\ DOMAIN m.criteria = DOMAIN l.criteria \cup touched_ac(l, d)
       /\ DOMAIN b.criteria = DOMAIN m.criteria /\ DOMAIN b.stories = DOMAIN m.stories
  BY <1>3, <1>4, <1>5, <1>8, <1>9 DEF MergedStories, MergedCriteria, Retires
<1>11. /\ touched_us(l, d) \cap d.retired_us_ids = {}
       /\ touched_ac(l, d) \cap d.retired_ac_ids = {}
       /\ \A c \in touched_ac(l, d) : c[1] \in touched_us(l, d)
  BY <1>3, <1>4 DEF accepted, MergedCriteria
<1>12. "retired" \notin Live /\ "retired" \notin Built /\ "deferred" \in Live
  BY DEF Live, Built
<1>13. \A u \in touched_us(l, d) : m.stories[u].status \in Live
  <2> TAKE u \in touched_us(l, d)
  <2>1. b.stories[u].status \in Live /\ u \in DOMAIN b.stories
    BY <1>3, <1>4 DEF MergedStories
  <2>2. r.stories[u].status = b.stories[u].status
    BY <1>5, <1>11, <2>1 DEF Retires
  <2>3. QED
    BY <1>9, <2>1, <2>2
<1>14. ASSUME NEW u \in DOMAIN l.stories, l.stories[u].status = "retired"
       PROVE  m.stories[u].status = "retired" /\ m.stories[u].title = l.stories[u].title
  <2>1. u \notin touched_us(l, d)
    BY <1>3, <1>4, <1>8, <1>12, <1>14 DEF MergedStories
  <2>2. b.stories[u] = l.stories[u] /\ u \in DOMAIN b.stories
    BY <1>3, <1>4, <1>8, <2>1 DEF MergedStories
  <2>3. r.stories[u].status = "retired" /\ r.stories[u].title = b.stories[u].title
    BY <1>5, <1>14, <2>2 DEF Retires
  <2>4. QED
    BY <1>9, <2>2, <2>3
<1>15. \A c \in touched_ac(l, d) : m.criteria[c].status \in Live
  <2> TAKE c \in touched_ac(l, d)
  <2>1. b.criteria[c].status \in Live /\ c \in DOMAIN b.criteria
    BY <1>3, <1>4 DEF MergedCriteria
  <2>2. r.criteria[c].status = b.criteria[c].status
    BY <1>5, <1>11, <2>1 DEF Retires
  <2>3. c \in DOMAIN r.criteria
    BY <1>5, <2>1 DEF Retires
  <2>4. QED
    BY <1>9, <2>1, <2>2, <2>3
<1>16. ASSUME NEW c \in DOMAIN l.criteria
       PROVE  /\ Stamps(l.criteria[c], m.criteria[c])
              /\ l.criteria[c].status = "retired" =>
                    /\ m.criteria[c].status = "retired"
                    /\ m.criteria[c].text = l.criteria[c].text
              /\ l.criteria[c].status \in Live /\ c \notin d.retired_ac_ids
                    /\ c[1] \notin d.retired_us_ids => m.criteria[c].status \in Live
  <2>1. c \in DOMAIN b.criteria /\ c \in DOMAIN r.criteria
    BY <1>9, <1>10
  <2>2. Stamps(a.criteria[c], b.criteria[c])
    BY <1>4, <1>8 DEF MergedCriteria
  <2>3. Stamps(b.criteria[c], r.criteria[c])
    BY <1>5, <2>1 DEF Retires
  <2>4. Stamps(l.criteria[c], m.criteria[c])
    BY <1>8, <1>9, <2>1, <2>2, <2>3 DEF Stamps
  <2>5. ASSUME l.criteria[c].status = "retired"
        PROVE  m.criteria[c].status = "retired" /\ m.criteria[c].text = l.criteria[c].text
    <3>1. a.criteria[c].status = "retired"
      BY <1>8, <2>5
    <3>2. c \notin touched_ac(a, d)
      BY <1>4, <1>8, <1>12, <3>1 DEF MergedCriteria
    <3>3. b.criteria[c].status = "retired" /\ b.criteria[c].text = a.criteria[c].text
      BY <1>4, <1>8, <1>12, <3>1, <3>2 DEF MergedCriteria
    <3>4. r.criteria[c].status = "retired" /\ r.criteria[c].text = b.criteria[c].text
      BY <1>5, <2>1, <3>3 DEF Retires
    <3>5. QED
      BY <1>8, <1>9, <2>1, <3>3, <3>4
  <2>6. ASSUME l.criteria[c].status \in Live, c \notin d.retired_ac_ids,
               c[1] \notin d.retired_us_ids
        PROVE  m.criteria[c].status \in Live
    <3>1. CASE c \in touched_ac(l, d)
      BY <1>15, <3>1
    <3>2. CASE c \notin touched_ac(l, d)
      <4>1. b.criteria[c].status = l.criteria[c].status \/ b.criteria[c].status = "deferred"
        BY <1>3, <1>4, <1>8, <3>2 DEF MergedCriteria
      <4>2. r.criteria[c].status = b.criteria[c].status
        BY <1>5, <2>1, <2>6 DEF Retires
      <4>3. QED
        BY <1>9, <1>12, <2>1, <2>6, <4>1, <4>2
    <3>3. QED
      BY <3>1, <3>2
  <2>7. QED
    BY <2>4, <2>5, <2>6
<1>17. ASSUME NEW c \in DOMAIN m.criteria, m.criteria[c].mark = "mine",
              c \notin d.bug_affected_ac_ids
       PROVE  /\ c \in DOMAIN l.criteria
              /\ m.criteria[c].text # l.criteria[c].text \/ l.criteria[c].mark = "mine"
  <2>1. c \in DOMAIN r.criteria /\ c \in DOMAIN b.criteria
    BY <1>9, <1>10
  <2>2. r.criteria[c].mark = "mine"
    BY <1>6, <1>17, <2>1
  <2>3. b.criteria[c].mark = "mine" /\ m.criteria[c].text = b.criteria[c].text
    BY <1>5, <1>9, <2>1, <2>2 DEF Retires
  <2>4. CASE c \in touched_ac(l, d)
    BY <1>3, <1>4, <1>8, <2>3, <2>4 DEF MergedCriteria
  <2>5. CASE c \notin touched_ac(l, d)
    <3>1. c \in DOMAIN l.criteria
      BY <1>10, <2>5
    <3>2. a.criteria[c].mark = "mine"
      BY <1>3, <1>4, <1>8, <2>3, <2>5, <3>1 DEF MergedCriteria
    <3>3. QED
      BY <1>2, <3>1, <3>2
  <2>6. QED
    BY <2>4, <2>5
<1>18. Synced(l, d, m)
  BY <1>10, <1>11, <1>13, <1>14, <1>15, <1>16, <1>17 DEF Synced
<1>19. QED
  BY <1>1, <1>6, <1>7, <1>18

----------------------------------------------------------------------------
(* The draft file.                                                          *)

\* Writing ids and criteria back into a block changes nothing else of it.
LEMMA BlockEdit ==
    ASSUME NEW A, NEW B, NEW C, NEW D, NEW x \in A, NEW y \in D,
           NEW b \in [existing_us_id : A, title : B, deferred : C, acceptance_criteria : D]
    PROVE  LET f == [b EXCEPT !.existing_us_id = x, !.acceptance_criteria = y]
           IN  /\ f \in [existing_us_id : A, title : B, deferred : C, acceptance_criteria : D]
               /\ f.existing_us_id = x /\ f.acceptance_criteria = y
OBVIOUS

\* Citing ids is no more than that.
LEMMA WrittenBackEntries ==
    ASSUME NEW l, WellFormed(l), NEW d \in Draft, accepted(l, d)
    PROVE  /\ written_back(l, d) \in Draft
           /\ written_back(l, d).retired_us_ids = d.retired_us_ids
           /\ written_back(l, d).retired_ac_ids = d.retired_ac_ids
           /\ written_back(l, d).bug_affected_ac_ids = d.bug_affected_ac_ids
           /\ \A b2 \in written_back(l, d).user_stories : \E b \in d.user_stories :
                 /\ b2.existing_us_id = us_id(l, b)
                 /\ \A a2 \in b2.acceptance_criteria : \E a \in b.acceptance_criteria :
                       a2.existing_ac_id = ac_id(l, us_id(l, b), a)
<1> DEFINE acs(b) == {[a EXCEPT !.existing_ac_id = ac_id(l, us_id(l, b), a)]
                         : a \in b.acceptance_criteria}
           block(b) == [b EXCEPT !.existing_us_id = us_id(l, b), !.acceptance_criteria = acs(b)]
           bs == {block(b) : b \in d.user_stories}
           w == written_back(l, d)
<1>1. w = [d EXCEPT !.user_stories = bs]
  BY DEF written_back
<1>2. ASSUME NEW b \in d.user_stories, NEW a \in b.acceptance_criteria
      PROVE  LET a2 == [a EXCEPT !.existing_ac_id = ac_id(l, us_id(l, b), a)]
             IN  a2 \in AcBlock /\ a2.existing_ac_id = ac_id(l, us_id(l, b), a)
  <2>1. a \in AcBlock
    BY DraftShape
  <2>2. ac_id(l, us_id(l, b), a) \in CriterionIds
    BY DEF accepted, touched_ac
  <2>3. QED
    BY <2>1, <2>2 DEF AcBlock
<1>3. ASSUME NEW b \in d.user_stories
      PROVE  /\ block(b) \in StoryBlock /\ block(b).existing_us_id = us_id(l, b)
             /\ block(b).acceptance_criteria = acs(b)
  <2>1. b \in StoryBlock
    BY DraftShape
  <2>2. us_id(l, b) \in StoryIds
    BY DEF accepted, touched_us
  <2>3. acs(b) \in {{}} \cup {{a} : a \in AcBlock}
    <3>1. CASE b.acceptance_criteria = {}
      BY <3>1
    <3>2. CASE b.acceptance_criteria # {}
      <4>1. PICK a \in b.acceptance_criteria : b.acceptance_criteria = {a}
        BY <2>1, <3>2, DraftShape
      <4>2. acs(b) = {[a EXCEPT !.existing_ac_id = ac_id(l, us_id(l, b), a)]}
        BY <4>1
      <4>3. QED
        BY <1>2, <4>2
    <3>3. QED
      BY <3>1, <3>2
  <2> HIDE DEF acs
  <2>4. us_id(l, b) \in StoryIds \cup {NoStory}
    BY <2>2
  <2>5. QED
    BY <2>1, <2>3, <2>4, BlockEdit DEF StoryBlock
<1> HIDE DEF block
<1>4. bs \in {{}} \cup {{b} : b \in StoryBlock}
  <2>1. CASE d.user_stories = {}
    BY <2>1
  <2>2. CASE d.user_stories # {}
    <3>1. PICK b \in d.user_stories : d.user_stories = {b}
      BY <2>2, DraftShape
    <3>2. bs = {block(b)}
      BY <3>1
    <3>3. QED
      BY <1>3, <3>2
  <2>3. QED
    BY <2>1, <2>2
<1>5. \A b2 \in bs : \E b \in d.user_stories :
          /\ b2.existing_us_id = us_id(l, b)
          /\ \A a2 \in b2.acceptance_criteria : \E a \in b.acceptance_criteria :
                a2.existing_ac_id = ac_id(l, us_id(l, b), a)
  <2>1. ASSUME NEW b \in d.user_stories, NEW a2 \in acs(b)
        PROVE  \E a \in b.acceptance_criteria : a2.existing_ac_id = ac_id(l, us_id(l, b), a)
    BY <1>2
  <2> HIDE DEF acs
  <2>2. QED
    BY <1>3, <2>1
<1> HIDE DEF bs, w
<1>6. /\ w \in Draft /\ w.user_stories = bs
      /\ w.retired_us_ids = d.retired_us_ids /\ w.retired_ac_ids = d.retired_ac_ids
      /\ w.bug_affected_ac_ids = d.bug_affected_ac_ids
  BY <1>1, <1>4 DEF Draft
<1>7. QED
  BY <1>5, <1>6 DEF w

\* After a lap, its draft cites entries of the ledger the lap made.
LEMMA LapIsCited ==
    ASSUME NEW l, WellFormed(l), NEW d \in Draft, accepted(l, d)
    PROVE  Cited(sync_ledger(l, d), written_back(l, d))
<1> DEFINE m == sync_ledger(l, d)
           w == written_back(l, d)
<1>1. WellFormed(m) /\ Synced(l, d, m)
  BY SyncEntries
<1>2. /\ w.retired_us_ids = d.retired_us_ids /\ w.retired_ac_ids = d.retired_ac_ids
      /\ w.bug_affected_ac_ids = d.bug_affected_ac_ids
      /\ \A b2 \in w.user_stories : \E b \in d.user_stories :
            /\ b2.existing_us_id = us_id(l, b)
            /\ \A a2 \in b2.acceptance_criteria : \E a \in b.acceptance_criteria :
                  a2.existing_ac_id = ac_id(l, us_id(l, b), a)
  BY WrittenBackEntries
<1> HIDE DEF m, w
<1>3. /\ d.retired_us_ids \subseteq DOMAIN l.stories \ touched_us(l, d)
      /\ d.retired_ac_ids \subseteq DOMAIN l.criteria \ touched_ac(l, d)
  BY DEF accepted
<1>4. ASSUME NEW b2 \in w.user_stories
      PROVE  /\ b2.existing_us_id \in live_stories(m) \ w.retired_us_ids
             /\ \A a2 \in b2.acceptance_criteria :
                   /\ a2.existing_ac_id \in Children(m, b2.existing_us_id) \ w.retired_ac_ids
                   /\ m.criteria[a2.existing_ac_id].status \in Live
  <2>1. PICK b \in d.user_stories :
            /\ b2.existing_us_id = us_id(l, b)
            /\ \A a2 \in b2.acceptance_criteria : \E a \in b.acceptance_criteria :
                  a2.existing_ac_id = ac_id(l, us_id(l, b), a)
    BY <1>2
  <2>2. us_id(l, b) \in touched_us(l, d)
    BY DEF touched_us
  <2>3. b2.existing_us_id \in live_stories(m) \ w.retired_us_ids
    BY <1>1, <1>2, <1>3, <2>1, <2>2 DEF Synced, live_stories
  <2>4. ASSUME NEW a2 \in b2.acceptance_criteria
        PROVE  /\ a2.existing_ac_id \in Children(m, b2.existing_us_id) \ w.retired_ac_ids
               /\ m.criteria[a2.existing_ac_id].status \in Live
    <3>1. PICK a \in b.acceptance_criteria : a2.existing_ac_id = ac_id(l, us_id(l, b), a)
      BY <2>1
    <3>2. a2.existing_ac_id \in touched_ac(l, d)
      BY <3>1 DEF touched_ac
    <3>3. a2.existing_ac_id[1] = us_id(l, b)
      <4>1. /\ b \in StoryBlock /\ a \in AcBlock
            /\ story_accepted(l, b) /\ ac_accepted(l, us_id(l, b), a)
        BY DraftShape DEF accepted
      <4>2. us_id(l, b) \in Nat \ {0}
        BY <4>1, StoryOfBlock
      <4>3. QED
        BY <3>1, <4>1, <4>2, CriterionOfBlock
    <3>4. QED
      BY <1>1, <1>2, <1>3, <2>1, <3>2, <3>3 DEF Synced, Children
  <2>5. QED
    BY <2>3, <2>4
<1>5. ASSUME NEW c \in w.bug_affected_ac_ids
      PROVE  /\ c \in DOMAIN m.criteria \ w.retired_ac_ids
             /\ m.criteria[c].status \in Live /\ c[1] \notin w.retired_us_ids
  <2>1. /\ c \notin d.retired_ac_ids
        /\ c \in touched_ac(l, d) \/ /\ c \in DOMAIN l.criteria
                                     /\ l.criteria[c].status \in Live
                                     /\ c[1] \notin d.retired_us_ids
    BY <1>2 DEF accepted
  <2>2. CASE c \in touched_ac(l, d)
    BY <1>1, <1>2, <1>3, <2>1, <2>2 DEF Synced
  <2>3. CASE c \notin touched_ac(l, d)
    BY <1>1, <1>2, <2>1, <2>3 DEF Synced
  <2>4. QED
    BY <2>2, <2>3
<1>6. Cited(m, w)
  BY <1>1, <1>2, <1>3, <1>4, <1>5 DEF Cited, Synced
<1>7. QED
  BY <1>6 DEF m, w

\* A draft that cites passes, and names nothing that is not there.
LEMMA CitedIsAccepted ==
    ASSUME NEW l, WellFormed(l), NEW d \in Draft, Cited(l, d)
    PROVE  /\ accepted(l, d)
           /\ touched_us(l, d) \subseteq DOMAIN l.stories
           /\ touched_ac(l, d) \subseteq DOMAIN l.criteria
<1>1. ASSUME NEW b \in d.user_stories
      PROVE  /\ ~ledger_was_empty(l) /\ story_accepted(l, b)
             /\ us_id(l, b) = b.existing_us_id
             /\ us_id(l, b) \in DOMAIN l.stories \ d.retired_us_ids
  <2>1. b.existing_us_id \in live_stories(l) \ d.retired_us_ids
    BY DEF Cited
  <2>2. b.existing_us_id \in DOMAIN l.stories
    BY <2>1 DEF live_stories
  <2>3. b.existing_us_id # NoStory
    BY <2>2, Constants DEF NoStory, WellFormed, StoryIds
  <2>4. ~ledger_was_empty(l) /\ ~is_new_story(l, b)
    BY <2>2, <2>3 DEF ledger_was_empty, is_new_story
  <2>5. QED
    BY <2>1, <2>2, <2>4 DEF story_accepted, us_id
<1>2. ASSUME NEW b \in d.user_stories, NEW a \in b.acceptance_criteria
      PROVE  /\ ac_accepted(l, us_id(l, b), a)
             /\ ac_id(l, us_id(l, b), a) \in DOMAIN l.criteria \ d.retired_ac_ids
  <2>1. /\ a.existing_ac_id \in Children(l, b.existing_us_id) \ d.retired_ac_ids
        /\ l.criteria[a.existing_ac_id].status \in Live
    BY DEF Cited
  <2>2. a.existing_ac_id \in DOMAIN l.criteria
    BY <2>1 DEF Children
  <2>3. a.existing_ac_id # NoCriterion
    BY <2>2, Constants DEF NoCriterion, WellFormed, CriterionIds, StoryIds
  <2>4. ~is_new_ac(l, a)
    BY <1>1, <2>3 DEF is_new_ac
  <2>5. l.criteria[a.existing_ac_id].status # "retired"
    BY <2>1 DEF Live, Built
  <2>6. QED
    BY <1>1, <2>1, <2>2, <2>4, <2>5 DEF ac_accepted, ac_id
<1>3. touched_us(l, d) \subseteq DOMAIN l.stories \ d.retired_us_ids
  BY <1>1 DEF touched_us
<1>4. touched_ac(l, d) \subseteq DOMAIN l.criteria \ d.retired_ac_ids
  BY <1>2 DEF touched_ac
<1>5. /\ touched_us(l, d) \subseteq StoryIds /\ touched_ac(l, d) \subseteq CriterionIds
  BY <1>3, <1>4 DEF WellFormed
<1>6. /\ d.retired_us_ids \subseteq DOMAIN l.stories \ touched_us(l, d)
      /\ d.retired_ac_ids \subseteq DOMAIN l.criteria \ touched_ac(l, d)
  BY <1>3, <1>4 DEF Cited
<1>7. \A c \in d.bug_affected_ac_ids :
          /\ c \notin d.retired_ac_ids
          /\ c \in DOMAIN l.criteria /\ l.criteria[c].status \in Live
          /\ c[1] \notin d.retired_us_ids
  BY DEF Cited
<1>8. accepted(l, d)
  BY <1>1, <1>2, <1>5, <1>6, <1>7 DEF accepted
<1>9. QED
  BY <1>3, <1>4, <1>8

----------------------------------------------------------------------------
(* Stamps.                                                                  *)

\* Nothing but stamps and marks differs.
SameWording(l, m) ==
    /\ WellFormed(m)
    /\ DOMAIN m.stories = DOMAIN l.stories /\ DOMAIN m.criteria = DOMAIN l.criteria
    /\ \A u \in DOMAIN l.stories : /\ m.stories[u].status = l.stories[u].status
                                   /\ m.stories[u].title = l.stories[u].title
    /\ \A c \in DOMAIN l.criteria : /\ m.criteria[c].status = l.criteria[c].status
                                    /\ m.criteria[c].text = l.criteria[c].text

\* A pass that keeps ids, statuses and wordings keeps what is about those.
LEMMA SameWordingKeeps ==
    ASSUME NEW l, WellFormed(l), NEW m, SameWording(l, m)
    PROVE  /\ Together(l) => Together(m)
           /\ \A d : Cited(l, d) => Cited(m, d)
<1> USE DEF SameWording
<1>1. Together(l) => Together(m)
  BY DEF Together, WellFormed
<1>2. \A u : Children(m, u) = Children(l, u)
  BY DEF Children
<1>3. live_stories(m) = live_stories(l)
  BY DEF live_stories
<1>4. ASSUME NEW d, Cited(l, d) PROVE Cited(m, d)
  BY <1>2, <1>3, <1>4 DEF Cited, Children
<1>5. QED
  BY <1>1, <1>4

\* A ledger made of entries with the status and the wording of another's.
LEMMA SameWordingOf ==
    ASSUME NEW l, WellFormed(l), NEW f, NEW g,
           f = [u \in DOMAIN l.stories |-> f[u]], g = [c \in DOMAIN l.criteria |-> g[c]],
           \A u \in DOMAIN l.stories : /\ f[u] \in Story /\ f[u].status = l.stories[u].status
                                       /\ f[u].title = l.stories[u].title,
           \A c \in DOMAIN l.criteria : /\ g[c] \in Criterion
                                        /\ g[c].status = l.criteria[c].status
                                        /\ g[c].text = l.criteria[c].text
    PROVE  SameWording(l, [stories |-> f, criteria |-> g])
<1> DEFINE m == [stories |-> f, criteria |-> g]
<1>1. m.stories = f /\ m.criteria = g /\ m = [stories |-> m.stories, criteria |-> m.criteria]
  OBVIOUS
<1>2. /\ f \in [DOMAIN l.stories -> Story] /\ DOMAIN f = DOMAIN l.stories
      /\ g \in [DOMAIN l.criteria -> Criterion] /\ DOMAIN g = DOMAIN l.criteria
  OBVIOUS
<1> HIDE DEF m
<1>3. WellFormed(m)
  BY <1>1, <1>2 DEF WellFormed
<1>4. SameWording(l, m)
  BY <1>1, <1>2, <1>3 DEF SameWording
<1>5. QED
  BY <1>4 DEF m

\* The resets take the stamps of what bears this run's mark, and every mark.
Resets(l, m) ==
    /\ SameWording(l, m)
    /\ \A u \in DOMAIN l.stories :
          m.stories[u].resolved => /\ l.stories[u].resolved
                                   /\ \A c \in Children(l, u) : l.criteria[c].mark # "mine"
    /\ \A c \in DOMAIN l.criteria :
          /\ m.criteria[c].mark = "none"
          /\ l.criteria[c].mark # "mine" => Stamps(l.criteria[c], m.criteria[c])
          /\ l.criteria[c].mark = "mine" => m.criteria[c].coded = FALSE /\ m.criteria[c].resolved = FALSE

\* A criterion that is reset keeps its status and its wording.
LEMMA ResetEdit ==
    ASSUME NEW e \in Criterion, NEW f,
           f = [e EXCEPT !.mark = "none", !.coded = FALSE, !.tested = FALSE, !.resolved = FALSE]
    PROVE  /\ f \in Criterion /\ f.status = e.status /\ f.text = e.text
           /\ f.mark = "none" /\ f.coded = FALSE /\ f.resolved = FALSE
BY DEF Criterion, Mark

\* A story that is stamped resolved keeps its status and its title.
LEMMA ResolvedEdit ==
    ASSUME NEW e \in Story, NEW r \in BOOLEAN
    PROVE  LET f == [e EXCEPT !.resolved = r]
           IN  f \in Story /\ f.status = e.status /\ f.title = e.title /\ f.resolved = r
BY DEF Story

\* Resetting, entry by entry.
LEMMA ResetEntries ==
    ASSUME NEW l, WellFormed(l)
    PROVE  Resets(l, apply_tracking_resets(l))
<1> DEFINE mine == {c \in DOMAIN l.criteria : l.criteria[c].mark = "mine"}
           f == [u \in DOMAIN l.stories |->
                    IF \E c \in mine : c[1] = u
                    THEN [l.stories[u] EXCEPT !.resolved = FALSE] ELSE l.stories[u]]
           g == [c \in DOMAIN l.criteria |->
                    IF c \in mine
                    THEN [l.criteria[c] EXCEPT !.mark = "none", !.coded = FALSE,
                                               !.tested = FALSE, !.resolved = FALSE]
                    ELSE [l.criteria[c] EXCEPT !.mark = "none"]]
           m == apply_tracking_resets(l)
<1>1. m = [stories |-> f, criteria |-> g]
  BY Zenon DEF apply_tracking_resets
<1>2. ASSUME NEW u \in DOMAIN l.stories
      PROVE  /\ f[u] \in Story /\ f[u].status = l.stories[u].status
             /\ f[u].title = l.stories[u].title
             /\ f[u].resolved = TRUE => /\ l.stories[u].resolved
                                        /\ \A c \in Children(l, u) : l.criteria[c].mark # "mine"
  <2>1. l.stories[u] \in Story
    BY DEF WellFormed
  <2>2. CASE \E c \in mine : c[1] = u
    <3>1. f[u] = [l.stories[u] EXCEPT !.resolved = FALSE]
      BY <2>2
    <3> HIDE DEF f
    <3>2. QED
      BY <2>1, <3>1, ResolvedEdit
  <2>3. CASE ~\E c \in mine : c[1] = u
    <3>1. f[u] = l.stories[u]
      BY <2>3
    <3>2. \A c \in Children(l, u) : l.criteria[c].mark # "mine"
      BY <2>3 DEF Children
    <3> HIDE DEF f
    <3>3. QED
      BY <2>1, <3>1, <3>2
  <2>4. QED
    BY <2>2, <2>3
<1>3. ASSUME NEW c \in DOMAIN l.criteria
      PROVE  /\ g[c] \in Criterion /\ g[c].status = l.criteria[c].status
             /\ g[c].text = l.criteria[c].text /\ g[c].mark = "none"
             /\ l.criteria[c].mark # "mine" => Stamps(l.criteria[c], g[c])
             /\ l.criteria[c].mark = "mine" => g[c].coded = FALSE /\ g[c].resolved = FALSE
  <2>1. l.criteria[c] \in Criterion /\ "none" \in Mark
    BY DEF WellFormed, Mark
  <2>2. CASE l.criteria[c].mark = "mine"
    <3>1. g[c] = [l.criteria[c] EXCEPT !.mark = "none", !.coded = FALSE,
                                       !.tested = FALSE, !.resolved = FALSE]
      BY <2>2
    <3> HIDE DEF g
    <3>2. QED
      BY <2>1, <2>2, <3>1, ResetEdit
  <2>3. CASE l.criteria[c].mark # "mine"
    <3>1. g[c] = [l.criteria[c] EXCEPT !.mark = "none"]
      BY <2>3
    <3> HIDE DEF g
    <3>2. QED
      BY <2>1, <2>3, <3>1, MarkEdit DEF Same, Stamps
  <2>4. QED
    BY <2>2, <2>3
<1>4. f = [u \in DOMAIN l.stories |-> f[u]] /\ g = [c \in DOMAIN l.criteria |-> g[c]]
  OBVIOUS
<1> HIDE DEF m, f, g, mine
<1>5. SameWording(l, m)
  BY <1>1, <1>2, <1>3, <1>4, SameWordingOf
<1>6. m.stories = f /\ m.criteria = g
  BY <1>1
<1>7. \A u \in DOMAIN l.stories : m.stories[u].resolved \in BOOLEAN
  BY <1>2, <1>6 DEF Story
<1>8. Resets(l, m)
  BY <1>2, <1>3, <1>5, <1>6, <1>7 DEF Resets
<1>9. QED
  BY <1>8 DEF m

\* A reset takes the story's stamp along with its criterion's.
LEMMA ResetsKeepMeasured ==
    ASSUME NEW l, WellFormed(l), NEW m, Resets(l, m), Measured(l)
    PROVE  Measured(m)
<1>1. DOMAIN m.stories = DOMAIN l.stories /\ DOMAIN m.criteria = DOMAIN l.criteria
  BY DEF Resets, SameWording
<1>2. ASSUME NEW c \in DOMAIN m.criteria, m.criteria[c].resolved
      PROVE  m.criteria[c].coded /\ m.criteria[c].tested
  BY <1>1, <1>2 DEF Resets, Measured, Stamps
<1>3. ASSUME NEW u \in DOMAIN m.stories, m.stories[u].resolved
      PROVE  \E c \in Children(m, u) : m.criteria[c].resolved
  <2>1. /\ l.stories[u].resolved
        /\ \A c \in Children(l, u) : l.criteria[c].mark # "mine"
    BY <1>1, <1>3 DEF Resets
  <2>2. PICK c \in Children(l, u) : l.criteria[c].resolved
    BY <1>1, <1>3, <2>1 DEF Measured
  <2>3. c \in DOMAIN l.criteria /\ c \in Children(m, u)
    BY <1>1, <2>2 DEF Children
  <2>4. Stamps(l.criteria[c], m.criteria[c])
    BY <2>1, <2>2, <2>3 DEF Resets
  <2>5. QED
    BY <2>2, <2>3, <2>4 DEF Stamps
<1>4. QED
  BY <1>2, <1>3 DEF Measured

\* Delivery and resolution only add stamps.
LEMMA DeliveryEntries ==
    ASSUME NEW l, WellFormed(l), NEW own, NEW passed
    PROVE  LET m == stamp_delivery(l, own, passed)
           IN  /\ SameWording(l, m) /\ m.stories = l.stories
               /\ \A c \in DOMAIN l.criteria :
                     /\ m.criteria[c].mark = l.criteria[c].mark
                     /\ m.criteria[c].resolved = l.criteria[c].resolved
                     /\ l.criteria[c].coded => m.criteria[c].coded
                     /\ l.criteria[c].tested => m.criteria[c].tested
<1> DEFINE g == [c \in DOMAIN l.criteria |->
                    IF c \in own /\ l.criteria[c].status \in Built
                    THEN [l.criteria[c] EXCEPT !.coded = TRUE,
                                               !.tested = l.criteria[c].tested \/ c \in passed]
                    ELSE l.criteria[c]]
           m == stamp_delivery(l, own, passed)
<1>1. m = [l EXCEPT !.criteria = g]
  BY DEF stamp_delivery
<1>2. ASSUME NEW c \in DOMAIN l.criteria
      PROVE  /\ g[c] \in Criterion /\ g[c].status = l.criteria[c].status
             /\ g[c].text = l.criteria[c].text /\ g[c].mark = l.criteria[c].mark
             /\ g[c].resolved = l.criteria[c].resolved
             /\ l.criteria[c].coded => g[c].coded
             /\ l.criteria[c].tested => g[c].tested
  <2> DEFINE e == l.criteria[c]
             t == e.tested \/ c \in passed
  <2>1. e \in Criterion /\ t \in BOOLEAN /\ (e.tested => t)
    BY DEF WellFormed
  <2>2. CASE c \in own /\ e.status \in Built
    <3>1. g[c] = [e EXCEPT !.coded = TRUE, !.tested = t]
      BY <2>2
    <3> HIDE DEF e, t, g
    <3>2. /\ g[c] \in Criterion /\ g[c].status = e.status /\ g[c].text = e.text
          /\ g[c].mark = e.mark /\ g[c].resolved = e.resolved
          /\ g[c].coded = TRUE /\ g[c].tested = t
      BY <2>1, <3>1 DEF Criterion
    <3>3. e.tested => g[c].tested
      BY <2>1, <3>2
    <3>4. QED
      BY <3>2, <3>3 DEF e
  <2>3. CASE ~(c \in own /\ e.status \in Built)
    <3>1. g[c] = e
      BY <2>3
    <3>2. QED
      BY <2>1, <3>1
  <2>4. QED
    BY <2>2, <2>3
<1>3. g = [c \in DOMAIN l.criteria |-> g[c]]
  OBVIOUS
<1> HIDE DEF m, g
<1>4. m = [stories |-> l.stories, criteria |-> g]
  BY <1>1 DEF WellFormed
<1>5. m.stories = l.stories /\ m.criteria = g
  BY <1>4
<1>6. /\ l.stories = [u \in DOMAIN l.stories |-> l.stories[u]]
      /\ \A u \in DOMAIN l.stories : l.stories[u] \in Story
  BY DEF WellFormed
<1>7. SameWording(l, m)
  BY <1>2, <1>3, <1>4, <1>6, SameWordingOf
<1>8. QED
  BY <1>2, <1>5, <1>7 DEF m

\* What is built but not measured was not resolved.
LEMMA DeliveryKeepsMeasured ==
    ASSUME NEW l, WellFormed(l), Measured(l), NEW own, NEW passed
    PROVE  Measured(stamp_delivery(l, own, passed))
<1> DEFINE m == stamp_delivery(l, own, passed)
<1>1. /\ SameWording(l, m) /\ m.stories = l.stories
      /\ \A c \in DOMAIN l.criteria :
            /\ m.criteria[c].resolved = l.criteria[c].resolved
            /\ l.criteria[c].coded => m.criteria[c].coded
            /\ l.criteria[c].tested => m.criteria[c].tested
  BY DeliveryEntries
<1> HIDE DEF m
<1>2. \A u : Children(m, u) = Children(l, u)
  BY <1>1 DEF SameWording, Children
<1>3. Measured(m)
  BY <1>1, <1>2 DEF Measured, SameWording, Children
<1>4. QED
  BY <1>3 DEF m

\* Resolution is of what is coded and tested, and of stories with resolved criteria.
Resolves(l, m) ==
    /\ SameWording(l, m)
    /\ \A u \in DOMAIN l.stories :
          m.stories[u].resolved =>
              l.stories[u].resolved \/ \E c \in Children(l, u) : m.criteria[c].resolved
    /\ \A c \in DOMAIN l.criteria :
          /\ m.criteria[c].mark = l.criteria[c].mark
          /\ m.criteria[c].coded = l.criteria[c].coded
          /\ m.criteria[c].tested = l.criteria[c].tested
          /\ l.criteria[c].resolved => m.criteria[c].resolved
          /\ m.criteria[c].resolved =>
                l.criteria[c].resolved \/ (l.criteria[c].coded /\ l.criteria[c].tested)

\* A criterion that is stamped resolved keeps everything else.
LEMMA ResolvedCriterionEdit ==
    ASSUME NEW e \in Criterion, NEW f, f = [e EXCEPT !.resolved = TRUE]
    PROVE  /\ f \in Criterion /\ f.status = e.status /\ f.text = e.text /\ f.mark = e.mark
           /\ f.coded = e.coded /\ f.tested = e.tested /\ f.resolved = TRUE
BY DEF Criterion

\* Stamping what is resolved, entry by entry.
LEMMA ResolutionEntries ==
    ASSUME NEW l, WellFormed(l)
    PROVE  Resolves(l, stamp_resolution(l))
<1> DEFINE g == [c \in DOMAIN l.criteria |->
                    IF /\ l.criteria[c].status \in Built
                       /\ l.criteria[c].coded /\ l.criteria[c].tested
                    THEN [l.criteria[c] EXCEPT !.resolved = TRUE] ELSE l.criteria[c]]
           live(u) == {c \in Children(l, u) : g[c].status \in Built}
           earned(u) == /\ l.stories[u].status \in Built
                        /\ live(u) # {} /\ \A c \in live(u) : g[c].resolved
           f == [u \in DOMAIN l.stories |->
                    IF earned(u) THEN [l.stories[u] EXCEPT !.resolved = TRUE] ELSE l.stories[u]]
           m == stamp_resolution(l)
<1>1. m = [stories |-> f, criteria |-> g]
  BY Zenon DEF stamp_resolution
<1>2. ASSUME NEW c \in DOMAIN l.criteria
      PROVE  /\ g[c] \in Criterion /\ g[c].status = l.criteria[c].status
             /\ g[c].text = l.criteria[c].text /\ g[c].mark = l.criteria[c].mark
             /\ g[c].coded = l.criteria[c].coded /\ g[c].tested = l.criteria[c].tested
             /\ l.criteria[c].resolved => g[c].resolved
             /\ g[c].resolved =>
                   l.criteria[c].resolved \/ (l.criteria[c].coded /\ l.criteria[c].tested)
  <2>1. l.criteria[c] \in Criterion
    BY DEF WellFormed
  <2>2. CASE /\ l.criteria[c].status \in Built
             /\ l.criteria[c].coded /\ l.criteria[c].tested
    <3>1. g[c] = [l.criteria[c] EXCEPT !.resolved = TRUE]
      BY <2>2
    <3> HIDE DEF g
    <3>2. QED
      BY <2>1, <2>2, <3>1, ResolvedCriterionEdit
  <2>3. CASE ~(/\ l.criteria[c].status \in Built
               /\ l.criteria[c].coded /\ l.criteria[c].tested)
    <3>1. g[c] = l.criteria[c]
      BY <2>3
    <3> HIDE DEF g
    <3>2. QED
      BY <2>1, <3>1
  <2>4. QED
    BY <2>2, <2>3
<1>3. ASSUME NEW u \in DOMAIN l.stories
      PROVE  /\ f[u] \in Story /\ f[u].status = l.stories[u].status
             /\ f[u].title = l.stories[u].title
             /\ f[u].resolved =>
                   l.stories[u].resolved \/ \E c \in Children(l, u) : g[c].resolved
  <2>1. l.stories[u] \in Story
    BY DEF WellFormed
  <2>2. CASE earned(u)
    <3>1. f[u] = [l.stories[u] EXCEPT !.resolved = TRUE]
      BY <2>2
    <3>2. \E c \in Children(l, u) : g[c].resolved
      <4> HIDE DEF g
      <4>1. QED
        BY <2>2
    <3> HIDE DEF f, earned
    <3>3. QED
      BY <2>1, <3>1, <3>2, ResolvedEdit
  <2>3. CASE ~earned(u)
    <3>1. f[u] = l.stories[u]
      <4> HIDE DEF earned
      <4>1. QED
        BY <2>3
    <3> HIDE DEF f
    <3>2. QED
      BY <2>1, <3>1
  <2>4. QED
    BY <2>2, <2>3
<1>4. f = [u \in DOMAIN l.stories |-> f[u]]
  <2> HIDE DEF earned
  <2>1. QED
    OBVIOUS
<1>5. g = [c \in DOMAIN l.criteria |-> g[c]]
  OBVIOUS
<1> HIDE DEF m, f, g, earned, live
<1>6. SameWording(l, m)
  BY <1>1, <1>2, <1>3, <1>4, <1>5, SameWordingOf
<1>7. m.stories = f /\ m.criteria = g
  BY <1>1
<1>8. Resolves(l, m)
  BY <1>2, <1>3, <1>6, <1>7 DEF Resolves
<1>9. QED
  BY <1>8 DEF m

\* It stamps what was measured, and a story whose criteria all were.
LEMMA ResolutionKeepsMeasured ==
    ASSUME NEW l, WellFormed(l), Measured(l), NEW m, Resolves(l, m)
    PROVE  Measured(m)
<1>1. DOMAIN m.stories = DOMAIN l.stories /\ DOMAIN m.criteria = DOMAIN l.criteria
  BY DEF Resolves, SameWording
<1>2. ASSUME NEW c \in DOMAIN m.criteria, m.criteria[c].resolved
      PROVE  m.criteria[c].coded /\ m.criteria[c].tested
  BY <1>1, <1>2 DEF Resolves, Measured
<1>3. ASSUME NEW u \in DOMAIN m.stories, m.stories[u].resolved
      PROVE  \E c \in Children(m, u) : m.criteria[c].resolved
  <2>1. Children(m, u) = Children(l, u) /\ Children(l, u) \subseteq DOMAIN l.criteria
    BY <1>1 DEF Children
  <2>2. CASE \E c \in Children(l, u) : m.criteria[c].resolved
    BY <2>1, <2>2
  <2>3. CASE l.stories[u].resolved
    <3>1. PICK c \in Children(l, u) : l.criteria[c].resolved
      BY <1>1, <2>3 DEF Measured
    <3>2. QED
      BY <2>1, <3>1 DEF Resolves
  <2>4. QED
    BY <1>1, <1>3, <2>2, <2>3 DEF Resolves
<1>4. QED
  BY <1>2, <1>3 DEF Measured

\* A minted story is new, and nothing else changes.
LEMMA MintedEntries ==
    ASSUME NEW l, WellFormed(l), NEW title \in Titles, next_us_number(l) \in StoryIds
    PROVE  /\ WellFormed(minted(l, title)) /\ minted(l, title).criteria = l.criteria
           /\ DOMAIN l.stories \subseteq DOMAIN minted(l, title).stories
           /\ \A u \in DOMAIN l.stories : minted(l, title).stories[u] = l.stories[u]
           /\ \A u \in DOMAIN minted(l, title).stories \ DOMAIN l.stories :
                 minted(l, title).stories[u].resolved = FALSE
<1> DEFINE n == next_us_number(l)
           e == [status |-> "active", title |-> title, resolved |-> FALSE]
           f == [u \in DOMAIN l.stories \cup {n} |->
                    IF u \in DOMAIN l.stories THEN l.stories[u] ELSE e]
           m == minted(l, title)
<1>1. m = [l EXCEPT !.stories = f]
  BY DEF minted
<1>2. e \in Story
  BY DEF Story, Status
<1> HIDE DEF e, n, m
<1>3. /\ DOMAIN f = DOMAIN l.stories \cup {n}
      /\ \A u \in DOMAIN l.stories : f[u] = l.stories[u]
      /\ \A u \in DOMAIN f \ DOMAIN l.stories : f[u] = e
      /\ f = [u \in DOMAIN f |-> f[u]]
  OBVIOUS
<1>4. \A u \in DOMAIN f : f[u] \in Story
  BY <1>2, <1>3 DEF WellFormed
<1> HIDE DEF f
<1>5. f \in [DOMAIN f -> Story] /\ DOMAIN f \subseteq StoryIds
  BY <1>3, <1>4 DEF WellFormed, n
<1>6. m = [stories |-> f, criteria |-> l.criteria]
  BY <1>1 DEF WellFormed
<1>7. m.stories = f /\ m.criteria = l.criteria
  BY <1>6
<1>8. WellFormed(m)
  BY <1>3, <1>5, <1>6, <1>7 DEF WellFormed
<1>9. \A u \in DOMAIN m.stories \ DOMAIN l.stories : m.stories[u].resolved = FALSE
  BY <1>3, <1>7 DEF e
<1>10. QED
  BY <1>3, <1>7, <1>8, <1>9 DEF m

\* It has no criteria, is not resolved and is cited by no draft.
LEMMA MintedKeeps ==
    ASSUME NEW l, WellFormed(l), NEW title \in Titles, next_us_number(l) \in StoryIds
    PROVE  /\ Together(l) => Together(minted(l, title))
           /\ Measured(l) => Measured(minted(l, title))
           /\ \A d : Cited(l, d) => Cited(minted(l, title), d)
<1> DEFINE m == minted(l, title)
<1>1. /\ m.criteria = l.criteria /\ DOMAIN l.stories \subseteq DOMAIN m.stories
      /\ \A u \in DOMAIN l.stories : m.stories[u] = l.stories[u]
      /\ \A u \in DOMAIN m.stories \ DOMAIN l.stories : m.stories[u].resolved = FALSE
  BY MintedEntries
<1> HIDE DEF m
<1>2. Together(l) => Together(m)
  BY <1>1 DEF Together, WellFormed
<1>3. Measured(l) => Measured(m)
  BY <1>1 DEF Measured, Children
<1>4. live_stories(l) \subseteq live_stories(m) /\ \A u : Children(m, u) = Children(l, u)
  BY <1>1 DEF live_stories, Children
<1>5. ASSUME NEW d, Cited(l, d) PROVE Cited(m, d)
  BY <1>1, <1>4, <1>5 DEF Cited
<1>6. QED
  BY <1>2, <1>3, <1>5 DEF m

----------------------------------------------------------------------------
(* A ledger that was lost.                                                  *)

\* The ledger of a repository that has none yet, or none that can be read.
LEMMA EmptyIsWellFormed ==
    /\ WellFormed(EmptyLedger) /\ Together(EmptyLedger) /\ Measured(EmptyLedger)
    /\ DOMAIN EmptyLedger.stories = {} /\ DOMAIN EmptyLedger.criteria = {}
<1>1. /\ EmptyLedger = [stories |-> << >>, criteria |-> << >>]
      /\ EmptyLedger.stories = << >> /\ EmptyLedger.criteria = << >>
      /\ DOMAIN EmptyLedger.stories = {} /\ DOMAIN EmptyLedger.criteria = {}
  BY DEF EmptyLedger
<1>2. EmptyLedger.stories \in [DOMAIN EmptyLedger.stories -> Story]
  BY <1>1
<1>3. EmptyLedger.criteria \in [DOMAIN EmptyLedger.criteria -> Criterion]
  BY <1>1
<1>4. WellFormed(EmptyLedger)
  BY <1>1, <1>2, <1>3 DEF WellFormed
<1>5. Together(EmptyLedger) /\ Measured(EmptyLedger)
  BY <1>1 DEF Together, Measured
<1>6. QED
  BY <1>1, <1>4, <1>5

\* An accident is counted.
LEMMA AccidentCounts ==
    ASSUME Bookkeeping, Accident
    PROVE  accidents' \in 0..MaxAccidents /\ accidents' # accidents
BY Constants DEF Bookkeeping, Accident

\* What a step loads is a ledger like any other, and without an accident it is the one
\* that was saved.
LEMMA LoadedLedger ==
    ASSUME LedgerInv, NEW l, load_ledger(l)
    PROVE  /\ WellFormed(l) /\ Together(l) /\ Measured(l)
           /\ \A c \in DOMAIN l.criteria :
                 l.criteria[c].mark = "mine" => c \in reworked \cap DOMAIN l.criteria
           /\ accidents' \in 0..MaxAccidents
           /\ accidents' = accidents => l = ledger
<1>1. CASE l = ledger /\ UNCHANGED accidents
  BY <1>1 DEF LedgerInv, Marked, Bookkeeping
<1>2. CASE l = EmptyLedger /\ Accident
  BY <1>2, EmptyIsWellFormed, AccidentCounts DEF LedgerInv
<1>3. QED
  BY <1>1, <1>2 DEF load_ledger

----------------------------------------------------------------------------
(* The invariant is inductive.                                              *)

\* The invariant holds of the ledger the first run finds.
LEMMA LedgerInvInit == Init => LedgerInv
<1> SUFFICES ASSUME Init PROVE LedgerInv
  OBVIOUS
<1>1. ledger = EmptyLedger
  BY DEF Init
<1>2. WellFormed(ledger) /\ Together(ledger) /\ Measured(ledger) /\ Marked
  BY <1>1, EmptyIsWellFormed DEF Marked
<1>3. Redraftable
  BY DEF Init, Redraftable, EmptyDraft, Draft, Cited
<1>4. Bookkeeping
  <2>1. approved.written = FALSE /\ base.written = FALSE
    BY DEF Init, NoSpecification
  <2>2. runs \in 0..MaxRuns /\ laps \in 0..MaxLaps /\ accidents \in 0..MaxAccidents
    BY Constants DEF Init
  <2>3. QED
    BY <2>1, <2>2 DEF Init, Bookkeeping, Beyond
<1>5. QED
  BY <1>2, <1>3, <1>4 DEF LedgerInv

\* The inputs of a lap are drafts.
LEMMA InputIsDraft ==
    ASSUME LedgerInv, NEW m \in Mentions, NEW bs \in {{}} \cup {{b} : b \in Blocks}
    PROVE  [m EXCEPT !.user_stories = bs] \in Draft
<1>1. DOMAIN ledger.stories \subseteq StoryIds /\ DOMAIN ledger.criteria \subseteq CriterionIds
  BY DEF LedgerInv, WellFormed
<1>2. Blocks \subseteq StoryBlock
  <2>1. AcBlocks \subseteq AcBlock
    BY <1>1 DEF AcBlocks, AcBlock
  <2>2. {{}} \cup {{a} : a \in AcBlocks} \subseteq {{}} \cup {{a} : a \in AcBlock}
    BY <2>1
  <2>3. DOMAIN ledger.stories \cup {NoStory} \subseteq StoryIds \cup {NoStory}
    BY <1>1
  <2>4. \A A, B, T, X, Y : A \subseteq B /\ X \subseteq Y =>
            [existing_us_id : A, title : T, deferred : BOOLEAN, acceptance_criteria : X]
                \subseteq
            [existing_us_id : B, title : T, deferred : BOOLEAN, acceptance_criteria : Y]
    OBVIOUS
  <2>5. QED
    BY <2>2, <2>3, <2>4 DEF Blocks, StoryBlock
<1>3. bs \in {{}} \cup {{b} : b \in StoryBlock}
  BY <1>2
<1>4. m \in Draft
  BY <1>1 DEF Mentions, EmptyDraft, Draft
<1>5. QED
  BY <1>3, <1>4 DEF Draft

\* Only what a lap reworks, or what was reworked before, bears this run's mark after it;
\* and both are criteria of the ledger it makes.
LEMMA ReworkedByLap ==
    ASSUME NEW l, WellFormed(l), NEW d \in Draft, accepted(l, d), NEW old,
           \A c \in DOMAIN l.criteria : l.criteria[c].mark = "mine" => c \in old
    PROVE  LET m == sync_ledger(l, d)
               new == (old \cap Criteria(l)) \cup reworks(l, d)
           IN  /\ \A c \in DOMAIN m.criteria : m.criteria[c].mark = "mine" => c \in new
               /\ new \subseteq DOMAIN m.criteria
<1> DEFINE m == sync_ledger(l, d)
           new == (old \cap Criteria(l)) \cup reworks(l, d)
<1>1. Synced(l, d, m)
  BY SyncEntries
<1>2. reworks(l, d) = d.bug_affected_ac_ids \cup
                         {c \in DOMAIN l.criteria : m.criteria[c].text # l.criteria[c].text}
  BY DEF reworks, Criteria
<1> HIDE DEF m
<1>3. ASSUME NEW c \in DOMAIN m.criteria, m.criteria[c].mark = "mine" PROVE c \in new
  <2>1. \/ c \in d.bug_affected_ac_ids
        \/ c \in DOMAIN l.criteria /\ m.criteria[c].text # l.criteria[c].text
        \/ c \in DOMAIN l.criteria /\ l.criteria[c].mark = "mine"
    BY <1>1, <1>3 DEF Synced
  <2>2. QED
    BY <1>2, <2>1 DEF Criteria
<1>4. d.bug_affected_ac_ids \subseteq DOMAIN l.criteria \cup touched_ac(l, d)
  BY DEF accepted
<1>5. new \subseteq DOMAIN m.criteria
  BY <1>1, <1>2, <1>4 DEF Synced, Criteria
<1>6. QED
  BY <1>3, <1>5 DEF m

\* A lap of the specification stage keeps it, of whatever ledger it loaded.
LEMMA VerifyKeepsInv ==
    ASSUME LedgerInv, NEW d \in Draft, VerifySpecification(d)
    PROVE  LedgerInv'
<1>1. Bookkeeping
  BY DEF LedgerInv
<1>2. PICK l \in {ledger, EmptyLedger} :
         /\ load_ledger(l) /\ accepted(l, d)
         /\ sketchpad' = written_back(l, d)
         /\ ledger' = sync_ledger(l, d) /\ apart' = FALSE
         /\ reworked' = (reworked \cap Criteria(l)) \cup reworks(l, d)
  BY DEF VerifySpecification
<1>3. /\ phase' \in {"draft", "gate", "nothing"}
      /\ laps + accidents < MaxLaps /\ laps' = laps + 1
      /\ UNCHANGED <<approved, base, superseded, runs>>
  BY DEF VerifySpecification
<1>4. /\ WellFormed(l) /\ Together(l) /\ Measured(l)
      /\ \A c \in DOMAIN l.criteria : l.criteria[c].mark = "mine" => c \in reworked
      /\ accidents' \in 0..MaxAccidents
  BY <1>2, LoadedLedger
<1>5. WellFormed(ledger') /\ Together(ledger') /\ Measured(ledger')
  BY <1>2, <1>4, SyncEntries
<1>6. /\ \A c \in DOMAIN ledger'.criteria : ledger'.criteria[c].mark = "mine" => c \in reworked'
      /\ reworked' \subseteq DOMAIN ledger'.criteria
  BY <1>2, <1>4, ReworkedByLap
<1>7. Redraftable'
  <2>1. sketchpad' \in Draft
    BY <1>2, <1>4, WrittenBackEntries
  <2>2. Cited(ledger', sketchpad')
    BY <1>2, <1>4, LapIsCited
  <2>3. QED
    BY <2>1, <2>2 DEF Redraftable
<1>8. Bookkeeping'
  <2>1. laps' \in 0..MaxLaps
    BY <1>1, <1>3, Constants DEF Bookkeeping
  <2>2. apart' \in BOOLEAN
    BY <1>2
  <2>3. QED
    BY <1>1, <1>3, <1>4, <1>6, <2>1, <2>2 DEF Bookkeeping
<1>9. QED
  BY <1>5, <1>6, <1>7, <1>8 DEF LedgerInv, Marked

\* A lost ledger is a ledger, of which no draft is said to cite anything.
LEMMA LostKeepsInv ==
    ASSUME LedgerInv, ledger' = EmptyLedger, reworked' = {}, apart' = TRUE,
           sketchpad' \in Draft, Accident,
           UNCHANGED <<approved, base, superseded, phase, runs, laps>>
    PROVE  LedgerInv'
<1>1. WellFormed(ledger') /\ Together(ledger') /\ Measured(ledger') /\ Marked'
  BY EmptyIsWellFormed DEF Marked
<1>2. Redraftable'
  BY DEF Redraftable
<1>3. Bookkeeping'
  BY AccidentCounts DEF LedgerInv, Bookkeeping
<1>4. QED
  BY <1>1, <1>2, <1>3 DEF LedgerInv

\* Later in the run, too.
LEMMA LoseKeepsInv == LedgerInv /\ LoseLedger => LedgerInv'
BY LostKeepsInv DEF LoseLedger, LedgerInv, Redraftable

\* A lap cut between its writes leaves the ledger, or loses it.
LEMMA CutKeepsInv ==
    ASSUME LedgerInv, NEW d \in Draft, LapCutShort(d)
    PROVE  LedgerInv'
<1>1. WellFormed(ledger) /\ Bookkeeping
  BY DEF LedgerInv
<1>2. /\ Accident /\ accepted(ledger, d)
      /\ sketchpad' = written_back(ledger, d) /\ apart' = TRUE
      /\ \/ UNCHANGED <<ledger, reworked>>
         \/ ledger' = EmptyLedger /\ reworked' = {}
      /\ UNCHANGED <<approved, base, superseded, phase, runs, laps>>
  BY DEF LapCutShort
<1>3. sketchpad' \in Draft
  BY <1>1, <1>2, WrittenBackEntries
<1>4. CASE UNCHANGED <<ledger, reworked>>
  <2>1. Redraftable'
    BY <1>2, <1>3 DEF Redraftable
  <2>2. Bookkeeping'
    BY <1>1, <1>2, <1>4, AccidentCounts DEF Bookkeeping
  <2>3. QED
    BY <1>4, <2>1, <2>2 DEF LedgerInv, Marked
<1>5. CASE ledger' = EmptyLedger /\ reworked' = {}
  BY <1>2, <1>3, <1>5, LostKeepsInv
<1>6. QED
  BY <1>2, <1>4, <1>5

\* What every operator on ledgers outside the specification stage leaves.
Settles(l, m) ==
    /\ SameWording(l, m) /\ (Measured(l) => Measured(m))
    /\ \A c \in DOMAIN l.criteria : m.criteria[c].mark = "mine" => l.criteria[c].mark = "mine"

\* Each of them keeps ids and wordings, counts nothing unmeasured as resolved, and
\* sets no marker.
LEMMA Settling ==
    ASSUME NEW l, WellFormed(l)
    PROVE  /\ Settles(l, l)
           /\ Settles(l, apply_tracking_resets(l))
           /\ Settles(l, stamp_resolution(l))
           /\ Settles(l, Foreign(l))
           /\ \A own, passed : Settles(l, stamp_delivery(l, own, passed))
<1>1. Settles(l, l)
  BY DEF Settles, SameWording
<1>2. Settles(l, apply_tracking_resets(l))
  <2>1. Resets(l, apply_tracking_resets(l))
    BY ResetEntries
  <2>2. \A c \in DOMAIN l.criteria : apply_tracking_resets(l).criteria[c].mark # "mine"
    BY <2>1 DEF Resets
  <2>3. QED
    BY <2>1, <2>2, ResetsKeepMeasured DEF Settles, Resets
<1>3. Settles(l, stamp_resolution(l))
  <2>1. Resolves(l, stamp_resolution(l))
    BY ResolutionEntries
  <2>2. QED
    BY <2>1, ResolutionKeepsMeasured DEF Settles, Resolves
<1>4. Settles(l, Foreign(l))
  <2>1. Remarks(l, Foreign(l)) /\ \A c \in DOMAIN l.criteria : Foreign(l).criteria[c].mark # "mine"
    BY ForeignRemarks
  <2>2. SameWording(l, Foreign(l))
    BY <2>1 DEF Remarks, Same, SameWording
  <2>3. QED
    BY <2>1, <2>2, RemarksKeep DEF Settles
<1>5. ASSUME NEW own, NEW passed PROVE Settles(l, stamp_delivery(l, own, passed))
  <2> DEFINE m == stamp_delivery(l, own, passed)
  <2>1. SameWording(l, m) /\ \A c \in DOMAIN l.criteria : m.criteria[c].mark = l.criteria[c].mark
    BY DeliveryEntries
  <2>2. Measured(l) => Measured(m)
    BY DeliveryKeepsMeasured
  <2> HIDE DEF m
  <2>3. Settles(l, m)
    BY <2>1, <2>2 DEF Settles
  <2>4. QED
    BY <2>3 DEF m
<1>6. QED
  BY <1>1, <1>2, <1>3, <1>4, <1>5

\* Steps that settle the ledger keep everything that is about it and the draft file.
LEMMA SettlingKeeps ==
    ASSUME LedgerInv, Settles(ledger, ledger')
    PROVE  /\ WellFormed(ledger') /\ Together(ledger') /\ Measured(ledger')
           /\ DOMAIN ledger'.criteria = DOMAIN ledger.criteria
           /\ \A d : Cited(ledger, d) => Cited(ledger', d)
           /\ reworked' = reworked => Marked'
<1>1. /\ WellFormed(ledger) /\ Together(ledger) /\ Measured(ledger) /\ Marked
      /\ SameWording(ledger, ledger')
  BY DEF LedgerInv, Settles
<1>2. /\ WellFormed(ledger') /\ DOMAIN ledger'.criteria = DOMAIN ledger.criteria
  BY <1>1 DEF SameWording
<1>3. Together(ledger') /\ \A d : Cited(ledger, d) => Cited(ledger', d)
  BY <1>1, SameWordingKeeps
<1>4. Measured(ledger')
  BY <1>1 DEF Settles
<1>5. reworked' = reworked => Marked'
  BY <1>1, <1>2 DEF Marked, Settles
<1>6. QED
  BY <1>2, <1>3, <1>4, <1>5

\* The steps that settle the ledger, the phase apart.
LEMMA ApproveKeepsInv == LedgerInv /\ ApproveSpecification => LedgerInv'
<1> SUFFICES ASSUME LedgerInv, ApproveSpecification PROVE LedgerInv'
  OBVIOUS
<1>1. WellFormed(ledger) /\ Redraftable /\ Bookkeeping
  BY DEF LedgerInv
<1>2. /\ phase = "gate" /\ phase' = "plan" /\ superseded' = TRUE
      /\ approved' = render_live_user_stories(ledger)
      /\ ledger' \in {ledger, apply_tracking_resets(ledger)}
      /\ UNCHANGED <<sketchpad, base, runs, laps, accidents, apart, reworked>>
  BY DEF ApproveSpecification
<1>3. Settles(ledger, ledger')
  BY <1>1, <1>2, Settling
<1>4. approved'.written = TRUE
  BY <1>2 DEF render_live_user_stories
<1>5. Redraftable'
  BY <1>1, <1>2, <1>3, SettlingKeeps DEF Redraftable
<1>6. Bookkeeping'
  BY <1>1, <1>2, <1>3, <1>4, SettlingKeeps DEF Bookkeeping, Beyond
<1>7. QED
  BY <1>2, <1>3, <1>5, <1>6, SettlingKeeps DEF LedgerInv

\* So do the gates.
LEMMA GateKeepsInv == LedgerInv /\ (SendBack \/ ApprovePlan) => LedgerInv'
<1> SUFFICES ASSUME LedgerInv, SendBack \/ ApprovePlan PROVE LedgerInv'
  OBVIOUS
<1>1. WellFormed(ledger) /\ Redraftable /\ Bookkeeping
  BY DEF LedgerInv
<1>2. /\ \/ phase \in {"gate", "plan"} /\ phase' = "draft"
         \/ phase = "plan" /\ phase' = "build"
      /\ UNCHANGED <<ledger, sketchpad, approved, base, superseded, runs, laps, accidents,
                     apart, reworked>>
  BY DEF SendBack, ApprovePlan
<1>3. Settles(ledger, ledger')
  BY <1>1, <1>2, Settling
<1>4. Redraftable'
  BY <1>1, <1>2 DEF Redraftable
<1>5. Bookkeeping'
  BY <1>1, <1>2 DEF Bookkeeping, Beyond
<1>6. QED
  BY <1>2, <1>3, <1>4, <1>5, SettlingKeeps DEF LedgerInv

\* So does the story of a flaky test, in whatever ledger the node loaded.
LEMMA MintKeepsInv ==
    ASSUME LedgerInv, NEW title \in Titles, MintTicket(title)
    PROVE  LedgerInv'
<1>1. Redraftable /\ Bookkeeping
  BY DEF LedgerInv
<1>2. PICK l \in {ledger, EmptyLedger} :
         /\ load_ledger(l) /\ next_us_number(l) \in StoryIds /\ ledger' = minted(l, title)
         /\ apart' = (apart \/ l # ledger) /\ reworked' = reworked \cap Criteria(l)
  BY DEF MintTicket
<1>3. UNCHANGED <<sketchpad, approved, base, superseded, phase, runs, laps>>
  BY DEF MintTicket
<1>4. /\ WellFormed(l) /\ Together(l) /\ Measured(l)
      /\ \A c \in DOMAIN l.criteria :
            l.criteria[c].mark = "mine" => c \in reworked \cap DOMAIN l.criteria
      /\ accidents' \in 0..MaxAccidents
  BY <1>2, LoadedLedger
<1>5. WellFormed(ledger') /\ ledger'.criteria = l.criteria
  BY <1>2, <1>4, MintedEntries
<1>6. Together(ledger') /\ Measured(ledger') /\ \A d : Cited(l, d) => Cited(ledger', d)
  BY <1>2, <1>4, MintedKeeps
<1>7. Marked'
  BY <1>2, <1>4, <1>5 DEF Marked, Criteria
<1>8. Redraftable'
  <2>1. ~apart' => ~apart /\ l = ledger
    BY <1>1, <1>2 DEF Bookkeeping
  <2>2. QED
    BY <1>1, <1>3, <1>6, <2>1 DEF Redraftable
<1>9. Bookkeeping'
  <2>1. apart' \in BOOLEAN /\ reworked' \subseteq DOMAIN ledger'.criteria
    BY <1>2, <1>5 DEF Criteria
  <2>2. QED
    BY <1>1, <1>3, <1>4, <2>1 DEF Bookkeeping
<1>10. QED
  BY <1>5, <1>6, <1>7, <1>8, <1>9 DEF LedgerInv

\* So does the measurement.
LEMMA MeasureKeepsInv ==
    ASSUME LedgerInv, NEW clean \in BOOLEAN, NEW passed, ComputeMetrics(clean, passed)
    PROVE  LedgerInv'
<1>1. WellFormed(ledger) /\ Redraftable /\ Bookkeeping
  BY DEF LedgerInv
<1>2. /\ phase = "build" /\ phase' \in {"measured", "failed"}
      /\ ledger' \in {ledger, stamp_delivery(ledger, DOMAIN approved.criteria, passed)}
      /\ UNCHANGED <<sketchpad, approved, base, superseded, runs, laps, accidents, apart, reworked>>
  BY DEF ComputeMetrics
<1>3. Settles(ledger, ledger')
  BY <1>1, <1>2, Settling
<1>4. Redraftable'
  BY <1>1, <1>2, <1>3, SettlingKeeps DEF Redraftable
<1>5. Bookkeeping'
  BY <1>1, <1>2, <1>3, SettlingKeeps DEF Bookkeeping, Beyond
<1>6. QED
  BY <1>2, <1>3, <1>4, <1>5, SettlingKeeps DEF LedgerInv

\* So does the end of a run.
LEMMA FinalizeKeepsInv ==
    ASSUME LedgerInv, NEW merge_ready \in BOOLEAN, Finalize(merge_ready)
    PROVE  LedgerInv'
<1>1. WellFormed(ledger) /\ Redraftable /\ Bookkeeping
  BY DEF LedgerInv
<1>2. /\ phase \in {"measured", "failed"} /\ phase' = "done"
      /\ ledger' \in {ledger, stamp_resolution(ledger)}
      /\ UNCHANGED <<sketchpad, approved, base, superseded, runs, laps, accidents, apart, reworked>>
  BY DEF Finalize
<1>3. Settles(ledger, ledger')
  BY <1>1, <1>2, Settling
<1>4. Redraftable'
  BY <1>1, <1>2, <1>3, SettlingKeeps DEF Redraftable
<1>5. Bookkeeping'
  BY <1>1, <1>2, <1>3, SettlingKeeps DEF Bookkeeping, Beyond
<1>6. QED
  BY <1>2, <1>3, <1>4, <1>5, SettlingKeeps DEF LedgerInv

\* So does a run that is taken up again.
LEMMA ResumeKeepsInv == LedgerInv /\ Resume => LedgerInv'
<1> SUFFICES ASSUME LedgerInv, Resume PROVE LedgerInv'
  OBVIOUS
<1>1. WellFormed(ledger) /\ Redraftable /\ Bookkeeping
  BY DEF LedgerInv
<1>2. /\ phase' \in {"plan", "build"}
      /\ ledger' \in {ledger, apply_tracking_resets(ledger)}
      /\ UNCHANGED <<sketchpad, approved, base, superseded, runs, laps, accidents, apart, reworked>>
  BY DEF Resume, Back
<1>3. Settles(ledger, ledger')
  BY <1>1, <1>2, Settling
<1>4. Redraftable'
  BY <1>1, <1>2, <1>3, SettlingKeeps DEF Redraftable
<1>5. Bookkeeping'
  BY <1>1, <1>2, <1>3, SettlingKeeps DEF Bookkeeping, Beyond
<1>6. QED
  BY <1>2, <1>3, <1>4, <1>5, SettlingKeeps DEF LedgerInv

\* A new run finds no mark of its own.
LEMMA ForeignIsUnmarked ==
    ASSUME NEW l, WellFormed(l)
    PROVE  /\ WellFormed(Foreign(l)) /\ Settles(l, Foreign(l))
           /\ Settles(l, apply_tracking_resets(Foreign(l)))
           /\ \A c \in DOMAIN l.criteria :
                 /\ Foreign(l).criteria[c].mark # "mine"
                 /\ apply_tracking_resets(Foreign(l)).criteria[c].mark # "mine"
<1> DEFINE a == Foreign(l)
           m == apply_tracking_resets(a)
<1>1. /\ Settles(l, a) /\ \A c \in DOMAIN l.criteria : a.criteria[c].mark # "mine"
  BY Settling, ForeignRemarks
<1>2. WellFormed(a) /\ DOMAIN a.criteria = DOMAIN l.criteria
  BY <1>1 DEF Settles, SameWording
<1>3. Settles(a, m)
  BY <1>2, Settling
<1> HIDE DEF a, m
<1>4. Settles(l, m) /\ \A c \in DOMAIN l.criteria : m.criteria[c].mark # "mine"
  BY <1>1, <1>2, <1>3 DEF Settles, SameWording
<1>5. QED
  BY <1>1, <1>2, <1>4 DEF a, m

\* So does a new run over what is approved, to which the markers are another's.
LEMMA ReattachKeepsInv == LedgerInv /\ Reattach => LedgerInv'
<1> SUFFICES ASSUME LedgerInv, Reattach PROVE LedgerInv'
  OBVIOUS
<1>1. WellFormed(ledger) /\ Redraftable /\ Bookkeeping
  BY DEF LedgerInv
<1>2. /\ phase' \in {"plan", "build"}
      /\ ledger' \in {Foreign(ledger), apply_tracking_resets(Foreign(ledger))}
      /\ runs < MaxRuns /\ runs' = runs + 1 /\ reworked' = {}
      /\ UNCHANGED <<sketchpad, approved, base, superseded, laps, accidents, apart>>
  BY DEF Reattach, Back
<1>3. Settles(ledger, ledger')
  BY <1>1, <1>2, ForeignIsUnmarked
<1>4. DOMAIN ledger'.criteria = DOMAIN ledger.criteria
  BY <1>3, SettlingKeeps
<1>5. Marked'
  BY <1>1, <1>2, <1>4, ForeignIsUnmarked DEF Marked
<1>6. Redraftable'
  BY <1>1, <1>2, <1>3, SettlingKeeps DEF Redraftable
<1>7. runs' \in 0..MaxRuns
  BY <1>1, <1>2, Constants DEF Bookkeeping
<1>8. Bookkeeping'
  BY <1>1, <1>2, <1>7 DEF Bookkeeping, Beyond
<1>9. QED
  BY <1>3, <1>5, <1>6, <1>8, SettlingKeeps DEF LedgerInv

\* A submission that finds a finished round empties the draft file; any other leaves
\* it with what it cites.
LEMMA RedraftKeepsInv ==
    ASSUME LedgerInv, NEW new_submission \in BOOLEAN, Redraft(new_submission)
    PROVE  LedgerInv'
<1>1. WellFormed(ledger) /\ Redraftable /\ Bookkeeping
  BY DEF LedgerInv
<1>2. /\ ledger' = Foreign(ledger) /\ phase' = "draft"
      /\ runs < MaxRuns /\ runs' = runs + 1 /\ reworked' = {}
      /\ UNCHANGED <<approved, laps, accidents>>
      /\ \/ /\ sketchpad' = EmptyDraft /\ base' = approved
            /\ superseded' = FALSE /\ apart' = FALSE
         \/ UNCHANGED <<sketchpad, base, superseded, apart>>
  BY DEF Redraft
<1>3. Settles(ledger, ledger') /\ \A c \in DOMAIN ledger.criteria : ledger'.criteria[c].mark # "mine"
  BY <1>1, <1>2, ForeignIsUnmarked
<1>4. DOMAIN ledger'.criteria = DOMAIN ledger.criteria /\ \A d : Cited(ledger, d) => Cited(ledger', d)
  BY <1>3, SettlingKeeps
<1>5. Marked'
  BY <1>3, <1>4 DEF Marked
<1>6. EmptyDraft \in Draft /\ Cited(ledger', EmptyDraft)
  BY DEF EmptyDraft, Draft, Cited
<1>7. Redraftable'
  BY <1>1, <1>2, <1>4, <1>6 DEF Redraftable
<1>8. runs' \in 0..MaxRuns
  BY <1>1, <1>2, Constants DEF Bookkeeping
<1>9. base'.written \in BOOLEAN /\ superseded' \in BOOLEAN /\ apart' \in BOOLEAN
  BY <1>1, <1>2 DEF Bookkeeping
<1>10. Bookkeeping'
  BY <1>1, <1>2, <1>8, <1>9 DEF Bookkeeping
<1>11. QED
  BY <1>3, <1>5, <1>7, <1>10, SettlingKeeps DEF LedgerInv

\* So does a rewind, as the same run or as another.
LEMMA RewindKeepsInv ==
    ASSUME LedgerInv, NEW resume \in BOOLEAN, Rewind(resume)
    PROVE  LedgerInv'
<1>1. WellFormed(ledger) /\ Redraftable /\ Bookkeeping
  BY DEF LedgerInv
<1>2. /\ runs < MaxRuns /\ runs' = runs + 1 /\ phase' = "draft"
      /\ \/ UNCHANGED <<ledger, reworked>>
         \/ ledger' = Foreign(ledger) /\ reworked' = {}
      /\ UNCHANGED <<sketchpad, approved, base, superseded, laps, accidents, apart>>
  BY DEF Rewind
<1>3. Settles(ledger, ledger')
  BY <1>1, <1>2, Settling
<1>4. Marked'
  <2>1. CASE UNCHANGED <<ledger, reworked>>
    BY <2>1 DEF LedgerInv, Marked
  <2>2. CASE ledger' = Foreign(ledger) /\ reworked' = {}
    <3>1. \A c \in DOMAIN ledger.criteria : ledger'.criteria[c].mark # "mine"
      BY <1>1, <2>2, ForeignIsUnmarked
    <3>2. QED
      BY <1>3, <3>1, SettlingKeeps DEF Marked
  <2>3. QED
    BY <1>2, <2>1, <2>2
<1>5. Redraftable'
  BY <1>1, <1>2, <1>3, SettlingKeeps DEF Redraftable
<1>6. runs' \in 0..MaxRuns
  BY <1>1, <1>2, Constants DEF Bookkeeping
<1>7. reworked' \subseteq DOMAIN ledger'.criteria
  BY <1>1, <1>2, <1>3, SettlingKeeps DEF Bookkeeping
<1>8. Bookkeeping'
  BY <1>1, <1>2, <1>6, <1>7 DEF Bookkeeping
<1>9. QED
  BY <1>3, <1>4, <1>5, <1>8, SettlingKeeps DEF LedgerInv

\* A lap is one that saves or one that is cut short, of a draft.
LEMMA LapOfDraft ==
    ASSUME LedgerInv, Lap
    PROVE  \E d \in Draft : VerifySpecification(d) \/ LapCutShort(d)
<1>1. PICK m \in Mentions, bs \in {{}} \cup {{b} : b \in Blocks} :
         \/ VerifySpecification([m EXCEPT !.user_stories = bs])
         \/ LapCutShort([m EXCEPT !.user_stories = bs])
  BY DEF Lap
<1>2. [m EXCEPT !.user_stories = bs] \in Draft
  BY InputIsDraft
<1>3. QED
  BY <1>1, <1>2

\* The invariant is inductive.
LEMMA LedgerInvStep == LedgerInv /\ [Next]_vars => LedgerInv'
<1> SUFFICES ASSUME LedgerInv, [Next]_vars PROVE LedgerInv'
  OBVIOUS
<1>1. ASSUME Lap PROVE LedgerInv'
  BY <1>1, LapOfDraft, VerifyKeepsInv, CutKeepsInv
<1>2. ASSUME UNCHANGED vars PROVE LedgerInv'
  BY <1>2 DEF vars, LedgerInv, Marked, Redraftable, Bookkeeping
<1>3. QED
  BY <1>1, <1>2, LoseKeepsInv, ApproveKeepsInv, GateKeepsInv, MintKeepsInv, MeasureKeepsInv,
     FinalizeKeepsInv, ResumeKeepsInv, ReattachKeepsInv, RedraftKeepsInv, RewindKeepsInv DEF Next

\* And so it holds in every reachable state.
LEMMA LedgerInvAlways == Spec => []LedgerInv
BY LedgerInvInit, LedgerInvStep, PTL DEF Spec

----------------------------------------------------------------------------
(* What follows.                                                            *)

\* The entries are well formed in every reachable state.
THEOREM Typing == Spec => []TypeOK
<1>1. LedgerInv => TypeOK
  BY DEF LedgerInv, WellFormed, Redraftable, Bookkeeping, TypeOK, Stories, Criteria
<1>2. QED
  BY <1>1, LedgerInvAlways, PTL

\* No live criterion stands under a retired story, none to build under a parked one.
THEOREM CriteriaFollowTheirStory == Spec => []ParkedTogether
<1>1. LedgerInv => ParkedTogether
  BY DEF LedgerInv, Together, ParkedTogether, Criteria
<1>2. QED
  BY <1>1, LedgerInvAlways, PTL

\* What is resolved was delivered and measured, a story by criteria that still are.
THEOREM ResolutionIsEarned == Spec => []ResolvedIsMeasured
<1>1. LedgerInv => ResolvedIsMeasured
  BY DEF LedgerInv, Measured, ResolvedIsMeasured, Stories, Criteria
<1>2. QED
  BY <1>1, LedgerInvAlways, PTL

\* The draft of a lap that passed passes again unedited, and records nothing twice.
THEOREM LapsCanBeRepeated == Spec => []LapCanBeRepeated
<1>1. ASSUME LedgerInv, ~apart
      PROVE  /\ accepted(ledger, sketchpad)
             /\ Stories(sync_ledger(ledger, sketchpad)) = Stories(ledger)
             /\ Criteria(sync_ledger(ledger, sketchpad)) = Criteria(ledger)
  <2>1. WellFormed(ledger) /\ sketchpad \in Draft /\ Cited(ledger, sketchpad)
    BY <1>1 DEF LedgerInv, Redraftable
  <2>2. /\ accepted(ledger, sketchpad)
        /\ touched_us(ledger, sketchpad) \subseteq DOMAIN ledger.stories
        /\ touched_ac(ledger, sketchpad) \subseteq DOMAIN ledger.criteria
    BY <2>1, CitedIsAccepted
  <2>3. Synced(ledger, sketchpad, sync_ledger(ledger, sketchpad))
    BY <2>1, <2>2, SyncEntries
  <2>4. QED
    BY <2>2, <2>3 DEF Synced, Stories, Criteria
<1>2. LedgerInv => LapCanBeRepeated
  BY <1>1 DEF LapCanBeRepeated
<1>3. QED
  BY <1>2, LedgerInvAlways, PTL

\* The steps outside the specification stage change no status and no wording.
LEMMA OthersSettle ==
    ASSUME LedgerInv,
           \/ ApproveSpecification \/ SendBack \/ ApprovePlan
           \/ \E clean \in BOOLEAN, passed \in SUBSET DOMAIN approved.criteria :
                 ComputeMetrics(clean, passed)
           \/ \E merge_ready \in BOOLEAN : Finalize(merge_ready)
           \/ Resume \/ Reattach
           \/ \E new_submission \in BOOLEAN : Redraft(new_submission)
           \/ \E resume \in BOOLEAN : Rewind(resume)
    PROVE  SameWording(ledger, ledger')
<1>1. WellFormed(ledger)
  BY DEF LedgerInv
<1>2. \/ ledger' \in {ledger, apply_tracking_resets(ledger), stamp_resolution(ledger), Foreign(ledger),
                      apply_tracking_resets(Foreign(ledger))}
      \/ \E own, passed : ledger' = stamp_delivery(ledger, own, passed)
  BY DEF ApproveSpecification, SendBack, ApprovePlan, ComputeMetrics, Finalize, Resume,
         Reattach, Redraft, Rewind
<1>3. Settles(ledger, ledger')
  BY <1>1, <1>2, Settling, ForeignIsUnmarked
<1>4. QED
  BY <1>3 DEF Settles

\* What happens to the ledger where no read fails and no save is cut short: a lap merges
\* its draft into it, a ticket is minted, or it is settled.
LEMMA NoAccident ==
    ASSUME LedgerInv, accidents' = accidents
    PROVE  /\ ~LoseLedger
           /\ \A d : ~LapCutShort(d)
           /\ \A d : VerifySpecification(d) => accepted(ledger, d) /\ ledger' = sync_ledger(ledger, d)
           /\ \A title : MintTicket(title) => /\ next_us_number(ledger) \in StoryIds
                                             /\ ledger' = minted(ledger, title)
<1>1. ~Accident
  BY AccidentCounts DEF LedgerInv
<1>2. \A l : load_ledger(l) => l = ledger
  BY LoadedLedger
<1>3. ~LoseLedger /\ \A d : ~LapCutShort(d)
  BY <1>1 DEF LoseLedger, LapCutShort
<1>4. ASSUME NEW d, VerifySpecification(d)
      PROVE  accepted(ledger, d) /\ ledger' = sync_ledger(ledger, d)
  BY <1>2, <1>4 DEF VerifySpecification
<1>5. ASSUME NEW title, MintTicket(title)
      PROVE  next_us_number(ledger) \in StoryIds /\ ledger' = minted(ledger, title)
  BY <1>2, <1>5 DEF MintTicket
<1>6. QED
  BY <1>3, <1>4, <1>5

\* No entry disappears; one that is retired stays retired, with its wording.
Durable(l, m) ==
    /\ \A u \in Stories(l) :
          /\ u \in Stories(m)
          /\ l.stories[u].status = "retired" => /\ m.stories[u].status = "retired"
                                                /\ m.stories[u].title = l.stories[u].title
    /\ \A c \in Criteria(l) :
          /\ c \in Criteria(m)
          /\ l.criteria[c].status = "retired" => /\ m.criteria[c].status = "retired"
                                                 /\ m.criteria[c].text = l.criteria[c].text

\* No step loses an id or takes one back from "retired", accidents apart.
LEMMA DurableStep ==
    ASSUME LedgerInv, [Next]_vars, accidents' = accidents
    PROVE  Durable(ledger, ledger')
<1>1. SameWording(ledger, ledger') => Durable(ledger, ledger')
  BY DEF SameWording, Durable, Stories, Criteria
<1>2. ASSUME Lap PROVE Durable(ledger, ledger')
  <2>1. PICK d \in Draft : VerifySpecification(d)
    BY <1>2, LapOfDraft, NoAccident
  <2>2. WellFormed(ledger) /\ accepted(ledger, d) /\ ledger' = sync_ledger(ledger, d)
    BY <2>1, NoAccident DEF LedgerInv
  <2>3. Synced(ledger, d, ledger')
    BY <2>2, SyncEntries
  <2>4. QED
    BY <2>3 DEF Synced, Durable, Stories, Criteria
<1>3. ASSUME NEW title \in Titles, MintTicket(title) PROVE Durable(ledger, ledger')
  <2>1. /\ WellFormed(ledger) /\ next_us_number(ledger) \in StoryIds
        /\ ledger' = minted(ledger, title)
    BY <1>3, NoAccident DEF LedgerInv
  <2>2. QED
    BY <2>1, MintedEntries DEF Durable, Stories, Criteria
<1>4. ASSUME UNCHANGED vars PROVE Durable(ledger, ledger')
  BY <1>4 DEF vars, Durable
<1>5. QED
  BY <1>1, <1>2, <1>3, <1>4, OthersSettle, NoAccident DEF Next

\* An id stands for one requirement for good, where the file can be read and written.
THEOREM IdsAreForGood == Spec => RetiredForGood
<1>1. LedgerInv /\ [Next]_vars =>
         [accidents' = accidents =>
          /\ \A u \in Stories(ledger) :
                /\ u \in Stories(ledger')
                /\ ledger.stories[u].status = "retired" =>
                      /\ ledger'.stories[u].status = "retired"
                      /\ ledger'.stories[u].title = ledger.stories[u].title
          /\ \A c \in Criteria(ledger) :
                /\ c \in Criteria(ledger')
                /\ ledger.criteria[c].status = "retired" =>
                      /\ ledger'.criteria[c].status = "retired"
                      /\ ledger'.criteria[c].text = ledger.criteria[c].text]_vars
  BY DurableStep DEF Durable
<1>2. QED
  BY <1>1, LedgerInvAlways, PTL DEF Spec, RetiredForGood

\* The only steps that take "coded" away are resets, of what this run reworked.
Loses(c) == ledger.criteria[c].coded /\ ~ledger'.criteria[c].coded

\* A reset takes stamps from the criteria this run has reworded only.
LEMMA ResetsLoseOwn ==
    ASSUME LedgerInv, ledger' = apply_tracking_resets(ledger), NEW c \in DOMAIN ledger.criteria, Loses(c)
    PROVE  c \in reworked
<1>1. Resets(ledger, ledger')
  BY ResetEntries DEF LedgerInv
<1>2. ledger.criteria[c].mark = "mine"
  BY <1>1 DEF Resets, Stamps, Loses
<1>3. QED
  BY <1>2 DEF LedgerInv, Marked

\* Another run's markers take no stamp with them.
LEMMA ForeignLosesNothing ==
    ASSUME LedgerInv, ledger' \in {Foreign(ledger), apply_tracking_resets(Foreign(ledger))},
           NEW c \in DOMAIN ledger.criteria
    PROVE  ~Loses(c)
<1> DEFINE a == Foreign(ledger)
           m == apply_tracking_resets(a)
<1>1. /\ Remarks(ledger, a) /\ a.criteria[c].mark # "mine"
      /\ DOMAIN a.criteria = DOMAIN ledger.criteria /\ WellFormed(a)
  BY ForeignRemarks DEF LedgerInv, Remarks
<1>2. Resets(a, m)
  BY <1>1, ResetEntries
<1> HIDE DEF a, m
<1>3. a.criteria[c].coded = ledger.criteria[c].coded
  BY <1>1 DEF Remarks, Same
<1>4. m.criteria[c].coded = ledger.criteria[c].coded
  BY <1>1, <1>2, <1>3 DEF Resets, Stamps
<1>5. QED
  BY <1>3, <1>4 DEF Loses, a, m

\* A stamp is lost after the approval, and by a criterion the run has reworded.
LEMMA StampsStep ==
    ASSUME LedgerInv, [Next]_vars, accidents' = accidents,
           NEW c \in DOMAIN ledger.criteria, Loses(c)
    PROVE  c \in reworked \cap reworked' /\ phase' \in Beyond
<1>0. WellFormed(ledger) /\ ledger' # ledger
  BY DEF LedgerInv, Loses
<1>1. ASSUME Lap PROVE FALSE
  <2>1. PICK d \in Draft : VerifySpecification(d)
    BY <1>1, LapOfDraft, NoAccident
  <2>2. accepted(ledger, d) /\ ledger' = sync_ledger(ledger, d)
    BY <2>1, NoAccident
  <2>3. Synced(ledger, d, ledger')
    BY <1>0, <2>2, SyncEntries
  <2>4. QED
    BY <2>3 DEF Synced, Stamps, Loses
<1>2. CASE ApproveSpecification
  <2>1. ledger' = apply_tracking_resets(ledger) /\ reworked' = reworked /\ phase' = "plan"
    BY <1>0, <1>2 DEF ApproveSpecification
  <2>2. QED
    BY <2>1, ResetsLoseOwn DEF Beyond
<1>3. CASE Resume
  <2>1. ledger' = apply_tracking_resets(ledger) /\ reworked' = reworked /\ phase' \in Beyond
    BY <1>0, <1>3 DEF Resume, Back, Beyond
  <2>2. QED
    BY <2>1, ResetsLoseOwn
<1>4. ASSUME \/ Reattach \/ \E new_submission \in BOOLEAN : Redraft(new_submission)
             \/ \E resume \in BOOLEAN : Rewind(resume)
      PROVE  FALSE
  <2>1. ledger' \in {Foreign(ledger), apply_tracking_resets(Foreign(ledger))}
    BY <1>0, <1>4 DEF Reattach, Redraft, Rewind
  <2>2. QED
    BY <2>1, ForeignLosesNothing
<1>5. ASSUME NEW title \in Titles, MintTicket(title) PROVE FALSE
  <2>1. next_us_number(ledger) \in StoryIds /\ ledger' = minted(ledger, title)
    BY <1>5, NoAccident
  <2>2. ledger'.criteria = ledger.criteria
    BY <1>0, <2>1, MintedEntries
  <2>3. QED
    BY <2>2 DEF Loses
<1>6. ASSUME NEW clean \in BOOLEAN, NEW passed, ComputeMetrics(clean, passed) PROVE FALSE
  <2>1. ledger' = stamp_delivery(ledger, DOMAIN approved.criteria, passed)
    BY <1>0, <1>6 DEF ComputeMetrics
  <2>2. QED
    BY <1>0, <2>1, DeliveryEntries DEF Loses
<1>7. ASSUME NEW merge_ready \in BOOLEAN, Finalize(merge_ready) PROVE FALSE
  <2>1. ledger' = stamp_resolution(ledger)
    BY <1>0, <1>7 DEF Finalize
  <2>2. QED
    BY <1>0, <2>1, ResolutionEntries DEF Resolves, Loses
<1>8. ASSUME SendBack \/ ApprovePlan \/ UNCHANGED vars PROVE FALSE
  BY <1>0, <1>8 DEF SendBack, ApprovePlan, vars
<1>9. QED
  BY <1>1, <1>2, <1>3, <1>4, <1>5, <1>6, <1>7, <1>8, NoAccident DEF Next

\* Accidents apart, what was delivered is lost only by an approval, of a run whose laps reworked it.
THEOREM RejectionsDestroyNothing == Spec => StampsOutliveRejection
<1>1. LedgerInv /\ [Next]_vars =>
         [accidents' = accidents => \A c \in Criteria(ledger) :
             ledger.criteria[c].coded /\ ~ledger'.criteria[c].coded =>
                 c \in reworked \cap reworked' /\ phase' \in Beyond]_vars
  BY StampsStep DEF Loses, Criteria
<1>2. QED
  BY <1>1, LedgerInvAlways, PTL DEF Spec, StampsOutliveRejection
=============================================================================
