---------------------------- MODULE ScenarioFile -----------------------------
(***************************************************************************)
(* One scenario file through the edit dialog and back: loaded              *)
(* (core/scenario.ts, the legacy keys of core/schema.ts), turned into a    *)
(* draft and the draft into a request (ScenarioBuilder.tsx), merged into   *)
(* the file as it is by then (app.ts, editScenarioYaml). The file may also *)
(* be edited by hand at any time.                                          *)
(*                                                                         *)
(* A mapping is the sequence of its keys, each with the comments above it. *)
(* A comment inside a value goes with the value. `model` stands for        *)
(* uiFormat as well, `of` for a package or a URL. Whitespace at the ends   *)
(* of what is typed, the fold of prompts and maxSteps are left out.        *)
(***************************************************************************)
EXTENDS Integers, Sequences, FiniteSets, SequencesExt

CONSTANTS Committed,    \* files as somebody may commit them
          CaseIds,      \* ids a case may be given
          Typed,        \* what is typed into the other fields
          Tags,         \* lists of tags the field may hold
          Slugs,        \* tags the server takes
          None,         \* a key that is not there, a field left blank
          Strings,        \* what any of these may be
          MaxCommits, MaxEdits, MaxSaves

Platforms == {"android", "web"}

Optional == Strings \cup {None}
Targets == [platform : Platforms, of : Strings, viewport : Optional]
Fields == [id : Strings, prompt : Strings, model : Optional, target : Targets \cup {None},
           personaReview : Optional, accessibility : Optional]
Cases == [id : Strings, prompt : Strings, model : Optional, target : Targets \cup {None},
          personaReview : Optional]

(* A list of cases with its comments, of which no case is without its id.  *)
IsCaseList(list) ==
    /\ DOMAIN list = {"lead", "items"}
    /\ list.items \in Seq(ToSet(list.items))
    /\ \A i \in DOMAIN list.items :
          DOMAIN list.items[i] = {"notes", "fields"} /\ list.items[i].fields \in Fields

(* A key stands once in a mapping, and what stands under it is not None.   *)
IsFile(f) ==
    /\ f \in Seq(ToSet(f))
    /\ \A i, j \in DOMAIN f : f[i].key = f[j].key => i = j
    /\ \A i \in DOMAIN f :
          LET value == f[i].value
          IN  CASE f[i].key = "cases" -> IsCaseList(value)
                [] f[i].key = "tags" -> value \in Seq(Strings)
                [] f[i].key = "target" -> value \in Targets
                [] OTHER -> value \in Strings

ASSUME FileAssumption ==
    /\ MaxCommits \in Nat /\ MaxEdits \in Nat /\ MaxSaves \in Nat
    /\ \A tags \in Tags : tags \in Seq(Strings \ {""})
    /\ CaseIds \subseteq Strings /\ Typed \subseteq Strings
    /\ None \notin Strings /\ None \notin Targets /\ None \notin Seq(Strings)
    /\ None \notin Seq(Cases)
    /\ \A f \in Committed : IsFile(f)

VARIABLES
    file,       \* the pairs of the file's mapping; none if it holds no mapping
    draft,      \* the fields of the dialog, Closed if there is none
    opened,     \* history: the scenario the dialog was opened with
    touched, touchedCases,   \* history: the fields and cases edited since
    saved,      \* the scenario of the last answer
    commits, edits, saves

fileVars == <<file, draft, opened, touched, touchedCases, saved, commits, edits, saves>>

-------------------------------------------------------------------------------
(* Loading. *)

Pair(key, notes, value) == [key |-> key, notes |-> notes, value |-> value]

Has(f, key) == \E i \in DOMAIN f : f[i].key = key
At(f, key) == f[CHOOSE i \in DOMAIN f : f[i].key = key]
Value(f, key) == IF Has(f, key) THEN At(f, key).value ELSE None

(* The target, or what `app:` says of it.                                  *)
normalizeTarget(f) ==
    IF Has(f, "target") \/ ~Has(f, "app") THEN Value(f, "target")
    ELSE [platform |-> "android", of |-> Value(f, "app"), viewport |-> None]

normalizePersonaReviewKey(new, legacy) == IF legacy = None THEN new ELSE legacy

CaseOf(fields) ==
    [id |-> fields.id, prompt |-> fields.prompt, model |-> fields.model, target |-> fields.target,
     personaReview |-> normalizePersonaReviewKey(fields.personaReview, fields.accessibility)]

findDuplicateCaseId(cases) == ~IsInjective([i \in DOMAIN cases |-> cases[i].id])

(* What no schema takes: no mapping, no title or case, one list of         *)
(* personas under both of its names.                                       *)
Loads(f) ==
    /\ Has(f, "title") /\ Has(f, "cases")
    /\ ~(Has(f, "personaReview") /\ Has(f, "accessibility"))
    /\ LET items == Value(f, "cases").items
       IN  /\ items # <<>>
           /\ \A i \in DOMAIN items :
                 items[i].fields.personaReview = None \/ items[i].fields.accessibility = None
           /\ ~findDuplicateCaseId([i \in DOMAIN items |-> items[i].fields])

loadScenario(f) ==
    [title |-> Value(f, "title"),
     tags |-> IF Has(f, "tags") THEN Value(f, "tags") ELSE <<>>,
     target |-> normalizeTarget(f),
     model |-> Value(f, "model"),
     personaReview |-> normalizePersonaReviewKey(Value(f, "personaReview"), Value(f, "accessibility")),
     cases |-> [i \in DOMAIN Value(f, "cases").items |-> CaseOf(Value(f, "cases").items[i].fields)]]

-------------------------------------------------------------------------------
(* The draft. *)

Of(target, platform) ==
    IF target = None THEN None ELSE IF target.platform = platform THEN target.of ELSE None

(* Mutant: the draft of a case keeps what the form shows of it.            *)
DraftOfShown(s) ==
    [title |-> s.title, tags |-> s.tags, model |-> s.model, personaReview |-> s.personaReview,
     platform |-> IF s.target = None THEN "android" ELSE s.target.platform,
     appPackage |-> Of(s.target, "android"), url |-> Of(s.target, "web"),
     cases |-> [i \in DOMAIN s.cases |-> [s.cases[i] EXCEPT !.target = None]]]

draftOf(s) ==
    [title |-> s.title, tags |-> s.tags, model |-> s.model, personaReview |-> s.personaReview,
     platform |-> IF s.target = None THEN "android" ELSE s.target.platform,
     appPackage |-> Of(s.target, "android"), url |-> Of(s.target, "web"),
     cases |-> s.cases]

(* From the fields that are showing; none if they are blank.               *)
buildTarget(d) ==
    LET of == IF d.platform = "android" THEN d.appPackage ELSE d.url
    IN  IF of = None THEN None ELSE [platform |-> d.platform, of |-> of, viewport |-> None]

(* The request a draft becomes, as the server's schema reads it.           *)
Body(d) ==
    [title |-> d.title, tags |-> d.tags, target |-> buildTarget(d), model |-> d.model,
     personaReview |-> d.personaReview, cases |-> d.cases]

IsAccepted(s) ==
    /\ ToSet(s.tags) \subseteq Slugs
    /\ ~findDuplicateCaseId(s.cases)

-------------------------------------------------------------------------------
(* The merge. *)

(* Mutant: the list was not told of a new key.                             *)
KeysWithoutTags == <<"title", "target", "model", "personaReview", "cases">>

SCENARIO_KEYS == <<"title", "tags", "target", "model", "personaReview", "cases">>

(* Of the first n keys those that are given.                               *)
Given(s, n) ==
    LET given[i \in 0..n] ==
            IF i = 0 THEN <<>>
            ELSE LET k == SCENARIO_KEYS[i]
                 IN  IF s[k] = None THEN given[i - 1] ELSE Append(given[i - 1], k)
    IN  given[n]

FieldsOf(c) ==
    [id |-> c.id, prompt |-> c.prompt, model |-> c.model, target |-> c.target,
     personaReview |-> c.personaReview, accessibility |-> None]

(* Printed and read again, the comment above the first item is the         *)
(* sequence's own.                                                         *)
Reread(items) ==
    [lead |-> items[1].notes, items |-> [items EXCEPT ![1].notes = {}]]

(* Mutant: the comment above the first item stays where it is.             *)
MergeUnderLead(existing, cases) ==
    LET notesOf(id) == UNION {existing.items[i].notes :
                              i \in {j \in DOMAIN existing.items : existing.items[j].fields.id = id}}
        items == [i \in DOMAIN cases |->
                     [notes |-> notesOf(cases[i].id), fields |-> FieldsOf(cases[i])]]
    IN  Reread([items EXCEPT ![1].notes = @ \cup existing.lead])

(* A case that survives by its id keeps its node and so its comment; the   *)
(* comment above the first belongs to that one.                            *)
mergeCases(existing, cases) ==
    LET old == [existing.items EXCEPT ![1].notes = existing.lead \cup @]
        notesOf(id) == UNION {old[i].notes : i \in {j \in DOMAIN old : old[j].fields.id = id}}
    IN  Reread([i \in DOMAIN cases |->
                   [notes |-> notesOf(cases[i].id), fields |-> FieldsOf(cases[i])]])

NewCases(cases) == Reread([i \in DOMAIN cases |-> [notes |-> {}, fields |-> FieldsOf(cases[i])]])

(* legacyPairFor: personas may still stand under the key's old name.       *)
NameIn(f, key) ==
    IF key = "personaReview" /\ ~Has(f, key) /\ Has(f, "accessibility") THEN "accessibility" ELSE key


takeHeadComment(f) == f[1].notes
Notes(f, key) ==
    IF ~Has(f, NameIn(f, key)) \/ f[1].key = NameIn(f, key) THEN {} ELSE At(f, NameIn(f, key)).notes

editScenarioYaml(f, s) ==
    LET keys == Given(s, Len(SCENARIO_KEYS))
        valueOf(k) == IF k # "cases" THEN s[k]
                      ELSE IF f # <<>> /\ Has(f, k) THEN mergeCases(Value(f, k), s.cases)
                      ELSE NewCases(s.cases)
        notesOf(k) == IF f = <<>> THEN {}
                      ELSE Notes(f, k) \cup (IF k = keys[1] THEN takeHeadComment(f) ELSE {})
    IN  [i \in DOMAIN keys |-> Pair(keys[i], notesOf(keys[i]), valueOf(keys[i]))]

-------------------------------------------------------------------------------

Closed == [platform |-> "none"]

FileInit ==
    /\ file \in Committed
    /\ draft = Closed /\ opened = None /\ saved = None
    /\ touched = {} /\ touchedCases = {}
    /\ commits = 0 /\ edits = 0 /\ saves = 0

EditsByHand ==
    /\ commits < MaxCommits /\ commits' = commits + 1
    /\ \E f \in Committed \ {file} : file' = f
    /\ UNCHANGED <<draft, opened, touched, touchedCases, saved, edits, saves>>

(* The dialog of a scenario in the listing.                                *)
Opens ==
    /\ draft = Closed /\ saves < MaxSaves
    /\ Loads(file)
    /\ draft' = draftOf(loadScenario(file)) /\ opened' = loadScenario(file)
    /\ touched' = {} /\ touchedCases' = {}
    /\ UNCHANGED <<file, saved, commits, edits, saves>>

Edits(fields, ids) ==
    /\ draft # Closed
    /\ edits < MaxEdits /\ edits' = edits + 1
    /\ touched' = touched \cup fields /\ touchedCases' = touchedCases \cup ids
    /\ UNCHANGED <<file, opened, saved, commits, saves>>

Types(field) ==
    /\ draft # Closed
    /\ \E v \in Typed : draft' = [draft EXCEPT ![field] = v]
    /\ Edits({IF field \in {"appPackage", "url"} THEN "target" ELSE field}, {})

TypesTags ==
    /\ draft # Closed
    /\ \E v \in Tags : draft' = [draft EXCEPT !.tags = v]
    /\ Edits({"tags"}, {})

Blanks ==
    /\ draft # Closed
    /\ \E field \in {"appPackage", "url", "model", "personaReview"} :
          /\ draft' = [draft EXCEPT ![field] = None]
          /\ Edits({IF field \in {"appPackage", "url"} THEN "target" ELSE field}, {})

(* The other platform's fields keep what was typed into them.              *)
setPlatform ==
    /\ draft # Closed
    /\ draft' = [draft EXCEPT !.platform = IF @ = "android" THEN "web" ELSE "android"]
    /\ Edits({}, {})

updateCase(i, id) ==
    /\ draft # Closed /\ i \in DOMAIN draft.cases
    /\ draft' = [draft EXCEPT !.cases[i].id = id]
    /\ Edits({}, {draft.cases[i].id, id})

removeCase(i) ==
    /\ draft # Closed /\ i \in DOMAIN draft.cases /\ Len(draft.cases) > 1
    /\ draft' = [draft EXCEPT !.cases = RemoveAt(@, i)]
    /\ Edits({}, {draft.cases[i].id})

addCase(id) ==
    /\ draft # Closed
    /\ \E v \in Typed :
          draft' = [draft EXCEPT !.cases =
              Append(@, [id |-> id, prompt |-> v, model |-> None, target |-> None,
                         personaReview |-> None])]
    /\ Edits({}, {id})

(* PUT. What the server refuses leaves the dialog open; what it writes     *)
(* closes it.                                                              *)
Submits ==
    /\ draft # Closed /\ saves < MaxSaves /\ saves' = saves + 1
    /\ LET s == Body(draft)
           edited == editScenarioYaml(file, s)
       IN  IF IsAccepted(s) /\ Loads(edited)
           THEN file' = edited /\ saved' = s /\ draft' = Closed
           ELSE UNCHANGED <<file, saved, draft>>
    /\ UNCHANGED <<opened, touched, touchedCases, commits, edits>>

FileNext ==
    \/ EditsByHand \/ Opens \/ TypesTags \/ Blanks \/ setPlatform \/ Submits
    \/ \E field \in {"title", "appPackage", "url", "model", "personaReview"} : Types(field)
    \/ \E i \in 1..3, id \in CaseIds : updateCase(i, id)
    \/ \E i \in 1..3 : removeCase(i)
    \/ \E id \in CaseIds : addCase(id)

FileSpec == FileInit /\ [][FileNext]_fileVars

-------------------------------------------------------------------------------
(* Properties. *)

Saves == draft # Closed /\ draft' = Closed

(* The file loads back as the scenario the server answered with, however   *)
(* the file was spelled before and whatever became of it while the dialog  *)
(* was open.                                                               *)
SavesWhatItAnswers == [][Saves => Loads(file') /\ loadScenario(file') = saved']_fileVars

CaseNotes(f, id) ==
    LET cases == Value(f, "cases")
    IN  UNION {cases.items[i].notes \cup (IF i = 1 THEN cases.lead ELSE {}) :
               i \in {j \in DOMAIN cases.items : cases.items[j].fields.id = id}}

CaseIdsOf(f) == {Value(f, "cases").items[i].fields.id : i \in DOMAIN Value(f, "cases").items}

(* A comment stays with what it is about: with the case that keeps its id, *)
(* wherever the edit has moved it, with the key that stays, also under its *)
(* new name, and at the head of the file.                                  *)
CommentsStay ==
    [][Saves /\ Loads(file) =>
          /\ \A id \in CaseIdsOf(file) \cap CaseIdsOf(file') :
                CaseNotes(file', id) = CaseNotes(file, id)
          /\ \A i \in 2..Len(file) :
                \A j \in DOMAIN file' :
                    NameIn(file, file'[j].key) = file[i].key =>
                        file[i].notes \subseteq file'[j].notes
          /\ file[1].notes \subseteq file'[1].notes]_fileVars

SameTarget(a, b) ==
    (a = None <=> b = None) /\ (a # None => a.platform = b.platform /\ a.of = b.of)

(* What nobody touched in the dialog is saved as it was opened: no field   *)
(* is lost on the way through the draft, those of a case the form does not *)
(* show included. (Of a page's viewport see the next.)                     *)
UntouchedStays ==
    [][Saves =>
          /\ \A k \in {"title", "tags", "model", "personaReview"} \ touched : saved'[k] = opened[k]
          /\ "target" \notin touched /\ draft.platform = draftOf(opened).platform =>
                SameTarget(saved'.target, opened.target)
          /\ \A i \in DOMAIN opened.cases :
                opened.cases[i].id \notin touchedCases => Contains(saved'.cases, opened.cases[i])]_fileVars

(* What ScenarioBuilder.tsx says of a case's target, told of the           *)
(* scenario's: what the form does not show is not deleted on save.         *)
NothingIsDeletedUnseen ==
    [][Saves /\ "target" \notin touched /\ draft.platform = draftOf(opened).platform =>
          saved'.target = opened.target]_fileVars

===============================================================================
