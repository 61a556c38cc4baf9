-------------------------- MODULE MixinValidation --------------------------
(***************************************************************************)
(* validate-mixin: the stages of one validation (resolve, mapping-health,  *)
(* parse, target-lookup), in which mappings, signatures and remaps may     *)
(* fail and the time may run out, the issues that are reported then, with  *)
(* how sure they are, the verdict, the filters of what is shown, and the   *)
(* one retry with the mappings of Maven first.                             *)
(***************************************************************************)
EXTENDS Naturals, Sequences, FiniteSets, SequencesExt, RemappedMembers

CONSTANTS Mixins,     \* the parsed files: see IsMixin
          Classes,    \* the members that each class of the game really has, in the names
                      \* that are asked for; a target that is not in it does not exist
          Filters     \* the minSeverity, hideUncertain and category filter of a call

(* A member of a mixin: what it names, in which form, and the targets of the class that
   owns it. "once" is a name, "twice" one that must match two methods, "described" one
   with a descriptor, "pattern" what is not evaluated, "empty" a quantifier of no match. *)
Forms == {"once", "twice", "described", "pattern", "empty"}
IsMixin(x) ==
    /\ x.targets \in Seq(STRING) /\ "file" \notin Range(x.targets) /\ x.unread \in BOOLEAN
    /\ \A m \in x.members : m.form \in Forms /\ m.names # {} /\ m.targets \subseteq Range(x.targets)

(* The members of a class differ in their name, kind or descriptor. *)
IsClass(members) ==
    /\ IsFiniteSet(members)
    /\ \A c, d \in members :
          c.name = d.name /\ c.kind = d.kind /\ c.descriptor = d.descriptor => c = d

IssueCategories == {"mapping", "configuration", "resolution", "validation", "parse"}
IsFilter(f) ==
    f \in [minSeverity : {"error", "warning", "all"}, hideUncertain : BOOLEAN,
           categories : SUBSET IssueCategories]

ASSUME MixinAssumption ==
    /\ \A x \in Mixins : IsMixin(x)
    /\ \A t \in DOMAIN Classes : IsClass(Classes[t])
    /\ \A f \in Filters : IsFilter(f)

VARIABLES mixin,   \* the file
          stage,   \* what the run is at
          pass,    \* the run: its priority, its mappings and their health, and whether its
                   \* time was over before all targets were looked up
          looked,  \* what is known of the targets looked up so far, in order
          choice,  \* the filters of the call
          earlier,   \* the result of the run before a retry, or none
          given    \* the answer, or none

mixinVars == <<mixin, stage, pass, looked, choice, earlier, given>>

None == [status |-> "none"]
Failed == [status |-> "error"]

-----------------------------------------------------------------------------
(* What is known of a target, and the members that its signature lists. *)
Loaded(t) == \E i \in DOMAIN looked : looked[i].target = t /\ looked[i].signature = "loaded"
Known(t) == looked[CHOOSE i \in DOMAIN looked : looked[i].target = t]
LookedUp(t) == \E i \in DOMAIN looked : looked[i].target = t
MembersOf(t) == {Listed(m, Known(t).remaps[m]) : m \in Classes[t]}

\* A synthetic member that stays under its name of the jar counts for nothing.
Unremapped(t) == {m \in Classes[t] : Known(t).remaps[m] = "unremapped" /\ ~m.synthetic}
Guessed(t) == {m \in Classes[t] : Known(t).remaps[m] = "guessed"}
(* remapFailedMembers: the names that the remap failed for are those of the jar. *)
RemapFailed(t, name) ==
    ~Known(t).whole /\ \E m \in Unremapped(t) \cup Guessed(t) : SourceName(m) = name

-----------------------------------------------------------------------------
MutSureness == IF pass.applied # "requested" THEN "uncertain" ELSE "definite"
(* finalizeValidateMixinPipeline: how sure the run can be at all *)
Sureness ==
    IF pass.applied # "requested" THEN "uncertain"
    ELSE IF \E i \in DOMAIN looked : Loaded(looked[i].target) /\ ~looked[i].whole
                                     /\ Unremapped(looked[i].target) # {}
         THEN "likely" ELSE "definite"

(* runTargetLookupStage makes the report unhealthy for what it met. *)
Healthy ==
    pass.healthy /\ \A i \in DOMAIN looked : looked[i].mapped /\ looked[i].signature \in {"loaded", "missing"}

Issue(about, target, severity, confidence, path, category) ==
    [about |-> about, target |-> target, severity |-> severity, confidence |-> confidence,
     path |-> path, category |-> category]

(* validateParsedMixin, for a target that could not be loaded *)
TargetIssue(t) ==
    IF ~LookedUp(t) THEN {}
    ELSE IF ~Known(t).mapped
         THEN {Issue({}, t, "warning", "uncertain", "target-mapping-failed", "mapping")}
    ELSE IF Known(t).signature \in {"exists", "unknown"}
         THEN {Issue({}, t, "warning", "uncertain", "source-signature-unavailable", "resolution")}
    ELSE {Issue({}, t, "error", Sureness, "target-class-missing", "validation")}

(* validateInjection, validateShadow and validateAccessor: what a loaded target says of a
   member. *)
Matches(m, t) == {l \in MembersOf(t) : l.kind = m.kind /\ l.name \in m.names}
Degraded(t, name) == RemapFailed(t, name) \/ ~Healthy

MatchOf(m, t) ==
    CASE m.form \in {"pattern"} -> "skipped"
      [] m.form = "empty" -> "not-found"
      [] m.form = "twice" -> IF Cardinality(Matches(m, t)) >= 2 THEN "resolved" ELSE "not-found"
      [] m.form = "described" ->
             IF \E l \in Matches(m, t) : l.descriptor = m.descriptor THEN "resolved" ELSE "not-found"
      [] m.form = "once" -> IF Matches(m, t) # {} THEN "resolved" ELSE "not-found"

MemberIssue(m, t) ==
    LET name == CHOOSE n \in m.names : TRUE
        path == IF RemapFailed(t, name) THEN "member-remap-failed" ELSE "none"
        category == IF path = "none" THEN "validation" ELSE "resolution"
    IN  IF MatchOf(m, t) # "not-found" THEN {}
        ELSE IF m.form = "empty" THEN {Issue({m}, t, "warning", "likely", "none", "validation")}
        ELSE IF Matches(m, t) = {}
             THEN {Issue({m}, t, IF RemapFailed(t, name) /\ ~pass.remappable THEN "warning" ELSE "error",
                         IF RemapFailed(t, name) THEN "uncertain" ELSE Sureness, path, category)}
        ELSE IF m.form = "described"
             THEN {Issue({m}, t, IF Degraded(t, name) THEN "warning" ELSE "error",
                         IF Degraded(t, name) THEN "uncertain" ELSE Sureness, path, category)}
        ELSE {Issue({m}, t, "warning", "uncertain", path, category)}

TargetsLoaded == {t \in Range(mixin.targets) : Loaded(t)}
Places == {p \in mixin.members \X Range(mixin.targets) : p[2] \in p[1].targets}

\* A parse warning about an @Accessor, @Invoker or @Shadow becomes an issue.
Issues ==
    (UNION {TargetIssue(t) : t \in Range(mixin.targets) \ TargetsLoaded})
    \cup (UNION {MemberIssue(p[1], p[2]) : p \in {q \in Places : Loaded(q[2])}})
    \cup (IF mixin.unread THEN {Issue({}, "file", "warning", "uncertain", "none", "parse")} ELSE {})

(* addSkippedMembers: for a target that is missing for certain nothing is skipped. *)
Skipped ==
    {p \in Places : IF Loaded(p[2]) THEN MatchOf(p[1], p[2]) = "skipped"
                    ELSE \A i \in TargetIssue(p[2]) : i.severity = "warning"}

-----------------------------------------------------------------------------
(* computeValidationStatus and refreshMixinValidationOutcome, over these issues *)
StatusOf(issues) ==
    IF \E i \in issues : i.severity = "error" THEN "invalid"
    ELSE IF issues # {} \/ Skipped # {} \/ pass.exhausted THEN "partial" ELSE "full"
Definite(issues) == {i \in issues : i.severity = "error" /\ i.confidence # "uncertain"}

(* What minSeverity and hideUncertain leave decides; the filter of categories only shows
   less: the verdict that was computed before it is put back after the last refresh. *)
Judged(filters) ==
    {i \in Issues : /\ filters.minSeverity = "error" => i.severity = "error"
                    /\ filters.hideUncertain => i.confidence # "uncertain"}
Shown(filters) ==
    IF filters.categories = {} THEN Judged(filters)
    ELSE {i \in Judged(filters) : i.category \in filters.categories}

Result(filters) ==
    [status |-> StatusOf(Judged(filters)), valid |-> Definite(Judged(filters)) = {},
     issues |-> Shown(filters), exhausted |-> pass.exhausted, priority |-> pass.priority]

(* shouldRetryValidateMixinWithMavenFirst *)
RetryPaths == {"source-signature-unavailable", "target-mapping-failed", "member-remap-failed"}
Retries(filters) ==
    /\ ~pass.retry /\ pass.priority = "loom-first"
    /\ Result(filters).status = "partial" /\ ~pass.exhausted
    /\ Skipped # {} \/ \E i \in Judged(filters) : i.path \in RetryPaths

-----------------------------------------------------------------------------
FirstPass(priority, retry) ==
    [priority |-> priority, retry |-> retry, lookup |-> "none", applied |-> "requested",
     healthy |-> TRUE, remappable |-> TRUE, exhausted |-> FALSE]

MixinInit ==
    /\ mixin \in Mixins
    /\ \E priority \in {"loom-first", "maven-first"} : pass = FirstPass(priority, FALSE)
    /\ stage = "resolve" /\ looked = <<>> /\ choice = None /\ earlier = None /\ given = None

(* runResolveStage: the jar has the names that are asked for, or those of the obfuscated
   jar, from which they are remapped, or, out of the Loom cache, those of another mapping. *)
ResolveStage(lookup) ==
    /\ stage = "resolve"
    /\ pass' = [pass EXCEPT !.lookup = lookup,
                            !.applied = IF lookup = "other" THEN "other" ELSE "requested"]
    /\ stage' = "health" /\ UNCHANGED <<mixin, looked, choice, earlier, given>>

(* runMappingHealthStage: what is missing, or all when the probe fails *)
HealthStage(healthy, remappable) ==
    /\ stage = "health" /\ (remappable \/ pass.lookup # "same")
    /\ pass' = [pass EXCEPT !.healthy = healthy, !.remappable = remappable]
    /\ stage' = "targets" /\ UNCHANGED <<mixin, looked, choice, earlier, given>>

(* A stage before the lookup that throws or has used up its time ends the validation with
   an error; a retry, with the result there was. *)
StageFails ==
    /\ stage \in {"resolve", "health"}
    /\ given' = IF pass.retry THEN earlier ELSE Failed
    /\ stage' = "answered" /\ UNCHANGED <<mixin, pass, looked, choice, earlier>>

(* processSingleMixinTarget *)
Plain(t) == [m \in IF t \in DOMAIN Classes THEN Classes[t] ELSE {} |-> "kept"]
Seen(t, mappings, signatures, whole, remaps) ==
    [target : {t}, mapped : mappings, signature : signatures, whole : {whole}, remaps : remaps]

LooksLike(t) ==
    LET remapped == pass.lookup # "same"
        mappings == IF remapped THEN BOOLEAN ELSE {TRUE}
        outcomes ==
            IF remapped THEN {r \in [DOMAIN Plain(t) -> Remaps] :
                                  \A m \in DOMAIN r : m.synthetic => r[m] \in {"kept", "unremapped"}}
            ELSE {Plain(t)}
        whole == [m \in DOMAIN Plain(t) |-> "unremapped"]
    IN  Seen(t, mappings, {"exists", "missing", "unknown"}, FALSE, {Plain(t)})
        \cup Seen(t, mappings, {"loaded"}, FALSE, outcomes)
        \cup Seen(t, IF remapped THEN mappings ELSE {}, {"loaded"}, TRUE, {whole})

LookUpTarget ==
    /\ stage = "targets" /\ Len(looked) < Len(mixin.targets) /\ ~pass.exhausted
    /\ \E seen \in LooksLike(mixin.targets[Len(looked) + 1]) :
          /\ seen.signature = "loaded" => seen.target \in DOMAIN Classes
          /\ looked' = Append(looked, seen)
          /\ pass' = IF seen.whole THEN [pass EXCEPT !.applied = "lookup"] ELSE pass
    /\ UNCHANGED <<mixin, stage, choice, earlier, given>>

(* The time of the stage is over before another target: the others are left out. *)
RunOut ==
    /\ stage = "targets" /\ Len(looked) < Len(mixin.targets) /\ ~pass.exhausted
    /\ pass' = [pass EXCEPT !.exhausted = TRUE]
    /\ UNCHANGED <<mixin, stage, looked, choice, earlier, given>>

(* finalizeValidateMixinPipeline *)
Finalize(filters) ==
    /\ stage = "targets" /\ (Len(looked) = Len(mixin.targets) \/ pass.exhausted)
    /\ pass.retry => filters = choice
    /\ choice' = filters
    /\ IF Retries(filters)
       THEN /\ earlier' = Result(filters) /\ stage' = "resolve" /\ looked' = <<>>
            /\ pass' = FirstPass("maven-first", TRUE) /\ UNCHANGED given
       ELSE /\ given' = Result(filters) /\ stage' = "answered" /\ UNCHANGED <<pass, looked, earlier>>
    /\ UNCHANGED mixin

MixinNext ==
    \/ \E lookup \in {"same", "remapped", "other"} : ResolveStage(lookup)
    \/ \E healthy, remappable \in BOOLEAN : HealthStage(healthy, remappable)
    \/ StageFails \/ LookUpTarget \/ RunOut
    \/ \E filters \in Filters : Finalize(filters)

MixinSpec == MixinInit /\ [][MixinNext]_mixinVars

-----------------------------------------------------------------------------
MixinTypeOK ==
    /\ mixin \in Mixins /\ stage \in {"resolve", "health", "targets", "answered"}
    /\ Len(looked) <= Len(mixin.targets) /\ choice \in Filters \cup {None}
    /\ {earlier.status, given.status} \subseteq {"none", "error", "invalid", "partial", "full"}

AtEnd == stage = "targets" /\ (Len(looked) = Len(mixin.targets) \/ pass.exhausted)

(* Whether the class really has what the member of the mixin asks of it. *)
Really(m, t) ==
    /\ t \in DOMAIN Classes
    /\ LET there == {c \in Classes[t] : c.kind = m.kind /\ c.name \in m.names}
       IN  CASE m.form \in {"once", "pattern"} -> m.form = "pattern" \/ there # {}
             [] m.form = "twice" -> Cardinality(there) >= 2
             [] m.form = "described" -> \E c \in there : c.descriptor = m.descriptor
             [] m.form = "empty" -> FALSE

(* What the remap changed without a word: a guess among ambiguous candidates, a descriptor
   with an unmapped class, a synthetic member. *)
LostSilently(m, t) ==
    \E c \in Classes[t] :
        /\ c.kind = m.kind /\ c.name \in m.names
        /\ Known(t).remaps[c] \in Silently
           \/ (c.synthetic /\ Known(t).remaps[c] = "unremapped")

(* An error about a member that is there is not called definite, unless the remap lost the
   member silently (notFoundDegradation, validateInjection). *)
ErrorsHedged ==
    AtEnd => \A i \in Issues : \A m \in i.about :
        (i.severity = "error" /\ Really(m, i.target)) =>
            i.confidence # "definite" \/ LostSilently(m, i.target)

(* A member that is listed as what it is not, under a guess or under its name in the jar,
   and that fits only so what the mixin asks for. *)
Fits(l, m) ==
    l.kind = m.kind /\ l.name \in m.names /\ (m.form = "described" => l.descriptor = m.descriptor)
MistakenFor(m, t) ==
    \E c \in Classes[t] : Fits(Listed(c, Known(t).remaps[c]), m) /\ ~Fits(c, m)

(* A mixin that is called fully valid is: every target was looked up and every member is
   there, or one was taken for it, whichever lookups failed or were cut short, unless the
   call hid the issues (computeValidationStatus). *)
FullIsTrue ==
    (given.status = "full" /\ choice.minSeverity = "all" /\ ~choice.hideUncertain) =>
        /\ Range(mixin.targets) \subseteq DOMAIN Classes /\ ~given.exhausted
        /\ \A p \in Places : Really(p[1], p[2]) \/ MistakenFor(p[1], p[2])

(* Running out of time costs no target a wrong error: those left out have no issue, and
   the result says so and is not retried (runTargetLookupStage). *)
BudgetTold ==
    (AtEnd /\ pass.exhausted) =>
        /\ \A i \in Issues : i.target \in Range(mixin.targets) => LookedUp(i.target)
        /\ \A filters \in Filters : Result(filters).status # "full" /\ ~Retries(filters)

(* A filter of what is shown by category changes neither the verdict nor the retry
   (finalizeValidateMixinPipeline). *)
CategoriesOnlyShow ==
    AtEnd => \A filters \in {f \in Filters : f.categories # {}} :
        LET all == [filters EXCEPT !.categories = {}]
        IN  /\ Result(filters).status = Result(all).status
            /\ Result(filters).valid = Result(all).valid /\ Retries(filters) = Retries(all)

(* validate-mixin says no more than it knows. *)
MixinRight == ErrorsHedged /\ FullIsTrue /\ BudgetTold /\ CategoriesOnlyShow

=============================================================================
