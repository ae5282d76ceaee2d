----------------------------- MODULE OAuthRouting -----------------------------
(***************************************************************************)
(* The routing settings of the OAuth channels, which CPA keeps: the models *)
(* that are enabled, the names users call them by, and the highest         *)
(* reasoning effort.  An administrator changes one of them, or applies a   *)
(* preset to several channels, which is undone when a part of it fails.    *)
(* presetMu serialises the administrators; CPA carries each write out, or  *)
(* refuses it, or carries it out and the answer is lost.                   *)
(*                                                                         *)
(* A model has at most one alias here, and one effort can be chosen.       *)
(***************************************************************************)
EXTENDS Naturals, Sequences, FiniteSets, SequencesExt

CONSTANTS
    ChannelList,   \* the channels in the order they are written
    ModelsOf,      \* [channel -> its models]
    AliasesOf,     \* [model -> [name, fork] choices an administrator has]
    Capped         \* models that accept a reasoning effort

ASSUME RoutingAssumption ==
    /\ ChannelList \in Seq(DOMAIN ModelsOf) /\ IsInjective(ChannelList)
    /\ DOMAIN ModelsOf = ToSet(ChannelList)
    /\ \A c, d \in DOMAIN ModelsOf : c # d => ModelsOf[c] \cap ModelsOf[d] = {}
    /\ DOMAIN AliasesOf = UNION {ModelsOf[c] : c \in DOMAIN ModelsOf}
    /\ Capped \subseteq DOMAIN AliasesOf

VARIABLES
    config,   \* what CPA routes by
    job,      \* what holds presetMu
    doubtful  \* history: an alias is gone although its removal was reported undone

routingVars == <<config, job, doubtful>>

ChannelSet == ToSet(ChannelList)
RoutedModels == DOMAIN AliasesOf
Place(c) == CHOOSE i \in DOMAIN ChannelList : ChannelList[i] = c

\* fork: the model keeps its own name beside the alias.
NoAlias == [name |-> "", fork |-> TRUE]
AliasChoices(m) == {NoAlias} \cup {a \in AliasesOf[m] : a.name # m}

Configs == [on : SUBSET RoutedModels, alias : [RoutedModels -> UNION {AliasChoices(m) : m \in RoutedModels}],
            caps : SUBSET Capped]

\* oauthVisibleNames: what users may call; a disabled model has no name.
VisibleNames(cfg, c) ==
    {[name |-> m, model |-> m, alias |-> FALSE] : m \in {m \in ModelsOf[c] \cap cfg.on : cfg.alias[m].fork}}
    \cup {[name |-> cfg.alias[m].name, model |-> m, alias |-> TRUE] :
              m \in {m \in ModelsOf[c] \cap cfg.on : cfg.alias[m] # NoAlias}}

\* validateOAuthAliasNames: within a channel a name belongs to one model.
OwnNames(cfg, c) == \A x, y \in VisibleNames(cfg, c) : x.name = y.name => x.model = y.model

\* Mutant: the other channels are not looked at.
CrossNamesUnchecked(cfg) == TRUE
\* validateCrossChannelAliases: models may share their own name, never an alias.
CrossNames(cfg) ==
    \A c, d \in ChannelSet : c # d =>
        \A x \in VisibleNames(cfg, c), y \in VisibleNames(cfg, d) : x.name = y.name => ~x.alias /\ ~y.alias

ValidNames(cfg) == (\A c \in ChannelSet : OwnNames(cfg, c)) /\ CrossNames(cfg)

\* What users notice: aliases and efforts of models that are off do not count.
Routes(cfg) == [on |-> cfg.on, alias |-> [m \in cfg.on |-> cfg.alias[m]], caps |-> cfg.caps \cap cfg.on]

AllPlain == [on |-> RoutedModels, alias |-> [m \in RoutedModels |-> NoAlias], caps |-> {}]
NoJob == [kind |-> "none", step |-> "idle", model |-> "", todo |-> {}, tried |-> {},
          before |-> AllPlain, target |-> AllPlain, back |-> FALSE, failed |-> FALSE, result |-> ""]

PresetSteps == {"clear", "off", "on", "alias", "caps"}
RoutingJobs ==
    [kind : {"none", "one", "disable", "apply"},
     step : {"idle", "unalias", "uncap", "register", "end"} \cup PresetSteps,
     model : RoutedModels \cup {""}, todo : SUBSET ChannelSet, tried : SUBSET ChannelSet,
     before : Configs, target : Configs, back : BOOLEAN, failed : BOOLEAN,
     result : {"", "failed", "unregistered", "saved", "undone", "broken", "applied", "restored"}]

RoutingTypeOK ==
    /\ config \in Configs /\ job \in RoutingJobs /\ doubtful \in BOOLEAN

RoutingInit == config = AllPlain /\ job = NoJob /\ doubtful = FALSE

\* One request: carried out; refused; carried out, but reported as failed.
Request(new, onward, refused) ==
    \/ config' = new /\ job' = onward
    \/ config' \in {config, new} /\ job' = refused

Ended(result) == [job EXCEPT !.step = "end", !.result = result]
BeginJob(kind, step) == [NoJob EXCEPT !.kind = kind, !.step = step, !.before = config, !.target = config]
PresetFree == job.kind = "none"

-----------------------------------------------------------------------------
(* One setting at a time.                                                  *)

Failed1 == [BeginJob("one", "end") EXCEPT !.result = "failed"]

EnableModel(m) ==
    LET new == [config EXCEPT !.on = @ \cup {m}] IN
    /\ PresetFree /\ m \notin config.on /\ ValidNames(new)
    /\ Request(new, BeginJob("one", "register"), Failed1)
    /\ UNCHANGED doubtful

\* The form covers the enabled models; other aliases of known models go.
SetAliases(c) ==
    \E choice \in [ModelsOf[c] -> UNION {AliasChoices(m) : m \in ModelsOf[c]}] :
        LET new == [config EXCEPT !.alias = [m \in RoutedModels |->
                        IF m \in ModelsOf[c] THEN choice[m] ELSE @[m]]] IN
        /\ PresetFree /\ \A m \in ModelsOf[c] : choice[m] \in AliasChoices(m)
        /\ \A m \in ModelsOf[c] \ config.on : choice[m] = NoAlias
        /\ new # config /\ ValidNames(new)
        /\ Request(new, BeginJob("one", "register"), Failed1)
        /\ UNCHANGED doubtful

SetCaps(c) ==
    \E set \in SUBSET (Capped \cap ModelsOf[c] \cap config.on) :
        LET new == [config EXCEPT !.caps = (@ \ (ModelsOf[c] \cap config.on)) \cup set] IN
        /\ PresetFree /\ new # config
        /\ Request(new, BeginJob("one", "register"), Failed1)
        /\ UNCHANGED doubtful

DisableModel(m) ==
    LET begun == [BeginJob("disable", "unalias") EXCEPT !.model = m] IN
    /\ PresetFree /\ m \in config.on
    /\ Request([config EXCEPT !.on = @ \ {m}], begun, Failed1)
    /\ UNCHANGED doubtful

\* The parts in "undone" are written back, as far as CPA obeys.
Undo(now, undone) ==
    \E kept \in SUBSET {"on", "alias"} :
        /\ config' = [now EXCEPT !.on = IF "on" \in undone \ kept THEN job.before.on ELSE @,
                                 !.alias = IF "alias" \in undone \ kept THEN job.before.alias ELSE @]
        /\ job' = Ended(IF undone \cap kept = {} THEN "undone" ELSE "broken")

\* A removal that is reported as failed is not written back (the model is): if
\* it was carried out the model is enabled again without its alias.
RemoveAlias ==
    LET gone == [config EXCEPT !.alias[job.model] = NoAlias] IN
    /\ job.kind = "disable" /\ job.step = "unalias"
    /\ \/ /\ config' = gone /\ job' = [job EXCEPT !.step = "uncap"] /\ UNCHANGED doubtful
       \/ /\ gone # config /\ \E now \in {config, gone} : Undo(now, {"on"})
          /\ doubtful' = (doubtful \/ config' # job.before)
       \/ gone # config /\ Undo(gone, {"on", "alias"}) /\ doubtful' = (doubtful \/ job'.result = "broken")

RemoveCap ==
    LET gone == [config EXCEPT !.caps = @ \ {job.model}] IN
    /\ job.kind = "disable" /\ job.step = "uncap"
    /\ \/ config' = gone /\ job' = [job EXCEPT !.step = "register"] /\ UNCHANGED doubtful
       \/ /\ gone # config /\ \E now \in {config, gone} : Undo(now, {"on", "alias"})
          /\ doubtful' = (doubtful \/ job'.result = "broken")

-----------------------------------------------------------------------------
(* ApplyOAuthPreset.                                                       *)

\* A preset holds the enabled models with their aliases and efforts.
PresetOK(cfg) == /\ \A m \in RoutedModels \ cfg.on : cfg.alias[m] = NoAlias
                 /\ cfg.caps \subseteq cfg.on /\ ValidNames(cfg)

Merge(preset, chosen) ==
    LET of == UNION {ModelsOf[c] : c \in chosen} IN
    [on |-> (config.on \ of) \cup (preset.on \cap of),
     alias |-> [m \in RoutedModels |-> IF m \in of THEN preset.alias[m] ELSE config.alias[m]],
     caps |-> (config.caps \ of) \cup (preset.caps \cap of)]

\* Every preset a snapshot of a legal configuration may have produced.
Presets == {cfg \in Configs : (\A m \in RoutedModels : cfg.alias[m] \in AliasChoices(m)) /\ PresetOK(cfg)}

ApplyPreset(chosen) ==
    /\ PresetFree /\ chosen # {}
    /\ \E preset \in Presets :
          /\ PresetOK(Merge(preset, chosen))
          /\ job' = [BeginJob("apply", "clear") EXCEPT !.target = Merge(preset, chosen),
                        !.todo = chosen]
    /\ UNCHANGED <<config, doubtful>>

\* The channels are written in order, and put back the last one first.
InHand(todo, back) == CHOOSE c \in todo :
    \A d \in todo : IF back THEN Place(d) <= Place(c) ELSE Place(c) <= Place(d)
Here == InHand(job.todo, job.back)
HereModels == ModelsOf[Here]
Goal == IF job.back THEN job.before ELSE job.target
Working(step) == job.kind = "apply" /\ job.step = step /\ job.todo # {} /\ UNCHANGED doubtful
NextStep(step) == [job EXCEPT !.step = step]

AfterHere == [job EXCEPT !.todo = @ \ {Here}, !.step = IF job.todo = {Here} THEN "register" ELSE "clear"]

\* Mutant: only the channel that failed is put back.
GiveUpLastOnly ==
    IF job.back
    THEN [AfterHere EXCEPT !.failed = TRUE]
    ELSE [job EXCEPT !.back = TRUE, !.todo = {Here}, !.step = "clear"]

\* A failure turns round: every channel that was tried goes back, the last one
\* first.  On the way back it is noted, and the next channel is tried.
GiveUp ==
    IF job.back
    THEN [AfterHere EXCEPT !.failed = TRUE]
    ELSE [job EXCEPT !.back = TRUE, !.todo = job.tried \cup {Here}, !.step = "clear"]

\* Aliases first, so that no target name meets one that is about to go.
ClearAliases ==
    LET new == [config EXCEPT !.alias = [m \in RoutedModels |-> IF m \in HereModels THEN NoAlias ELSE @[m]]] IN
    Working("clear") /\ Request(new, NextStep("off"), GiveUp)

TurnOff ==
    /\ Working("off")
    /\ IF HereModels \cap config.on \subseteq Goal.on THEN job' = NextStep("on") /\ UNCHANGED config
       ELSE \E m \in (HereModels \cap config.on) \ Goal.on :
            \/ config' = [config EXCEPT !.on = @ \ {m}, !.caps = @ \ {m}] /\ UNCHANGED job
            \/ /\ \E part \in SUBSET {m}, cap \in SUBSET {m} :
                     config' = [config EXCEPT !.on = @ \ part, !.caps = @ \ cap]
               /\ job' = GiveUp

TurnOn ==
    /\ Working("on")
    /\ IF HereModels \cap Goal.on \subseteq config.on THEN job' = NextStep("alias") /\ UNCHANGED config
       ELSE \E m \in (HereModels \cap Goal.on) \ config.on :
            Request([config EXCEPT !.on = @ \cup {m}], job, GiveUp)

GiveAliases ==
    LET new == [config EXCEPT !.alias = [m \in RoutedModels |->
                    IF m \in HereModels \cap config.on THEN Goal.alias[m] ELSE @[m]]] IN
    Working("alias") /\ Request(new, NextStep("caps"), GiveUp)

\* Mutant: the efforts are taken from the target on the way back too.
GiveCapsOfTarget ==
    LET set == HereModels \cap config.on
        new == [config EXCEPT !.caps = (@ \ set) \cup (job.target.caps \cap set)] IN
    Working("caps") /\ Request(new, [AfterHere EXCEPT !.tried = @ \cup {Here}], GiveUp)

GiveCaps ==
    LET set == HereModels \cap config.on
        new == [config EXCEPT !.caps = (@ \ set) \cup (Goal.caps \cap set)] IN
    Working("caps") /\ Request(new, [AfterHere EXCEPT !.tried = @ \cup {Here}], GiveUp)

\* refreshOAuthRegistrations, once the settings are final.
RegisterModels ==
    /\ job.step = "register" /\ UNCHANGED <<config, doubtful>>
    /\ \/ job' = Ended(IF job.kind # "apply" THEN "saved"
                       ELSE IF ~job.back THEN "applied" ELSE IF job.failed THEN "broken" ELSE "restored")
       \/ job.kind # "apply" /\ job' = Ended("unregistered")
       \/ job.kind = "apply" /\ job.back /\ job' = Ended("broken")
       \/ job.kind = "apply" /\ ~job.back
          /\ job' = [job EXCEPT !.back = TRUE, !.todo = job.tried, !.step = "clear"]

\* A configuration that went wrong is left to the administrator.
Leave == /\ job.step = "end" /\ job.result # "broken" /\ job' = NoJob /\ UNCHANGED <<config, doubtful>>

RoutingNext ==
    \/ \E m \in RoutedModels : EnableModel(m) \/ DisableModel(m)
    \/ \E c \in ChannelSet : SetAliases(c) \/ SetCaps(c)
    \/ RemoveAlias \/ RemoveCap
    \/ \E chosen \in SUBSET ChannelSet : ApplyPreset(chosen)
    \/ ClearAliases \/ TurnOff \/ TurnOn \/ GiveAliases \/ GiveCaps \/ RegisterModels \/ Leave

RoutingSpec == RoutingInit /\ [][RoutingNext]_routingVars

-----------------------------------------------------------------------------
Claims == UNION {{<<c, x>> : x \in VisibleNames(config, c)} : c \in ChannelSet}
Clear == \A p, q \in Claims : p[2].name = q[2].name =>
            \/ p[2].model = q[2].model
            \/ p[1] # q[1] /\ ~p[2].alias /\ ~q[2].alias

\* A preset that is reported as applied is in force in every channel it names
\* and has left the others alone; one that is reported as undone has left every
\* user-visible setting as it was, whatever request failed, was lost, or was
\* carried out although its answer was lost (ApplyOAuthPreset).  Between the
\* changes of administrators each name a user may call belongs to one model, or
\* is the own name of models of several channels (validateCrossChannelAliases).
RoutingSettled ==
    /\ job.result = "applied" => Routes(config) = Routes(job.target)
    /\ job.result = "restored" => Routes(config) = Routes(job.before)
    /\ job.step \in {"idle", "end"} /\ job.result # "broken" /\ ~doubtful => Clear

-----------------------------------------------------------------------------
(* Why it holds.                                                           *)

\* Users see no difference between a and b at model m, in channel c.
AlikeAt(a, b, m) == /\ m \in a.on <=> m \in b.on
                    /\ m \in a.on => a.alias[m] = b.alias[m] /\ (m \in a.caps <=> m \in b.caps)
Alike(a, b, c) == \A m \in ModelsOf[c] : AlikeAt(a, b, m)

\* A kind of job has its own steps, and a result when it is over.
JobPhases ==
    /\ job.kind = "none" <=> job.step = "idle"
    /\ job.step \in {"unalias", "uncap"} => job.kind = "disable"
    /\ job.step \in PresetSteps => job.kind = "apply" /\ job.todo # {}
    /\ job.kind = "apply" /\ job.step \notin PresetSteps =>
          /\ job.todo = {} /\ job.step \in {"register", "end"}
          /\ job.step = "end" => job.result \in {"applied", "restored", "broken"}
    /\ job.step # "end" => job.result = ""
    /\ job.result = "applied" => job.kind = "apply" /\ ~job.back
    /\ job.result = "restored" => job.kind = "apply" /\ job.back /\ ~job.failed

\* The channel in hand, as far as its steps have come.
HereAsFar ==
    job.step \in PresetSteps =>
        /\ job.step = "on" => HereModels \cap config.on \subseteq Goal.on
        /\ job.step \in {"alias", "caps"} => HereModels \cap config.on = HereModels \cap Goal.on
        /\ job.step = "caps" => \A m \in HereModels \cap config.on : config.alias[m] = Goal.alias[m]

\* On the way out: what was tried is as the preset says, what is not reached is
\* as it was, and what the preset leaves out is the same before and after.
OnTheWayOut ==
    job.kind = "apply" /\ ~job.back =>
        /\ job.tried \cap job.todo = {} /\ job.tried \cup job.todo # {}
        /\ \A c \in job.tried : Alike(config, job.target, c)
        /\ \A c \in ChannelSet \ (job.tried \cup job.todo) : Alike(job.before, job.target, c)
        /\ \A c \in ChannelSet \ job.tried : job.todo = {} \/ c # Here => Alike(config, job.before, c)

\* On the way back: what is done, or never was touched, is as it was.
OnTheWayBack ==
    job.kind = "apply" /\ job.back /\ ~job.failed =>
        \A c \in ChannelSet \ job.todo : Alike(config, job.before, c)

\* A model that is being disabled has lost what the steps took so far.
DisabledAsFar ==
    LET m == job.model
        was == job.before IN
    /\ job.step \in {"unalias", "uncap"} => m \in was.on /\ config.on = was.on \ {m} /\ config.caps = was.caps
    /\ job.step = "unalias" => config.alias = was.alias
    /\ job.step = "uncap" => config.alias = [was.alias EXCEPT ![m] = NoAlias]

\* Names are valid before and after a job; a preset passes through others.
NamesAsFar ==
    /\ job.kind = "apply" => ValidNames(job.target)
    /\ ~doubtful => ValidNames(job.before)
    /\ ~doubtful /\ job.kind # "apply" => ValidNames(config)

RoutingInv == /\ RoutingTypeOK /\ JobPhases /\ HereAsFar /\ OnTheWayOut /\ OnTheWayBack
              /\ DisabledAsFar /\ NamesAsFar
=============================================================================
