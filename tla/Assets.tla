-------------------------------- MODULE Assets --------------------------------
(***************************************************************************)
(* The assets generated for a project: the engine writes them, users edit  *)
(* them, a job generates them again around those edits, and the platform   *)
(* indexes them for the workspace and renders them for a delivery          *)
(* (api/adapters/generated_assets.py, delivery_generated_assets.py,        *)
(* delivery_package.py, workspace.py; engine generate.py).                 *)
(*                                                                         *)
(* One asset stands for each family that the code treats in its own way.   *)
(* A text is its author, the version of the brand facts it states, and its *)
(* form: whole, thin where facts that are missing were left out, or open   *)
(* where placeholders stand in their place.                                *)
(***************************************************************************)
EXTENDS Naturals, Sequences

CONSTANTS
    Versions,      \* bound: versions of the brand facts, 1 .. Versions
    AssetEvents    \* bound: sets of how often each thing happens, [AssetEvent -> Nat]

AssetEvent == {"edit", "facts", "schema", "question", "generate", "deliver", "kill"}

ASSUME AssetsAssumption ==
    /\ Versions \in Nat \ {0}
    /\ AssetEvents \subseteq [AssetEvent -> Nat]

VARIABLES
    files,       \* the project's assets
    marked,      \* .citeaura-manual-edits.json
    indexed,     \* index.json: what the workspace says of each
    library,     \* the brand facts: version, complete, approved
    typed,       \* the evidence for the schema's special type
    asked,       \* whether the question of the outline and the draft is active
    generation,  \* the job that generates
    saving,      \* the request that saves an edit
    package,     \* the assets of the last delivery
    edited,      \* history: what users saved and the platform marked
    unsafe,      \* history: a generation was killed before it restored the edits
    mayAsset     \* how often what may still happen

assetsVars == <<files, marked, indexed, library, typed, asked, generation, saving, package,
                edited, unsafe, mayAsset>>

\* The families, in the order the engine writes them.
Families == <<"llms", "schema", "snippet", "outline", "draft">>
Family == {Families[i] : i \in 1 .. Len(Families)}
FromFacts == {"llms", "schema", "snippet"}
OfQuestion == {"outline", "draft"}

Texts == [by : {"engine", "user", "review", "chinese"}, states : 1 .. Versions,
          form : {"whole", "thin", "open"}]
NoAsset == [by |-> "nobody", states |-> 0, form |-> "none"]

Exists(text) == text # NoAsset
InEnglish(text) == text.by # "chinese"
Unfinished(text) == text.form = "open"

NoGeneration == [step |-> "none", aside |-> [f \in Family |-> NoAsset], wrote |-> 0]
NoSaving == [step |-> "none", family |-> "llms"]
NoPackage == [f \in Family |-> [status |-> "none", text |-> NoAsset, facts |-> 0]]

Locked == generation.step # "none"

CanAsset(event) == mayAsset[event] > 0
UseAsset(event) == CanAsset(event) /\ mayAsset' = [mayAsset EXCEPT ![event] = @ - 1]

AssetsInit ==
    /\ mayAsset \in AssetEvents
    \* Nothing generated yet, or by an engine that wrote Chinese.
    /\ \E old \in {NoAsset, [by |-> "chinese", states |-> 1, form |-> "whole"]} : files = [f \in Family |-> old]
    /\ marked = {} /\ indexed = [f \in Family |-> "absent"]
    /\ library \in [version : {1}, complete : BOOLEAN, approved : BOOLEAN]
    /\ typed \in {"none", "inferred", "confirmed"}
    /\ asked = TRUE
    /\ generation = NoGeneration /\ saving = NoSaving
    /\ package = NoPackage
    /\ edited = [f \in Family |-> NoAsset] /\ unsafe = FALSE

-----------------------------------------------------------------------------
(* What the engine and the platform write.                                 *)

\* A text of the facts as they are: whole, or missing some.
Text(by, otherwise) ==
    [by |-> by, states |-> library.version, form |-> IF library.complete THEN "whole" ELSE otherwise]

\* What the engine writes for each family: it leaves out what is missing, writes
\* no definition without one, a special schema when its type is configured, and
\* a draft when a model answers.
LlmsText == {Text("engine", "thin")}
SchemaText == {Text("engine", "thin"), NoAsset}
SnippetText == {IF library.complete THEN Text("engine", "thin") ELSE NoAsset}
OutlineText == IF asked THEN {Text("engine", "thin")} ELSE {files["outline"]}
DraftText == IF asked THEN {Text("engine", "thin"), files["draft"]} ELSE {files["draft"]}

EngineWrites(f) ==
    CASE f = "llms"    -> LlmsText
      [] f = "schema"  -> SchemaText
      [] f = "snippet" -> SnippetText
      [] f = "outline" -> OutlineText
      [] f = "draft"   -> DraftText

\* The index for answering engines is kept as it is unless it is unfinished, or
\* not in English; what is made of facts nobody approved says so.
LlmsOf(text) ==
    IF Exists(text) /\ InEnglish(text) /\ ~Unfinished(text) THEN text
    ELSE Text(IF library.complete /\ library.approved THEN "engine" ELSE "review", "open")

\* A schema keeps its values, its placeholders are filled from the facts; one of
\* a type that nothing supports is left out.
TypeDecision == IF typed = "none" THEN "omitted" ELSE "included"
SchemaOf(text) ==
    IF ~Exists(text) \/ TypeDecision = "omitted" THEN NoAsset
    ELSE IF InEnglish(text) /\ ~Unfinished(text) THEN text
    ELSE Text("engine", "open")

\* A snippet and an outline are written anew, whatever they were.
SnippetOf(text) == IF Exists(text) THEN Text("engine", "open") ELSE NoAsset
OutlineOf(text) == IF Exists(text) /\ asked THEN Text("engine", "thin") ELSE NoAsset

\* The families rendered in English; a draft is not among them.
Rendered(f, text) ==
    CASE f = "llms"    -> LlmsOf(text)
      [] f = "schema"  -> SchemaOf(text)
      [] f = "snippet" -> SnippetOf(text)
      [] f = "outline" -> OutlineOf(text)
      [] f = "draft"   -> NoAsset

\* Only what is not in English is replaced by what is rendered.
Replaced(f, text) ==
    IF Exists(text) /\ Exists(Rendered(f, text)) /\ ~InEnglish(text) THEN Rendered(f, text) ELSE text

\* What the workspace does not show.
Hidden(f, text) ==
    \/ f \in OfQuestion /\ ~asked
    \/ f = "schema" /\ TypeDecision = "omitted"
    \/ ~InEnglish(text)

Pending == ~library.approved

IndexStatus(f, text) ==
    IF ~Exists(text) THEN "absent"
    ELSE IF Hidden(f, text) THEN "hidden"
    ELSE IF f \in OfQuestion THEN "draft"
    ELSE IF \/ f = "schema" /\ typed = "inferred"
            \/ f \in FromFacts /\ Pending
            \/ Unfinished(text) THEN "review_required"
    ELSE "deployable"

\* The platform brings the assets in order and indexes them.
Normalized ==
    /\ files' = [f \in Family |-> Replaced(f, files[f])]
    /\ indexed' = [f \in Family |-> IndexStatus(f, files'[f])]

-----------------------------------------------------------------------------
(* A user saves an edit, in three steps that each take the lock.           *)

\* Only what the index shows can be saved.
SaveNormalizes(f) ==
    /\ CanAsset("edit") /\ saving.step = "none" /\ ~Locked
    /\ Normalized
    /\ saving' = IF indexed'[f] \in {"absent", "hidden"} THEN saving
                 ELSE [step |-> "write", family |-> f]
    /\ UNCHANGED <<marked, library, typed, asked, generation, package, edited, unsafe, mayAsset>>

\* bound: the edit states the facts of the day, or leaves placeholders.
SaveWrites ==
    /\ saving.step = "write" /\ ~Locked /\ UseAsset("edit")
    /\ \E form \in {"whole", "open"} :
         files' = [files EXCEPT ![saving.family] =
                    [by |-> "user", states |-> library.version, form |-> form]]
    /\ saving' = [saving EXCEPT !.step = "mark"]
    /\ edited' = [edited EXCEPT ![saving.family] =
                   IF saving.family \in marked THEN files'[saving.family] ELSE @]
    /\ UNCHANGED <<marked, indexed, library, typed, asked, generation, package, unsafe>>

SaveMarks ==
    /\ saving.step = "mark" /\ ~Locked
    /\ marked' = marked \cup {saving.family}
    /\ edited' = [edited EXCEPT ![saving.family] = files[saving.family]]
    /\ saving' = [saving EXCEPT !.step = "index"]
    /\ UNCHANGED <<files, indexed, library, typed, asked, generation, package, unsafe, mayAsset>>

SaveIndexes ==
    /\ saving.step = "index" /\ ~Locked
    /\ Normalized
    /\ saving' = NoSaving
    /\ UNCHANGED <<marked, library, typed, asked, generation, package, edited, unsafe, mayAsset>>

\* The lock is not free in time, or the process ends.
SaveFails ==
    /\ saving.step # "none"
    /\ \/ Locked /\ UNCHANGED mayAsset
       \/ ~Locked /\ UseAsset("kill")
    /\ saving' = NoSaving
    /\ UNCHANGED <<files, marked, indexed, library, typed, asked, generation, package, edited, unsafe>>

-----------------------------------------------------------------------------
(* A job generates the assets.                                             *)

\* The edits are put aside,
SetAside(f) == IF f \in marked /\ InEnglish(files[f]) THEN files[f] ELSE NoAsset

GenerateBegins ==
    /\ ~Locked /\ UseAsset("generate")
    /\ generation' = [step |-> "engine", wrote |-> 0, aside |-> [f \in Family |-> SetAside(f)]]
    /\ UNCHANGED <<files, marked, indexed, library, typed, asked, saving, package, edited, unsafe>>

\* the engine writes one family after the other,
GenerateWrites ==
    /\ generation.step = "engine" /\ generation.wrote < Len(Families)
    /\ generation' = [generation EXCEPT !.wrote = @ + 1]
    /\ LET f == Families[generation'.wrote]
       IN  \E text \in EngineWrites(f) : files' = [files EXCEPT ![f] = text]
    /\ UNCHANGED <<marked, indexed, library, typed, asked, saving, package, edited, unsafe, mayAsset>>

\* and whether it ends or raises, the edits are put back.
GenerateRestores ==
    /\ generation.step = "engine"
    /\ files' = [f \in Family |-> IF Exists(generation.aside[f]) THEN generation.aside[f] ELSE files[f]]
    /\ generation' = IF generation.wrote = Len(Families) THEN [NoGeneration EXCEPT !.step = "index"] ELSE NoGeneration
    /\ UNCHANGED <<marked, indexed, library, typed, asked, saving, package, edited, unsafe, mayAsset>>

GenerateIndexes ==
    /\ generation.step = "index"
    /\ Normalized
    /\ generation' = NoGeneration
    /\ UNCHANGED <<marked, library, typed, asked, saving, package, edited, unsafe, mayAsset>>

\* The child that generates is killed: nothing is put back.
GenerateDies ==
    /\ Locked /\ UseAsset("kill")
    /\ generation' = NoGeneration
    /\ unsafe' = (unsafe \/ generation.step = "engine")
    /\ UNCHANGED <<files, marked, indexed, library, typed, asked, saving, package, edited>>

-----------------------------------------------------------------------------
(* A delivery renders them.                                                *)

\* A plausible bug: the facts count as approved when there are any.
StatusOfAnyFacts(f, text) ==
    IF ~Exists(text) THEN "none"
    ELSE IF Unfinished(text) \/ f = "outline" \/ (f = "schema" /\ text.form = "thin")
         THEN "template"
    ELSE IF f = "draft" \/ text.by = "review" THEN "needs_review"
    ELSE "ready"

\* What the package says of an asset.
AssetStatus(f, text) ==
    IF ~Exists(text) THEN "none"
    ELSE IF Unfinished(text) \/ f = "outline" \/ (f = "schema" /\ text.form = "thin")
         THEN "template"
    ELSE IF \/ f = "draft" \/ text.by = "review"
            \/ f \in FromFacts /\ Pending
            \/ f = "schema" /\ typed = "inferred" THEN "needs_review"
    ELSE "ready"

\* A draft is copied as it is; the index for answering engines is made even when
\* the project has none.
Delivered(f, text) == IF f = "draft" THEN text ELSE Rendered(f, text)

\* A draft that is not in English stops the delivery.
Deliver ==
    /\ ~Locked /\ UseAsset("deliver")
    /\ Normalized
    /\ package' =
         IF Exists(files'["draft"]) /\ ~InEnglish(files'["draft"]) THEN package
         ELSE [f \in Family |->
                LET text == Delivered(f, files'[f])
                IN  [status |-> AssetStatus(f, text), text |-> text, facts |-> library.version]]
    /\ UNCHANGED <<marked, library, typed, asked, generation, saving, edited, unsafe>>

-----------------------------------------------------------------------------
(* What the assets are made of changes.                                    *)

\* The facts are saved as a draft or approved; a job that runs holds the lock.
ChangeFacts ==
    /\ ~Locked /\ UseAsset("facts") /\ library.version < Versions
    /\ \E complete, approved \in BOOLEAN :
         library' = [version |-> library.version + 1, complete |-> complete, approved |-> approved]
    /\ UNCHANGED <<files, marked, indexed, typed, asked, generation, saving, package, edited, unsafe>>

\* A type is supported by the site's own data or a confirmed claim; a confident
\* claim that a crawled page bears out has to be reviewed.
BorneOut(claim) == claim.confident /\ claim.quoted
TypeEvidence(onSite, claim) ==
    IF onSite \/ claim.confirmed THEN "confirmed" ELSE IF BorneOut(claim) THEN "inferred" ELSE "none"

ChangeType ==
    /\ ~Locked /\ UseAsset("schema")
    /\ \E onSite \in BOOLEAN, claim \in [confirmed : BOOLEAN, confident : BOOLEAN, quoted : BOOLEAN] :
         typed' = TypeEvidence(onSite, claim)
    /\ UNCHANGED <<files, marked, indexed, library, asked, generation, saving, package, edited, unsafe>>

RetireQuestion ==
    /\ ~Locked /\ UseAsset("question")
    /\ asked' = ~asked
    /\ UNCHANGED <<files, marked, indexed, library, typed, generation, saving, package, edited, unsafe>>

AssetsNext ==
    \/ \E f \in Family : SaveNormalizes(f)
    \/ SaveWrites
    \/ SaveMarks
    \/ SaveIndexes
    \/ SaveFails
    \/ GenerateBegins
    \/ GenerateWrites
    \/ GenerateRestores
    \/ GenerateIndexes
    \/ GenerateDies
    \/ Deliver
    \/ ChangeFacts
    \/ ChangeType
    \/ RetireQuestion

AssetsSpec == AssetsInit /\ [][AssetsNext]_assetsVars

-----------------------------------------------------------------------------
(* Properties.                                                             *)

AssetsTypeOK ==
    /\ files \in [Family -> Texts \cup {NoAsset}] /\ edited \in [Family -> Texts \cup {NoAsset}]
    /\ marked \subseteq Family /\ generation.wrote \in 0 .. Len(Families)
    /\ indexed \in [Family -> {"absent", "hidden", "deployable", "review_required", "draft"}]
    /\ library \in [version : 1 .. Versions, complete : BOOLEAN, approved : BOOLEAN]
    /\ typed \in {"none", "inferred", "confirmed"}
    /\ generation.step \in {"none", "engine", "index"}
    /\ saving \in [step : {"none", "write", "mark", "index"}, family : Family]
    /\ mayAsset \in [AssetEvent -> Nat]

\* What a user saved and the platform marked is what the project has, through
\* every generation, also one that raises, and every upkeep and delivery, for as
\* long as no generation is killed between the engine's writes and the restore.
EditsSurvive ==
    \A f \in Family :
      (Exists(edited[f]) /\ generation.step # "engine" /\ ~unsafe) => files[f] = edited[f]

\* What a package calls ready is never more than what the workspace let through
\* at that moment: finished, of approved facts, of a type the site confirms.
\* A text that was kept may state older facts, a text that is rendered may not.
ReadyIsApproved ==
    [][package' # package =>
         \A f \in FromFacts : package'[f].status = "ready" =>
           /\ library.approved /\ ~Unfinished(package'[f].text)
           /\ f = "schema" => indexed'[f] \in {"deployable", "review_required"} /\ typed = "confirmed"
           /\ package'[f].text.by = "review" \/ f = "snippet" => package'[f].text.states = library.version
      ]_assetsVars

\* A text that a user reviewed lasts, and no package passes one off as ready that
\* the workspace did not let through.
ReviewIsRespected == []EditsSurvive /\ ReadyIsApproved
=============================================================================
