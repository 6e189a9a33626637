----------------------------- MODULE Generation -----------------------------
(***************************************************************************)
(* From the design contract to the checked project: design_system's        *)
(* contract, implement_system with its chunks, their cached responses, the *)
(* recovery of a manifest, the merge and its conflict gate, extract_project*)
(* and the compliance check of the test stage.                             *)
(*                                                                         *)
(* A run executes implement_system once: conflicts between its chunks make *)
(* the stage, and the run, fail. The process may die anywhere; files and   *)
(* the cache of responses stay, and the next run writes over them.         *)
(*                                                                         *)
(* Documents are abstracted to what code compares or branches on: an       *)
(* architecture is a member of Designs, a response says whether it was cut *)
(* by max_tokens and which manifest it holds, and the content of a file is *)
(* the number of the LLM call that wrote it, 0 if it is no call's.         *)
(***************************************************************************)
EXTENDS Naturals, Sequences, FiniteSets, Contract, Manifest

CONSTANTS
    Designs,     \* architectures, each with its contract block: [id, contract]
    Plans,       \* component lists an LLM plan may give: sequences of names
    Responses,   \* what the LLM may answer to a chunk: [kind, cut, files]
    Blank,       \* paths the schema of a manifest refuses
    Unsafe,      \* paths _safe_path refuses
    Effects,     \* what checks run in the project may do to it: [left, removed]
    MaxEntries,  \* entries a manifest may have before the circuit breaker trips
    MaxRuns,     \* bound: runs on the project
    MaxCalls     \* bound: LLM calls the account pays for; the next one fails

Absent     == "absent"
NoContract == [components |-> <<>>, types |-> <<>>, budget |-> 0]
NoDesign   == [id |-> "none", contract |-> NoContract]

ASSUME GenerationAssumption ==
    /\ MaxRuns \in Nat /\ MaxCalls \in Nat /\ MaxEntries \in Nat
    /\ \A d \in Designs : IsContract(d.contract)
    /\ \A names \in Plans : Listed(names) /\ names # <<>>
    /\ \A r \in Responses :
        /\ r.kind \in {"manifest", "missing", "malformed"} /\ r.cut \in BOOLEAN
        /\ Listed(r.files)
    /\ \A e \in Effects :
        /\ Listed(e.left)
        /\ \A k \in DOMAIN e.left :
            e.left[k].path \notin DOMAIN Aliases /\ e.left[k].path \notin Unsafe

VARIABLES
    \* files of the project
    contract,    \* DESIGN_CONTRACT.json
    cache,       \* state/cache/llm, the entries of implement: key -> response
    markdown,    \* IMPLEMENTATION.md: the run that wrote it, 0 if none
    manifest,    \* FILE_MANIFEST.json: [by, files]
    conflicts,   \* MANIFEST_CONFLICTS.json, as last written
    tree,        \* the extracted project: file -> entry
    \* the run
    run, design,
    \* the execution of implement_system and of what follows
    pc, chunked, driven, plan, parts, response, hit,
    truncated, usage, merged, written, report, failure,
    \* history
    calls,       \* LLM calls so far: the source of contents
    spent,       \* LLM calls of this execution
    recovered,   \* chunks of this execution whose manifest was recovered
    before,      \* the tree when this extraction began
    touched,     \* files that the checks of this execution wrote or removed
    confronted   \* whose conflicts were written, if nothing was evicted since

fileVars == <<contract, cache, markdown, manifest, conflicts, tree>>
runVars  == <<run, design, confronted>>
planVars == <<chunked, driven, plan>>
llmVars  == <<response, hit, truncated, usage, calls, spent, recovered>>
endVars  == <<merged, written, report>>
treeVars == <<before, touched>>
vars == <<fileVars, runVars, planVars, llmVars, endVars, treeVars, pc, parts, failure>>

NoManifest == [by |-> 0, files |-> <<>>]
NoResponse == [kind |-> "missing", cut |-> FALSE, files |-> <<>>, by |-> 0]
Nothing    == [p \in {} |-> NoResponse]

Resting == {"idle", "failed", "checked"}
Working == {"design", "begin", "plan", "chunk", "split", "recover", "merge", "gate",
            "save", "saving", "saved", "write", "extracted", "tested"}

\* The variables keep their types, and no more is used, recovered or written than was made.
TypeOK ==
    /\ pc \in Resting \cup Working
    /\ run \in 0 .. MaxRuns /\ design \in Designs \cup {NoDesign}
    /\ contract = NoContract \/ \E d \in Designs : contract = d.contract
    /\ markdown \in 0 .. run /\ manifest.by \in 0 .. run /\ report \in {Absent, "passed", "failed"}
    /\ chunked \in BOOLEAN /\ driven \in BOOLEAN /\ hit \in BOOLEAN
    /\ truncated \in BOOLEAN
    /\ Len(parts) <= Len(plan) /\ usage <= spent /\ spent <= calls
    /\ recovered \subseteq 1 .. Len(plan)
    /\ written <= Len(manifest.files)
    /\ DOMAIN before \subseteq DOMAIN tree \cup touched
    /\ \A f \in DOMAIN tree : Resolve(tree[f].path) = f /\ tree[f].path \notin Unsafe

Init ==
    /\ contract = NoContract /\ cache = Nothing /\ markdown = 0 /\ manifest = NoManifest
    /\ conflicts = {} /\ tree = Nothing
    /\ run = 0 /\ design = NoDesign /\ confronted = NoDesign
    /\ pc = "idle" /\ chunked = FALSE /\ driven = FALSE
    /\ plan = <<>> /\ parts = <<>> /\ response = NoResponse /\ hit = FALSE
    /\ truncated = FALSE /\ usage = 0 /\ merged = <<>> /\ written = 0
    /\ report = Absent /\ failure = "none"
    /\ calls = 0 /\ spent = 0 /\ recovered = {}
    /\ before = Nothing /\ touched = {}

Goto(from, to) == pc = from /\ pc' = to

Fail(from, why) ==
    /\ Goto(from, "failed")
    /\ failure' = why

-----------------------------------------------------------------------------
(***************************************************************************)
(* A new run: init evicts old responses, design writes its contract.       *)
(***************************************************************************)
\* Faulty variant: what the chunks of the last execution gave is kept.
ForgetAllButParts ==
    /\ chunked' = FALSE /\ driven' = FALSE /\ plan' = <<>> /\ parts' = parts
    /\ response' = NoResponse /\ hit' = FALSE /\ truncated' = FALSE
    /\ usage' = 0 /\ spent' = 0 /\ recovered' = {}
    /\ merged' = <<>> /\ written' = 0 /\ report' = Absent /\ failure' = "none"
    /\ before' = Nothing /\ touched' = {}

\* The locals of the functions that were executing are gone.
Forget ==
    /\ chunked' = FALSE /\ driven' = FALSE /\ plan' = <<>> /\ parts' = <<>>
    /\ response' = NoResponse /\ hit' = FALSE /\ truncated' = FALSE
    /\ usage' = 0 /\ spent' = 0 /\ recovered' = {}
    /\ merged' = <<>> /\ written' = 0 /\ report' = Absent /\ failure' = "none"
    /\ before' = Nothing /\ touched' = {}

NewRun ==
    /\ pc \in Resting /\ pc' = "design" /\ run < MaxRuns
    /\ run' = run + 1
    /\ \E age \in 0 .. calls :         \* the oldest responses are evicted
        cache' = [k \in {l \in DOMAIN cache : cache[l].by > age} |-> cache[k]]
    /\ confronted' = IF cache' = cache THEN confronted ELSE NoDesign
    /\ Forget
    /\ UNCHANGED <<contract, markdown, manifest, conflicts, tree, design, calls>>

\* A block that does not validate is reported in the trace and otherwise ignored: the
\* contract of an earlier run stays where it is.
Design ==
    /\ Goto("design", "begin")
    /\ \E d \in Designs :
        /\ design' = d
        /\ contract' = IF Valid(d.contract) THEN d.contract ELSE contract
    /\ UNCHANGED <<cache, markdown, manifest, conflicts, tree, run, confronted, planVars,
                   llmVars, endVars, treeVars, parts, failure>>

-----------------------------------------------------------------------------
(***************************************************************************)
(* implement_system up to the loop over the components.                    *)
(***************************************************************************)
Component(name, files) == [name |-> name, files |-> files]

Begin ==
    /\ pc = "begin"
    /\ driven' = (contract # NoContract)
    /\ chunked' \in BOOLEAN             \* _should_chunk, of sizes and the budget
    /\ plan' = IF ~chunked' THEN <<Component("single", <<>>)>>
               ELSE IF driven' THEN [k \in DOMAIN contract.components |->
                        Component(contract.components[k].name, contract.components[k].files)]
               ELSE <<>>
    /\ pc' = IF chunked' /\ ~driven' THEN "plan" ELSE "chunk"
    /\ parts' = <<>> /\ truncated' = FALSE /\ usage' = 0 /\ spent' = 0 /\ recovered' = {}
    /\ merged' = <<>> /\ written' = 0
    /\ UNCHANGED <<fileVars, runVars, response, hit, calls, report, treeVars, failure>>

\* Faulty variant: the usage is the last call's.
GeneratesAnew(cut) ==
    /\ calls < MaxCalls /\ calls' = calls + 1 /\ spent' = spent + 1
    /\ usage' = 1 /\ truncated' = cut

\* One call of provider.generate: counted by the provider that makes it.
Generates(cut) ==
    /\ calls < MaxCalls /\ calls' = calls + 1 /\ spent' = spent + 1
    /\ usage' = usage + 1 /\ truncated' = cut

\* A plan that was cut does not parse.
PlanComponents ==
    /\ Goto("plan", "chunk")
    /\ Generates(FALSE)
    /\ \E names \in Plans : plan' = [k \in DOMAIN names |-> Component(names[k], <<>>)]
    /\ UNCHANGED <<fileVars, runVars, chunked, driven, response, hit, recovered,
                   endVars, treeVars, parts, failure>>

PlanFails ==
    /\ Fail("plan", "plan")
    /\ \/ \E cut \in BOOLEAN : Generates(cut)
       \/ UNCHANGED <<calls, spent, usage, truncated>>
    /\ UNCHANGED <<fileVars, runVars, planVars, response, hit, recovered, endVars,
                   treeVars, parts>>

-----------------------------------------------------------------------------
(***************************************************************************)
(* One component: the cached or generated response, its manifest, and the  *)
(* recovery of a manifest that is missing.                                 *)
(***************************************************************************)
Current == Len(parts) + 1

\* The types a chunk is given as canonical: the contract's, or what its design says.
Schema == IF driven /\ chunked THEN contract.types ELSE <<>>

\* The type signatures of files, as the chunks after them see them.
TypeContracts(files) == [j \in DOMAIN files |-> files[j].types]

\* The key has the architecture, the component, the schema, and the paths and type
\* signatures of the chunks before it; the contents behind them are not part of it.
KeyAt(k) ==
    LET sofar == FlattenSeq(SubSeq(parts, 1, k - 1))
    IN  [design    |-> design.id,
         component |-> plan[k],
         schema    |-> Schema,
         existing  |-> [j \in DOMAIN sofar |-> sofar[j].path],
         types     |-> TypeContracts(sofar)]

KeyOf == KeyAt(Current)

Stamp(files, call) ==
    [k \in DOMAIN files |-> [path |-> files[k].path, types |-> files[k].types, by |-> call]]

CacheHit ==
    /\ Goto("chunk", "split")
    /\ KeyOf \in DOMAIN cache
    /\ response' = cache[KeyOf] /\ hit' = TRUE
    /\ UNCHANGED <<fileVars, runVars, planVars, truncated, usage, calls, spent, recovered,
                   endVars, treeVars, parts, failure>>

\* Faulty variant: a response that was cut is not cached.
GenerateCachingComplete ==
    /\ Goto("chunk", "split")
    /\ KeyOf \notin DOMAIN cache
    /\ \E r \in Responses :
        /\ Generates(r.cut)
        /\ response' = [kind |-> r.kind, cut |-> r.cut, by |-> calls + 1,
                        files |-> IF r.kind = "manifest" THEN Stamp(r.files, calls + 1) ELSE <<>>]
    /\ hit' = FALSE
    /\ cache' = [k \in DOMAIN cache \cup (IF response'.cut THEN {} ELSE {KeyOf}) |->
                    IF k = KeyOf THEN response' ELSE cache[k]]
    /\ UNCHANGED <<contract, markdown, manifest, conflicts, tree, runVars, planVars,
                   recovered, endVars, treeVars, parts, failure>>

\* The response is cached before anybody has looked for the manifest in it.
Generate ==
    /\ Goto("chunk", "split")
    /\ KeyOf \notin DOMAIN cache
    /\ \E r \in Responses :
        /\ Generates(r.cut)
        /\ response' = [kind |-> r.kind, cut |-> r.cut, by |-> calls + 1,
                        files |-> IF r.kind = "manifest" THEN Stamp(r.files, calls + 1) ELSE <<>>]
    /\ hit' = FALSE
    /\ cache' = [k \in DOMAIN cache \cup {KeyOf} |->
                    IF k = KeyOf THEN response' ELSE cache[k]]
    /\ UNCHANGED <<contract, markdown, manifest, conflicts, tree, runVars, planVars,
                   recovered, endVars, treeVars, parts, failure>>

\* provider.generate raised: not retryable, or the retries are used up.
GenerateFails ==
    /\ Fail("chunk", "api")
    /\ KeyOf \notin DOMAIN cache
    /\ UNCHANGED <<fileVars, runVars, planVars, llmVars, endVars, treeVars, parts>>

NextPart(part) ==
    /\ parts' = Append(parts, part)
    /\ pc' = IF Len(parts') < Len(plan) THEN "chunk" ELSE "merge"

Split ==
    /\ pc = "split" /\ response.kind = "manifest"
    /\ NextPart(response.files)
    /\ UNCHANGED <<fileVars, runVars, planVars, llmVars, endVars, treeVars, failure>>

\* The manifest does not parse, or has an entry without a path, which the loop over the
\* chunks looks up.
SplitFails ==
    /\ Fail("split", "malformed")
    /\ response.kind = "malformed"
    /\ UNCHANGED <<fileVars, runVars, planVars, llmVars, endVars, treeVars, parts>>

\* Faulty variant: a chunk is not recovered.
RecoversSingle == ~chunked /\ ~hit

\* was_truncated tells of the provider's last call, which a cached response did not make.
Recovers == truncated \/ (~chunked /\ ~hit)

AskAgain ==
    /\ Goto("split", "recover")
    /\ response.kind = "missing" /\ Recovers
    /\ UNCHANGED <<fileVars, runVars, planVars, llmVars, endVars, treeVars, parts, failure>>

GiveUp ==
    /\ Fail("split", "missing")
    /\ response.kind = "missing" /\ ~Recovers
    /\ UNCHANGED <<fileVars, runVars, planVars, llmVars, endVars, treeVars, parts>>

\* The recovery has a provider of its own, whose usage and truncation nobody reads, and
\* its answer is not cached.
Recover ==
    /\ pc = "recover" /\ calls < MaxCalls
    /\ calls' = calls + 1 /\ spent' = spent + 1
    /\ \E r \in Responses :
        /\ r.kind = "manifest"
        /\ NextPart(Stamp(r.files, calls + 1))
    /\ recovered' = recovered \cup {Current}
    /\ UNCHANGED <<fileVars, runVars, planVars, response, hit, truncated, usage, endVars,
                   treeVars, failure>>

\* Faulty variant: it asks until there is an answer.
RecoverForever ==
    /\ Goto("recover", "split")
    /\ UNCHANGED <<fileVars, runVars, planVars, llmVars, endVars, treeVars, parts, failure>>

\* No answer, or one without a manifest either.
RecoverFails ==
    /\ Fail("recover", "recovery")
    /\ UNCHANGED <<fileVars, runVars, planVars, llmVars, endVars, treeVars, parts>>

-----------------------------------------------------------------------------
(***************************************************************************)
(* Merge, conflict gate, the two documents.                                *)
(***************************************************************************)
MergeParts ==
    /\ Goto("merge", IF chunked THEN "gate" ELSE "save")
    /\ merged' = IF chunked THEN Merge(parts, "last") ELSE parts[1]
    /\ UNCHANGED <<fileVars, runVars, planVars, llmVars, written, report, treeVars,
                   parts, failure>>

\* The report is written and a gate is raised, which implement_node takes for a failure:
\* nobody is asked.
ConflictsFail ==
    /\ Fail("gate", "conflict")
    /\ Conflicts(parts) # {}
    /\ conflicts' = Conflicts(parts)
    /\ confronted' = [id |-> design.id, contract |-> contract]
    /\ UNCHANGED <<contract, cache, markdown, manifest, tree, run, design, planVars, llmVars,
                   endVars, treeVars, parts>>

\* Faulty variant: the last writer wins, unasked.
NoConflictsOrNobodyAsked ==
    /\ Goto("gate", "save")
    /\ UNCHANGED <<fileVars, runVars, planVars, llmVars, endVars, treeVars, parts, failure>>

NoConflicts ==
    /\ Goto("gate", "save")
    /\ Conflicts(parts) = {}
    /\ UNCHANGED <<fileVars, runVars, planVars, llmVars, endVars, treeVars, parts, failure>>

SaveMarkdown ==
    /\ Goto("save", "saving")
    /\ markdown' = run
    /\ UNCHANGED <<contract, cache, manifest, conflicts, tree, runVars, planVars, llmVars,
                   endVars, treeVars, parts, failure>>

SaveManifest ==
    /\ Goto("saving", "saved")
    /\ manifest' = [by |-> run, files |-> merged]
    /\ UNCHANGED <<contract, cache, markdown, conflicts, tree, runVars, planVars, llmVars,
                   endVars, treeVars, parts, failure>>

-----------------------------------------------------------------------------
(***************************************************************************)
(* extract_project and the compliance check.                               *)
(***************************************************************************)
\* FileManifest: at least one file, and no blank path.
Refused == manifest.files = <<>> \/ Paths(manifest.files) \cap Blank # {}

SchemaFails ==
    /\ Fail("saved", "schema")
    /\ Refused
    /\ UNCHANGED <<fileVars, runVars, planVars, llmVars, endVars, treeVars, parts>>

LimitsExceeded == Len(manifest.files) > MaxEntries

CircuitBreaker ==
    /\ Fail("saved", "limits")
    /\ ~Refused /\ LimitsExceeded
    /\ UNCHANGED <<fileVars, runVars, planVars, llmVars, endVars, treeVars, parts>>

StartExtract ==
    /\ Goto("saved", "write")
    /\ ~Refused /\ ~LimitsExceeded
    /\ written' = 0 /\ before' = tree
    /\ UNCHANGED <<fileVars, runVars, planVars, llmVars, merged, report, touched, parts,
                   failure>>

NextEntry == manifest.files[written + 1]

\* Files of an earlier extraction are overwritten or left alone, never removed; so is the
\* file of an earlier entry whose path resolves to the same.
WriteFile ==
    /\ Goto("write", "write")
    /\ written < Len(manifest.files) /\ NextEntry.path \notin Unsafe
    /\ tree' = Written(tree, <<NextEntry>>)
    /\ written' = written + 1
    /\ UNCHANGED <<contract, cache, markdown, manifest, conflicts, runVars, planVars,
                   llmVars, merged, report, treeVars, parts, failure>>

WriteFails ==
    /\ Fail("write", "path")
    /\ written < Len(manifest.files) /\ NextEntry.path \in Unsafe
    /\ UNCHANGED <<fileVars, runVars, planVars, llmVars, endVars, treeVars, parts>>

Requirements == "requirements.txt"

\* Pins are relaxed and tools added: a content that no call wrote.
Sanitized(entry) == [entry EXCEPT !.by = 0]

\* The requirements are rewritten, whichever extraction they are from.
ExtractEnds ==
    /\ Goto("write", "extracted")
    /\ written = Len(manifest.files)
    /\ tree' = IF Requirements \in DOMAIN tree
               THEN [tree EXCEPT ![Requirements] = Sanitized(@)] ELSE tree
    /\ UNCHANGED <<contract, cache, markdown, manifest, conflicts, runVars, planVars,
                   llmVars, endVars, treeVars, parts, failure>>

\* In the sandbox the checks have a copy; without it they run in the project, install,
\* build and fix what they find there.
RunChecks ==
    /\ Goto("extracted", "tested")
    /\ \/ UNCHANGED <<tree, touched>>
       \/ \E e \in Effects :
            /\ tree' = Written([f \in DOMAIN tree \ e.removed |-> tree[f]], Stamp(e.left, 0))
            /\ touched' = e.removed \cup FilesOf(e.left)
    /\ UNCHANGED <<contract, cache, markdown, manifest, conflicts, runVars, planVars,
                   llmVars, endVars, before, parts, failure>>

\* test_system checks the contract if there is one, whatever run it is from.
CheckCompliance ==
    /\ Goto("tested", "checked")
    /\ report' = IF contract = NoContract THEN Absent
               ELSE IF Passes(contract, tree) THEN "passed" ELSE "failed"
    /\ UNCHANGED <<fileVars, runVars, planVars, llmVars, merged, written, treeVars, parts,
                   failure>>

Crash ==
    /\ pc \in Working /\ pc' = "idle"
    /\ Forget
    /\ UNCHANGED <<fileVars, runVars, calls>>

-----------------------------------------------------------------------------
Step ==
    \/ Design \/ Begin \/ PlanComponents \/ PlanFails
    \/ CacheHit \/ Generate \/ GenerateFails
    \/ Split \/ SplitFails \/ AskAgain \/ GiveUp \/ Recover \/ RecoverFails
    \/ MergeParts \/ ConflictsFail \/ NoConflicts \/ SaveMarkdown \/ SaveManifest
    \/ SchemaFails \/ CircuitBreaker \/ StartExtract \/ WriteFile \/ WriteFails
    \/ ExtractEnds \/ RunChecks \/ CheckCompliance

Next == Step \/ NewRun \/ Crash

\* A running execution goes on; nobody has to start a run.
Spec == Init /\ [][Next]_vars /\ WF_vars(Step)
-----------------------------------------------------------------------------
(***************************************************************************)
(* Properties.                                                             *)
(***************************************************************************)
Merged == pc \in {"gate", "save", "saving", "saved", "write", "extracted", "tested",
           "checked"}

\* The usage in the trace is the number of LLM calls the execution made, except for the
\* recoveries, whose provider nobody asks.
UsageIsAccounted ==
    Merged => spent = usage + Cardinality(recovered)

\* A chunk is called untruncated although it was cut only when its response came from the
\* cache; and only a cached response that was never cut is recovered by mistake, on the
\* word of an earlier call.
MissingMarkersAreDiagnosed ==
    /\ failure = "missing" => (response.cut => hit)
    /\ pc = "recover" /\ chunked => (~response.cut => hit)

\* Until eviction an execution can be replayed: every manifest it used that was not
\* recovered is what the cache holds under the key of its chunk.
ReplayIsExact ==
    pc \in Working => \A k \in DOMAIN parts \ recovered :
        /\ KeyAt(k) \in DOMAIN cache
        /\ cache[KeyAt(k)].kind = "manifest" /\ cache[KeyAt(k)].files = parts[k]

\* Conflicts repeat: until something is evicted, every later run on the same architecture
\* and contract meets the very conflicts that an earlier one failed on, unless the plan was
\* the LLM's or a manifest was recovered again: neither is cached.
ConflictsRepeat ==
    /\ pc = "gate" /\ driven /\ recovered = {}
    /\ confronted = [id |-> design.id, contract |-> contract]
    => Conflicts(parts) = conflicts

\* What writing an entry leaves once the extraction has ended.
OnDisk(entry) == IF Resolve(entry.path) = Requirements THEN Sanitized(entry) ELSE entry

\* After a chunked implementation every file of every chunk is in the project, as the chunk
\* wrote it, unless a later entry called the file by another path.
TreeFollowsManifest ==
    pc = "extracted" /\ chunked =>
        LET all == FlattenSeq(parts)
        IN  \A k \in DOMAIN all :
                LET file == Resolve(all[k].path)
                IN  /\ file \in DOMAIN tree
                    /\ \/ tree[file] = OnDisk(all[k])
                       \/ \E j \in DOMAIN all :
                            /\ j > k /\ all[j].path # all[k].path
                            /\ Resolve(all[j].path) = file /\ tree[file] = OnDisk(all[j])

\* A validated contract can be met: an implementation that produces its files, with its types
\* in them, and at most structural ones besides, passes the compliance check. It takes that
\* the contract writes its paths as the checker does, that the checker sees the files, that
\* the types' files are planned, which nobody validates, that an earlier extraction left
\* nothing else, and that the checks changed nothing.
ComplianceAgreesWithContract ==
    /\ pc = "checked" /\ contract # NoContract
    /\ touched = {}
    /\ Files(contract) \subseteq FilesOf(manifest.files)
    /\ FilesOf(manifest.files) \cup DOMAIN before \subseteq Files(contract) \cup Structural
    /\ Files(contract) \cap Hidden = {}
    /\ \A t \in ToSet(contract.types) :
        Resolve(t.file) \in Files(contract) /\ t.name \in tree[Resolve(t.file)].types
    => report = "passed"

\* A file that the contract demands and the implementation did not produce is reported,
\* unless an earlier extraction left one of that name or a check made one.
PassedMeansProduced ==
    report = "passed" =>
        Files(contract) \subseteq FilesOf(manifest.files) \cup DOMAIN before \cup touched

\* Every execution stops working: it fails or is checked.
ExecutionEnds == pc \in Working ~> pc \in Resting
=============================================================================
