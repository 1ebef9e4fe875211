----------------------------- MODULE VerifyRelease -----------------------------
(***************************************************************************)
(* verify_release (scripts/verify_release.py) around the stages: it clears   *)
(* what an earlier run left, digests the inputs, runs the stages, promotes   *)
(* their artifacts to dist and site-dist, and reports.  Anybody may edit the  *)
(* repository, commit an edit, or check out another commit at any time; no   *)
(* content comes back, as the digest guards only see net drift.             *)
(***************************************************************************)
EXTENDS ReleaseStages, ReleaseGates

CONSTANT MaxEdits       \* bound: edits of the repository

ASSUME EditsAreNatural == MaxEdits \in Nat

VARIABLES
    phase,      \* where verify_release is
    tree,       \* the version of the repository
    head,       \* the version that is committed
    digest,     \* the version that was digested
    clean,      \* the commit that the worktree was found to be a clean copy of
    seen        \* the versions that operations of the stages have read

vars == <<schedule, phase, tree, head, digest, clean, seen>>

Dist == Part("repository", {"dist"})
Site == Part("repository", {"site-dist"})
Stale == Part("repository", {"egg-info", "bytecode"})
QualityCaches == Part("repository", {"quality caches", ".coverage"})

(* Earlier runs of this and of the tools may have left all they make.        *)
Init ==
    /\ InitStages
    /\ made \in {{}, Dist \cup Site \cup Stale \cup QualityCaches \cup GeneratedReports}
    /\ phase = "policy" /\ tree = 0 /\ head = 0 /\ digest = 0 /\ clean = 0 /\ seen = {}

From(p, q) == phase = p /\ phase' = q
Alone == UNCHANGED <<jobs, outer, stage, permits, network, tree, head, seen>>
Makes(S) == made' = S /\ Alone /\ UNCHANGED <<digest, clean>>
Untouched == Makes(made)

----------------------------------------------------------------------------
(* Before the stages                                                       *)

(* The policy and the base path are read before the inputs are digested:    *)
(* whether they are of the version that is digested is checked by nothing.   *)
LoadPolicy == From("policy", "reset") /\ Makes(made \cup Policy)

ResetReports(S) == S \ GeneratedReports
ResetCandidates(S) == S \ Dist
ResetEggInfo(S) == S \ Part("repository", {"egg-info"})
ResetBytecode(S) == S \ Part("repository", {"bytecode"})
ResetWebOutputs(S) == S \ Site
ResetQualityOutputs(S) == S \ QualityCaches
Cleared(S) ==
    ResetWebOutputs(ResetEggInfo(ResetBytecode(
        ResetQualityOutputs(ResetCandidates(ResetReports(S))))))

LoadBasePath(S) == S \cup BasePath
Reset == From("reset", "first") /\ Makes(LoadBasePath(Cleared(made)))

(* What the scan of the repository rejects by its name                      *)
Suspicious(S) == S \cap Stale
ScanFirst == From("first", "digest") /\ Suspicious(made) = {} /\ Untouched
Digest == From("digest", "clean") /\ digest' = tree /\ Alone /\ UNCHANGED <<made, clean>>
ReleaseTag(S) == S \cup Commit
IsClean == tree = head
RequireClean ==
    /\ From("clean", "find") /\ IsClean /\ clean' = head /\ made' = ReleaseTag(made)
    /\ Alone /\ UNCHANGED digest

(* The inputs are those that were digested.                                *)
AnyInputs == TRUE                                               \* a defect of Unchanged
Unchanged == tree = digest
Guard(p, q) == From(p, q) /\ Unchanged /\ Untouched
GuardFound == Guard("find", "pythons")
FindPythons == From("pythons", "before") /\ Makes(made \cup Interpreters)
GuardBefore == Guard("before", "stages")

----------------------------------------------------------------------------
(* The stages                                                              *)

Sees ==
    seen' = IF \E s \in Stages : stage'[s].at = "working" /\ Script[s][stage'[s].step].worktree
            THEN seen \cup {tree} ELSE seen
StageStep == phase = "stages" /\ NextStages /\ Sees /\ UNCHANGED <<phase, tree, head, digest, clean>>
StagesPass == From("stages", "after") /\ outer = "over" /\ Failed(Outer) = {} /\ Untouched

----------------------------------------------------------------------------
(* After the stages                                                        *)

LeavesStale(S) == S                                             \* a defect of Swept
Swept(S) == ResetBytecode(ResetEggInfo(S))
Sweep == From("after", "guard") /\ Makes(Swept(made))
GuardAfter == Guard("guard", "promote")

(* What the stages returned, where the directories are as they were cleared *)
PromoteArtifacts ==
    /\ From("promote", "site") /\ made \cap Dist = {}
    /\ {Wheel, OperatorWheel} \cup Part("build-output-1", {"sdist"}) \subseteq made
    /\ Makes(made \cup Dist)
PromoteSite == From("site", "scan") /\ made \cap Site = {} /\ Makes(made \cup Site)
ScanWorktree == From("scan", "rescan") /\ Suspicious(made) = {} /\ Untouched
GuardPromoted == Guard("rescan", "report")
WriteFinalReports == From("report", "inspect") /\ Makes(made \cup FinalReports)
GeneratedOnes(S) == {x \in S : x[1] = "reports"}
InspectReports ==
    /\ From("inspect", "last") /\ GeneratedOnes(made) = GeneratedReports /\ Untouched
GuardLast == Guard("last", "passed")

(* Any step may fail; the temporary directory goes with the function.       *)
Fails ==
    /\ phase \notin {"passed", "failed"} /\ phase' = "failed"
    /\ phase = "stages" => outer = "over" /\ Failed(Outer) # {}
    /\ Untouched

(* An edit, which is not committed yet, or a checkout of another commit     *)
Edit ==
    /\ tree < MaxEdits /\ phase \notin {"passed", "failed"} /\ tree' = tree + 1
    /\ head' \in {head, tree'}
    /\ seen' = IF \E s \in At({"working"}) : Doing(s).worktree THEN seen \cup {tree'} ELSE seen
    /\ UNCHANGED <<schedule, phase, digest, clean>>
CommitEdit ==
    /\ head # tree /\ phase \notin {"passed", "failed"} /\ head' = tree
    /\ UNCHANGED <<schedule, phase, tree, digest, clean, seen>>

Work ==
    \/ LoadPolicy \/ Reset \/ ScanFirst \/ Digest \/ RequireClean \/ GuardFound \/ FindPythons
    \/ GuardBefore \/ StageStep \/ StagesPass
    \/ Sweep \/ GuardAfter \/ PromoteArtifacts \/ PromoteSite \/ ScanWorktree \/ GuardPromoted
    \/ WriteFinalReports \/ InspectReports \/ GuardLast \/ Fails
Next == Work \/ Edit \/ CommitEdit

Spec == Init /\ [][Next]_vars

----------------------------------------------------------------------------
Ended(s) == stage[s].at = "collected"
Working == At({"working"})
Writes(o) == o.makes \cup o.drops

(* What an operation reads was made by one that has ended, and nobody       *)
(* writes it, nor holds a port of it, while it works.                       *)
NoConflict ==
    \A s \in Working :
        /\ Doing(s).reads \subseteq made
        /\ \A t \in Working \ {s} :
              /\ Writes(Doing(s)) \cap (Writes(Doing(t)) \cup Doing(t).reads) = {}
              /\ Doing(s).holds \cap Doing(t).holds = {}

(* The documented installation is exercised before the release is installed *)
(* anywhere else ("preserving the serial verifier's guarantee").             *)
Installs(o) == {x \in o.makes : x[2] \in {"client wheel", "operator wheel"}}
Installing == {s \in Working : \E x \in Installs(Doing(s)) :
                                  x[1] \notin {"build-output-1", "build-output-2"}}
DocumentedInstallFirst ==
    \A s \in Installing : s = "docsmoke" \/ Ended("docsmoke")

(* The graph orders all that its stages share.                             *)
StagesAreOrdered == NoConflict /\ DocumentedInstallFirst

(* What is promoted was made by stages that all passed, and all they read of *)
(* the repository, however often it was edited or another commit checked     *)
(* out, is of one version: the commit that the worktree was a clean copy of. *)
PromotedIsVerified ==
    phase \in {"scan", "rescan", "report", "inspect", "last", "passed"} =>
        seen \subseteq {clean} /\ InRun(Outer) \subseteq At({"collected"})

(* After stages that passed, whatever earlier runs left, nothing is in dist, *)
(* site-dist and the tools' caches, which no stage makes, nor is any output  *)
(* there that the final scan rejects, which stages do leave; the reports are *)
(* exactly the ones that stages write; and once all passed no container      *)
(* image is left, though a stage builds one.                                *)
OutputsAddUp ==
    /\ phase = "promote" => made \cap (Dist \cup Site \cup Stale \cup QualityCaches) = {}
    /\ phase = "promote" => GeneratedOnes(made) = GeneratedReports \ FinalReports
    /\ phase = "passed" => made \cap Image = {}

(* "it waits on every other installing stage" (verify_release.py, typing)    *)
TypingInstallsLast ==
    "typing" \in Installing => \A s \in InstallationStages \ {"typing"} : Ended(s)
=============================================================================
