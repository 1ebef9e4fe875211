------------------------------ MODULE ReleaseGates ------------------------------
(***************************************************************************)
(* The release graph (scripts/verify_release.py): the stages, what they     *)
(* wait for, and what each of their operations does to what they share.     *)
(* What exists is a pair <<place, part>>: a directory or environment under   *)
(* the temporary root, a report, a value in stage_values, an output in the   *)
(* repository.  An operation stands for the function it is named after; of   *)
(* the commands it runs and the contents it inspects only the effect on      *)
(* places is kept, and that it may fail.                                    *)
(***************************************************************************)
EXTENDS Sequences, SequencesExt, TLC

Operation ==
    [reads |-> {}, makes |-> {}, drops |-> {}, cleans |-> {},   \* pairs of places and parts
     holds |-> {},          \* ports of the loopback interface
     leaves |-> {},         \* outputs that any number of commands may leave
     network |-> FALSE,     \* under resource("network")
     worktree |-> FALSE,    \* reads the repository
     stages |-> FALSE]      \* a run of stages

Part(place, parts) == {place} \X parts
Value(s) == <<"stage_values", s>>
Reports(names) == Part("reports", names)
Keeps(s) == [Operation EXCEPT !.makes = {Value(s)}]
Needs(S) == [Operation EXCEPT !.reads = {Value(s) : s \in S}]

(* One operation after the other, as one                                   *)
After(a, b) ==
    [reads |-> a.reads \cup (b.reads \ a.makes), makes |-> a.makes \cup b.makes,
     drops |-> a.drops \cup b.drops, cleans |-> a.cleans \cup b.cleans,
     holds |-> a.holds \cup b.holds, leaves |-> a.leaves \cup b.leaves,
     network |-> a.network \/ b.network, worktree |-> a.worktree \/ b.worktree,
     stages |-> a.stages \/ b.stages]
All(operations) == FoldLeft(After, Operation, operations)

(* uv run --frozen, in the repository: the project environment is kept by   *)
(* uv's own lock.                                                          *)
UvRun(makes) ==
    [Operation EXCEPT !.worktree = TRUE, !.makes = makes,
                      !.leaves = Part("repository", {"egg-info", "bytecode"})]
FromWorktree(makes) == [Operation EXCEPT !.worktree = TRUE, !.makes = makes]
Inspects(reads) == [Operation EXCEPT !.reads = reads]
Holding(port) == [Operation EXCEPT !.holds = {port}]

(* What verify_release reads before the stages, and gives to them.           *)
Given(names) == Part("verify_release", names)
Policy == Given({"policy"})
BasePath == Given({"base path"})
Commit == Given({"commit", "tag"})
Interpreters == Given({"py312", "py313", "py314"})
ByPolicy(o) == [o EXCEPT !.reads = @ \cup Policy]

ConsolePort == 8080
ScreenshotPort == 4173
DocsPort == 4321

----------------------------------------------------------------------------
(* Environments                                                            *)

CreateEnvironment(env) == [Operation EXCEPT !.makes = Part(env, {"python"})]
InstallRequirements(env, file) ==
    [Operation EXCEPT !.reads = Part(env, {"python"}) \cup file, !.makes = Part(env, {"packages"})]
InstallBuildRequirements(env) ==
    [InstallRequirements(env, {}) EXCEPT !.worktree = TRUE]
InstallExactWheel(env, wheel) ==
    [Operation EXCEPT !.reads = Part(env, {"python"}) \cup {wheel}, !.makes = Part(env, {wheel[2]})]
ExportRequirements(file) == FromWorktree({<<file, "file">>})

Wheel == <<"build-output-1", "client wheel">>
OperatorWheel == <<"operator-dist-1", "operator wheel">>
Installed(env) == Part(env, {"python", "packages", "client wheel"})
Staging == Part("verification-inputs", {"files"})
OperatorRoot(parts) == Part("operator-application", parts)
OperatorSource == OperatorRoot({"source", "requirements"})

ProbeInstalledWheel(env) == [Inspects(Installed(env) \cup Staging) EXCEPT !.worktree = TRUE]
RunInstalledSuite(env) == Inspects(Installed(env) \cup Staging)
ShutdownGate(env) == After(ProbeInstalledWheel(env), RunInstalledSuite(env))

(* The report is that of an attempt that was answered.                      *)
PipAudit(requirements, report) ==
    [Operation EXCEPT !.reads = requirements, !.makes = Reports({report})]
SanitizeSbom(report) == [Operation EXCEPT !.makes = Reports({report})]
SupplyChainReports(env, requirements) ==
    All(<<ByPolicy(Inspects(Installed(env))), SanitizeSbom("sbom.cdx.json"),
          PipAudit(requirements, "vulnerability-scan.json"),
          [Operation EXCEPT !.makes = Reports({"dependencies.json", "dependency-licenses.json"})]>>)
OperatorSupplyChainReports(env) ==
    All(<<Inspects(Installed(env)), SanitizeSbom("operator-sbom.cdx.json"),
          PipAudit(OperatorRoot({"requirements"}), "operator-vulnerability-scan.json"),
          [Operation EXCEPT !.makes = Reports({"operator-dependencies.json"})]>>)

DocumentedInstallationSmoke(env) ==
    [Operation EXCEPT !.reads = Part(env, {"python"}) \cup {Wheel},
                      !.makes = Part(env, {"client wheel"})
                                  \cup Part("documentation-installation", {"wheel"})]
ProbeOperator(env) == Inspects(Installed(env) \cup Part(env, {"operator wheel"}))
DocumentedOperatorSmoke(env) ==
    [Operation EXCEPT !.reads = Part(env, {"python"}) \cup {Wheel, OperatorWheel},
                      !.makes = Part(env, {"packages", "client wheel", "operator wheel"}),
                      !.network = TRUE]
OperatorSuite(env) ==
    All(<<ProbeOperator(env), InstallRequirements(env, OperatorRoot({"requirements"})),
          Inspects(OperatorSource \cup OperatorRoot({"frontend"}))>>)

----------------------------------------------------------------------------
(* The documentation site                                                  *)

Context(n) == IF n = 1 THEN "site-context-1" ELSE "site-context-2"
CopySnapshot(place) == [Operation EXCEPT !.reads = Part("source-snapshot", {"files"}),
                                         !.makes = Part(place, {"source"})]
NpmInstall(place) == [Operation EXCEPT !.reads = Part(place, {"source"}),
                                       !.makes = Part(place, {"node_modules"}), !.network = TRUE]
NpmAudit(place, report) == [Operation EXCEPT !.reads = Part(place, {"source", "node_modules"}),
                                             !.makes = Reports({report})]
NpmSbom(place, report) == NpmAudit(place, report)
InstallBrowsers ==
    [Operation EXCEPT !.reads = Part("source-snapshot", {"files"})
                                  \cup Part("site-context-1", {"node_modules"}),
                      !.makes = Part("playwright-browsers", {"chromium"}), !.network = TRUE]

DocsCheck(n) == [Operation EXCEPT !.reads = Part(Context(n), {"source", "node_modules"}),
                                  !.makes = Part(Context(n), {"site-dist"})]
BrowserTest ==
    [Operation EXCEPT !.reads = Part("site-context-1", {"node_modules", "site-dist"})
                                  \cup Part("playwright-browsers", {"chromium"}),
                      !.makes = Part("docs-playwright-output", {"files"}), !.holds = {DocsPort}]
(* The page that leads to the site is under the path it is published at.     *)
RootRedirect(n) == Inspects(BasePath \cup Part(Context(n), {"site-dist"}))
InspectStaticSite(n) ==
    After(RootRedirect(n),
          [Operation EXCEPT !.reads = Part(Context(n), {"site-dist"}) \cup Policy \cup Commit
                                        \cup Part("source-snapshot", {"files"}),
                            !.makes = Part(Context(n), {"inspection"})])
CompareSites == Inspects(Part(Context(1), {"inspection"}) \cup Part(Context(2), {"inspection"}))

----------------------------------------------------------------------------
(* The artifacts                                                           *)

SourceSnapshot == ByPolicy(FromWorktree(Part("source-snapshot", {"files"})))
BuildOutput(n) == IF n = 1 THEN "build-output-1" ELSE "build-output-2"
(* The archive is rewritten where the build left it, with the given times.   *)
NormalizeSdist(n) == [Operation EXCEPT !.reads = Part(BuildOutput(n), {"sdist"}),
                                       !.makes = Part(BuildOutput(n), {"sdist"})]
Build(n) ==
    After([Operation EXCEPT !.reads = Part("build-environment", {"python", "packages"})
                                        \cup Part("source-snapshot", {"files"}),
                            !.makes = Part(BuildOutput(n), {"client wheel", "sdist"})],
          NormalizeSdist(n))
CompareArtifacts ==
    Inspects(Part("build-output-1", {"client wheel", "sdist"})
               \cup Part("build-output-2", {"client wheel", "sdist"})
               \cup Part("source-snapshot", {"files"}))

(* Every inspection of an artifact or of a page holds its contents to the    *)
(* policy; what it asks of them is left out.                                *)
ScanContent(reads) == ByPolicy(Inspects(reads))
Metadata(reads) == ByPolicy(Inspects(reads))
TopicFilters(reads) == ByPolicy(Inspects(reads))
InspectClient(reads) == All(<<ScanContent(reads), Metadata(reads), TopicFilters(reads)>>)
InspectWheel == InspectClient({Wheel})
InspectSdist == InspectClient(Part("build-output-1", {"sdist"}))
InspectOperatorWheel == After(ScanContent({OperatorWheel}), Metadata({OperatorWheel}))

----------------------------------------------------------------------------
(* The operator application                                                *)

CopyOperatorSource ==
    [Operation EXCEPT !.reads = Part("source-snapshot", {"files"}),
                      !.makes = OperatorRoot({"source", "requirements", "screenshots"})]
InspectScreenshots == ByPolicy(Inspects(OperatorRoot({"screenshots"})))
FrontendToolchain == Inspects(OperatorRoot({"source"}))
BuildFrontend ==
    [Operation EXCEPT !.reads = OperatorRoot({"source", "node_modules"}),
                      !.makes = OperatorRoot({"frontend"})]
InspectWebTree == ByPolicy(Inspects(OperatorRoot({"frontend"})))
FrontendMatches == ByPolicy(Inspects(OperatorRoot({"frontend"}) \cup {OperatorWheel}))
BuildOperatorWheel(place) ==
    [Operation EXCEPT !.reads = Part("operator-build-environment", {"python", "packages"})
                                  \cup OperatorRoot({"source", "frontend"}),
                      !.makes = Part(place, {"operator wheel"})]
OperatorLicense == ByPolicy(Inspects({OperatorWheel} \cup OperatorRoot({"source"})))
CopyCommands ==
    [Operation EXCEPT !.reads = OperatorRoot({"source"}),
                      !.makes = Part("operator-installed-runtime", {"commands.json"})]
ConsoleSmoke ==
    [Holding(ConsolePort) EXCEPT
        !.reads = Part("operator-runtime-environment", {"python", "operator wheel"})
                    \cup Part("operator-installed-runtime", {"commands.json"})]

GenerateScreenshots ==
    [Holding(ScreenshotPort) EXCEPT
        !.reads = OperatorRoot({"source", "node_modules"})
                    \cup Part("playwright-browsers", {"chromium"}),
        !.makes = OperatorRoot({"screenshots"})]
OperatorEndToEnd ==
    [Holding(ConsolePort) EXCEPT
        !.reads = OperatorRoot({"source", "node_modules"})
                    \cup Part("playwright-browsers", {"chromium"})
                    \cup Part("operator-runtime-environment", {"python", "operator wheel"})
                    \cup Part("operator-installed-runtime", {"commands.json"})]
Image == Part("docker", {"image"})
ContainerBuild ==
    [Operation EXCEPT !.reads = {Wheel, OperatorWheel} \cup OperatorRoot({"source"}),
                      !.makes = Image \cup OperatorRoot({"wheelhouse"}),
                      !.cleans = Image, !.network = TRUE]
ContainerRun ==
    [Operation EXCEPT !.reads = Image, !.drops = Image, !.cleans = Image]
OperatorReport == [Operation EXCEPT !.makes = Reports({"operator-inspection.json"})]

----------------------------------------------------------------------------
(* The other gates                                                         *)

(* The documentation is held to the policy that was loaded and to what the   *)
(* repository holds now; what is asked of its contents is left out.          *)
PublicExampleNames == FromWorktree({})
ExampleManifest == FromWorktree({})
PublicationInventories == ByPolicy(FromWorktree({}))
ManifestLines == ByPolicy(FromWorktree({}))
InspectDocumentation ==
    All(<<ExampleManifest, PublicationInventories, ManifestLines, ScanContent({}),
          ByPolicy(FromWorktree({}))>>)
CheckVersionSync == FromWorktree({})
CheckReference == UvRun({})
QualityGates ==
    All(<<PublicExampleNames, InspectDocumentation, ByPolicy(CheckVersionSync), CheckReference,
          UvRun(Reports({"coverage.json"}))>>)
StageInputs == All(<<ExampleManifest, PublicExampleNames, FromWorktree(Staging)>>)

(* verify_types.py, with the checker that was installed for the site          *)
Checker == Part("site-context-1", {"node_modules"})
CompletenessAllowlist == FromWorktree({})
TypingFixtures == FromWorktree(Part("types", {"fixtures"}))
TypingEnvironments ==
    [Operation EXCEPT !.reads = {Wheel}, !.makes = Part("types", {"python", "client wheel"})]
FixtureBattery ==
    Inspects(Checker \cup Part("types", {"fixtures", "python", "client wheel"}))
Completeness == Inspects(Checker \cup Part("types", {"python", "client wheel"}))
TypingReports ==
    [Operation EXCEPT !.makes = Reports({"type-completeness.json", "pyright-verifytypes.json"})]
TypingGate ==
    All(<<UvRun({}), Inspects(Checker), CompletenessAllowlist, TypingFixtures,
          TypingEnvironments, Completeness, FixtureBattery, TypingReports>>)
ReferenceInventory(place, reads) ==
    [UvRun(Part(place, {"inventory"})) EXCEPT !.reads = reads]
CompareInventories ==
    Inspects(Part("source-api", {"inventory"}) \cup Part("installed-api", {"inventory"}))

----------------------------------------------------------------------------
(* The stages                                                              *)

GateOrder ==
    <<"quality", "build_inputs", "build", "site_ci1", "browsers", "docs",
      "requirements_runtime", "requirements_test", "staging", "artifact_inspection", "docsmoke",
      "runtime", "py312", "py313", "py314", "operator", "operator_web", "typing",
      "reference_parity">>
BuildOrder == <<"build1", "build2">>
DocsOrder == <<"check1", "browsertest", "inspect1", "ci2", "check2", "inspect2", "compare">>
AllStages == GateOrder \o BuildOrder \o DocsOrder

DependencyTable ==
    LET python == {"build", "docsmoke", "requirements_test", "staging", "operator"}
    IN [quality |-> {}, build_inputs |-> {}, build |-> {"build_inputs"},
        site_ci1 |-> {"build_inputs"}, browsers |-> {"site_ci1"},
        docs |-> {"site_ci1", "browsers"}, requirements_runtime |-> {},
        requirements_test |-> {}, staging |-> {}, artifact_inspection |-> {"build"},
        docsmoke |-> {"build"},
        runtime |-> {"build", "docsmoke", "requirements_runtime", "requirements_test", "staging"},
        py312 |-> python, py313 |-> python, py314 |-> python,
        operator |-> {"build", "build_inputs", "docsmoke", "staging"},
        operator_web |-> {"operator", "browsers", "py312", "py313", "py314"},
        typing |-> {"build", "site_ci1", "docsmoke"},
        reference_parity |-> {"build_inputs", "runtime"},
        build1 |-> {}, build2 |-> {},
        check1 |-> {}, browsertest |-> {"check1"}, inspect1 |-> {"check1"}, ci2 |-> {},
        check2 |-> {"ci2"}, inspect2 |-> {"check2"},
        compare |-> {"inspect1", "inspect2", "browsertest"}]
EarlyParity ==                                  \* a defect of StageDependencies
    [DependencyTable EXCEPT !.reference_parity = {"build_inputs"}]
StageDependencies == DependencyTable

(* _validate_graph, for all runs at once: the first one that waits for none *)
(* but those that were taken comes next.  A cycle leaves nothing to take.  *)
Topological[n \in 0..Len(AllStages)] ==
    IF n = 0 THEN <<>>
    ELSE LET before == Topological[n - 1]
             ready == {i \in DOMAIN AllStages :
                          /\ AllStages[i] \notin ToSet(before)
                          /\ StageDependencies[AllStages[i]] \subseteq ToSet(before)}
         IN Append(before, AllStages[CHOOSE i \in ready : \A j \in ready : i <= j])
StageRank ==
    LET order == Topological[Len(AllStages)]
    IN [s \in ToSet(order) |-> CHOOSE i \in DOMAIN order : order[i] = s]

StageRun ==
    [s \in ToSet(GateOrder) |-> "release"] @@ [s \in ToSet(BuildOrder) |-> "build"]
        @@ [s \in ToSet(DocsOrder) |-> "docs"]

InstallationStages == {"runtime", "py312", "py313", "py314", "operator", "typing"}

NestedRun(S) == [Needs(S) EXCEPT !.stages = TRUE]
ProbeAndSuite(env) == After(ProbeInstalledWheel(env), RunInstalledSuite(env))

(* The value of s stands for that of operator_s, which it keeps as well.     *)
SupportedPython(s, suite) ==
    <<All(<<Needs({"build"}), Inspects(Given({s})), CreateEnvironment(s),
            InstallRequirements(s, {<<"test-requirements", "file">>}),
            InstallExactWheel(s, Wheel), suite>>),
      All(<<Needs({"operator"}), InstallRequirements(s, OperatorRoot({"requirements"})),
            InstallExactWheel(s, OperatorWheel), OperatorSuite(s), Keeps(s)>>)>>

OperatorFrontend ==
    All(<<NpmAudit("operator-application", "operator-npm-audit.json"), BuildFrontend,
          InspectWebTree, NpmSbom("operator-application", "operator-frontend-sbom.cdx.json")>>)
OperatorBuild ==
    LET building == "operator-build-environment"
    IN All(<<CreateEnvironment(building), InstallBuildRequirements(building),
             BuildOperatorWheel("operator-dist-1"), BuildOperatorWheel("operator-dist-2"),
             InspectOperatorWheel, FrontendMatches, CreateEnvironment("operator-documentation")>>)
(* The installed application, before and after what its own suite needs       *)
OperatorRuntime(env) ==
    All(<<CreateEnvironment(env), InstallRequirements(env, OperatorRoot({"requirements"})),
          InstallExactWheel(env, Wheel), InstallExactWheel(env, OperatorWheel),
          ProbeOperator(env), CopyCommands, ConsoleSmoke, ProbeInstalledWheel(env),
          OperatorSupplyChainReports(env)>>)
OperatorChecks(env) ==
    After(InstallRequirements(env, OperatorRoot({"requirements"})), Inspects(OperatorSource))
OperatorGate ==
    LET running == "operator-runtime-environment"
    IN <<All(<<Needs({"build", "build_inputs"}), CopyOperatorSource, InspectScreenshots,
               FrontendToolchain>>),
         NpmInstall("operator-application"),
         After(OperatorFrontend, OperatorBuild),
         DocumentedOperatorSmoke("operator-documentation"),
         All(<<OperatorLicense, OperatorRuntime(running), OperatorChecks(running),
               Keeps("operator")>>)>>

OperatorWebGate ==
    <<All(<<Needs({"operator", "py312", "py313", "py314"}), GenerateScreenshots,
            InspectScreenshots, OperatorEndToEnd>>),
      ContainerBuild, All(<<ContainerRun, OperatorReport, Keeps("operator_web")>>)>>

RuntimeGate ==
    LET env == "runtime-environment"
        requirements == {<<"runtime-requirements", "file">>}
    IN <<All(<<Needs({"build"}), CreateEnvironment(env), InstallRequirements(env, requirements),
               InstallExactWheel(env, Wheel), ProbeInstalledWheel(env),
               SupplyChainReports(env, requirements),
               InstallRequirements(env, {<<"test-requirements", "file">>}),
               RunInstalledSuite(env), Keeps("runtime"), Keeps("runtime_python")>>)>>

ParityGate ==
    <<All(<<Needs({"build_inputs", "runtime_python"}),
            ReferenceInventory("source-api", Part("source-snapshot", {"files"})),
            ReferenceInventory("installed-api", Installed("runtime-environment")),
            CompareInventories>>)>>

StageScript ==
    [quality |-> <<After(QualityGates, Keeps("quality"))>>,
     build_inputs |-> <<All(<<CreateEnvironment("build-environment"),
                              InstallBuildRequirements("build-environment"),
                              SourceSnapshot, Keeps("build_inputs")>>)>>,
     build |-> <<NestedRun({"build_inputs"}), After(CompareArtifacts, Keeps("build"))>>,
     site_ci1 |-> <<After(Needs({"build_inputs"}), CopySnapshot("site-context-1")),
                    NpmInstall("site-context-1"),
                    After(NpmAudit("site-context-1", "site-npm-audit.json"), Keeps("site_ci1"))>>,
     browsers |-> <<All(<<Needs({"build_inputs", "site_ci1"}), InstallBrowsers,
                          Keeps("browsers")>>)>>,
     docs |-> <<NestedRun({"build_inputs", "site_ci1"}), Keeps("docs")>>,
     requirements_runtime |-> <<ExportRequirements("runtime-requirements")>>,
     requirements_test |-> <<ExportRequirements("test-requirements")>>,
     staging |-> <<StageInputs>>,
     artifact_inspection |-> <<All(<<Needs({"build"}), InspectWheel, InspectSdist,
                                     Keeps("artifact_inspection")>>)>>,
     docsmoke |-> <<All(<<Needs({"build"}), CreateEnvironment("documentation"),
                          DocumentedInstallationSmoke("documentation")>>)>>,
     runtime |-> RuntimeGate,
     py312 |-> SupportedPython("py312", ProbeAndSuite("py312")),
     py313 |-> SupportedPython("py313", After(RunInstalledSuite("py313"), ShutdownGate("py313"))),
     py314 |-> SupportedPython("py314", ProbeAndSuite("py314")),
     operator |-> OperatorGate, operator_web |-> OperatorWebGate,
     typing |-> <<After(Needs({"build", "site_ci1"}), TypingGate)>>,
     reference_parity |-> ParityGate,
     build1 |-> <<Build(1)>>, build2 |-> <<Build(2)>>,
     check1 |-> <<DocsCheck(1)>>, browsertest |-> <<BrowserTest>>,
     inspect1 |-> <<InspectStaticSite(1)>>,
     ci2 |-> <<CopySnapshot("site-context-2"), NpmInstall("site-context-2")>>,
     check2 |-> <<DocsCheck(2)>>, inspect2 |-> <<InspectStaticSite(2)>>,
     compare |-> <<CompareSites>>]

(* _GENERATED_REPORT_FILES, and those that _write_final_reports writes       *)
FinalReports ==
    Reports({"artifact-inspection.json", "checksums.sha256", "documentation-inspection.json",
             "provenance.json", "reproducibility.json", "site-inspection.json",
             "verification-summary.json"})
GeneratedReports == FinalReports \cup
    Reports({"coverage.json", "dependencies.json", "dependency-licenses.json",
             "pyright-verifytypes.json", "operator-dependencies.json",
             "operator-frontend-sbom.cdx.json", "operator-inspection.json",
             "operator-npm-audit.json", "operator-sbom.cdx.json",
             "operator-vulnerability-scan.json", "sbom.cdx.json", "site-npm-audit.json",
             "type-completeness.json", "vulnerability-scan.json"})
=============================================================================
