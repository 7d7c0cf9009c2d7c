-------------------------- MODULE ReleaseLane_proofs --------------------------
(***************************************************************************)
(* What an ok verdict of the quorum says about the program, proved for     *)
(* every set of commits, manifests and providers and any number of builds. *)
(***************************************************************************)
EXTENDS ReleaseLane, FiniteSetTheorems, TLAPS

-----------------------------------------------------------------------------
(* The inductive invariant *)

\* A build of a commit for an architecture, in whatever image.
BuildOf(hash, commit, arch) ==
  \E image \in Images : hash = <<commit, arch, image>>

\* The record of a regular build tells the truth.
Honest(record) ==
  record.regular => BuildOf(record.executableHash, record.gitCommit, record.arch)

RepoShape == DOMAIN repo = {"head", "tree"}

\* From the clean worktree to the record, step by step.
BuilderInv ==
  \/ builder = Idle
  \/ /\ builder.pc \in {"compile", "measure"}
     /\ DOMAIN builder = {"pc", "regular", "arch", "image"}
     /\ builder.image \in Images
     /\ builder.pc = "compile" /\ builder.regular => repo.tree = repo.head
     /\ builder.pc = "measure" /\ builder.regular =>
          BuildOf(so, repo.head, builder.arch)
  \/ builder.pc = "write" /\ Honest(builder.record)

InfoInv == info # Absent /\ info.whole => Honest(info)

\* What each report rests on.
ReportInv(u) ==
  /\ quorum.read[u] # Absent => Honest(quorum.read[u])
  /\ quorum.result[u] # Absent =>
       /\ Honest(quorum.result[u].info)
       /\ ~quorum.disturbed => quorum.result[u].executableHash = so

TwoOf(urls) == \E u, v \in urls : Endpoint(u) # Endpoint(v)

SingleSlashes(given) == \A u \in given : u.slashes <= 1

QuorumInv ==
  \/ quorum = Idle
  \/ /\ quorum.pc = "listed"
     /\ DOMAIN quorum = {"pc", "given", "urls", "disturbed"}
     /\ quorum.urls # {} /\ IsFiniteSet(quorum.urls)
     /\ SingleSlashes(quorum.given) => TwoOf(quorum.urls)
  \/ /\ quorum.pc \in {"running", "ok"}
     /\ DOMAIN quorum =
          {"pc", "given", "disturbed", "inputs", "read", "result"}
     /\ DOMAIN quorum.read = DOMAIN quorum.result
     /\ DOMAIN quorum.result # {} /\ IsFiniteSet(DOMAIN quorum.result)
     /\ SingleSlashes(quorum.given) => TwoOf(DOMAIN quorum.result)
     /\ \A u \in DOMAIN quorum.result : ReportInv(u)
     /\ quorum.pc = "ok" => \A u \in DOMAIN quorum.result :
          /\ quorum.result[u] # Absent
          /\ BuildChecks(quorum.inputs, quorum.result[u])

LaneInv == RepoShape /\ BuilderInv /\ InfoInv /\ manifest \in Manifests /\ QuorumInv

-----------------------------------------------------------------------------
(* Two URLs in normal form with one endpoint are one URL *)

Normal(n) ==
  /\ DOMAIN n = {"https", "credentials", "query", "host", "path", "slashes"}
  /\ n = [f \in DOMAIN n |-> n[f]]
  /\ n.https = TRUE /\ n.credentials = FALSE /\ n.query = FALSE
  /\ n.slashes = 0

\* One trailing slash is all that normalizeReleaseRpcUrl takes off, and a URL
\* in normal form is left as it is.
LEMMA OnceNormal ==
  ASSUME NEW u, IsUrl(u), ReleaseUrlOK(u), u.slashes <= 1
  PROVE  Normal(NormalizeReleaseRpcUrl(u))
  <1> DEFINE p == Parsed(u)
             n == NormalizeReleaseRpcUrl(u)
  <1>1. u.https = TRUE /\ u.credentials = FALSE /\ u.query = FALSE
    BY DEF IsUrl, ReleaseUrlOK
  <1>2. /\ DOMAIN p = DOMAIN u
        /\ p.https = TRUE /\ p.credentials = FALSE /\ p.query = FALSE
    BY <1>1 DEF IsUrl, Parsed
  <1>3. p.slashes \in {0, 1}
    <2>1. u.slashes \in {0, 1}
      BY DEF IsUrl
    <2>2. p.slashes = IF u.path = "" /\ u.slashes = 0 THEN 1 ELSE u.slashes
      BY DEF IsUrl, Parsed
    <2> QED
      BY <2>1, <2>2
  <1>4. /\ DOMAIN n = DOMAIN u
        /\ n.https = TRUE /\ n.credentials = FALSE /\ n.query = FALSE
    BY <1>2 DEF IsUrl, NormalizeReleaseRpcUrl
  <1>5. n.slashes = 0
    BY <1>2, <1>3 DEF IsUrl, NormalizeReleaseRpcUrl
  <1>6. n = [f \in DOMAIN n |-> n[f]]
    BY DEF NormalizeReleaseRpcUrl
  <1> QED
    BY <1>4, <1>5, <1>6 DEF IsUrl, Normal

LEMMA NormalKept ==
  ASSUME NEW u, Normal(u)
  PROVE  Normal(NormalizeReleaseRpcUrl(u))
  <1> DEFINE p == Parsed(u)
             n == NormalizeReleaseRpcUrl(u)
  <1>1. /\ DOMAIN p = DOMAIN u
        /\ p.https = TRUE /\ p.credentials = FALSE /\ p.query = FALSE
    BY DEF Normal, Parsed
  <1>2. p.slashes \in {0, 1}
    BY DEF Normal, Parsed
  <1>3. /\ DOMAIN n = DOMAIN u
        /\ n.https = TRUE /\ n.credentials = FALSE /\ n.query = FALSE
    BY <1>1 DEF Normal, NormalizeReleaseRpcUrl
  <1>4. n.slashes = 0
    BY <1>1, <1>2 DEF Normal, NormalizeReleaseRpcUrl
  <1>5. n = [f \in DOMAIN n |-> n[f]]
    BY DEF NormalizeReleaseRpcUrl
  <1> QED
    BY <1>3, <1>4, <1>5 DEF Normal

LEMMA SameEndpoint ==
  ASSUME NEW a, NEW b, Normal(a), Normal(b), Endpoint(a) = Endpoint(b)
  PROVE  a = b
  <1>1. \A f \in DOMAIN a : a[f] = b[f]
    BY DEF Normal, Endpoint
  <1> QED
    BY <1>1 DEF Normal

LEMMA ParsedFinite ==
  ASSUME NEW S, IsFiniteSet(S)
  PROVE  IsFiniteSet(ParseRpcUrlList(S))
  <1> DEFINE f == [u \in S |-> NormalizeReleaseRpcUrl(u)]
  <1>1. f \in Surjection(S, ParseRpcUrlList(S))
    BY DEF Surjection, ParseRpcUrlList
  <1> QED
    BY <1>1, FS_Surjection

LEMMA TwoMembers ==
  ASSUME NEW S, IsFiniteSet(S), Cardinality(S) >= 2
  PROVE  \E a, b \in S : a # b
  <1>1. S # {}
    BY FS_EmptySet
  <1>2. PICK a \in S : TRUE
    BY <1>1
  <1>3. S # {a}
    BY FS_Singleton
  <1> QED
    BY <1>2, <1>3

\* The providers of a manifest whose URLs end in at most one slash each.
LEMMA DistinctEndpoints ==
  ASSUME NEW m \in Manifests,
         \A u \in Given(m) : ReleaseUrlOK(u),
         Cardinality(NormalizeQuorumRpcUrls(ParseInputs(m))) >= 2
  PROVE  LET urls == NormalizeQuorumRpcUrls(ParseInputs(m))
         IN /\ IsFiniteSet(urls) /\ urls # {}
            /\ SingleSlashes(Given(m)) => TwoOf(urls)
  <1> DEFINE urls == NormalizeQuorumRpcUrls(ParseInputs(m))
             first == NormalizeReleaseRpcUrl(NormalizeReleaseRpcUrl(m.rpcUrl))
  <1>1. /\ IsUrl(m.rpcUrl) /\ IsFiniteSet(m.secondaryRpcUrls)
        /\ \A u \in m.secondaryRpcUrls : IsUrl(u)
        /\ {"rpcUrl", "secondaryRpcUrls"} \subseteq DOMAIN m
    BY UrlAssumption
  <1>2. /\ ParseInputs(m).rpcUrl = NormalizeReleaseRpcUrl(m.rpcUrl)
        /\ ParseInputs(m).secondaryRpcUrls = ParseRpcUrlList(m.secondaryRpcUrls)
    BY <1>1 DEF ParseInputs
  <1>3. urls = {first} \cup ParseRpcUrlList(m.secondaryRpcUrls)
                 \cup ParseRpcUrlList(EnvUrls)
    BY <1>2 DEF NormalizeQuorumRpcUrls
  <1>4. IsFiniteSet(urls)
    <2>1. IsFiniteSet({first})
      BY FS_Singleton
    <2>2. IsFiniteSet(ParseRpcUrlList(m.secondaryRpcUrls))
      BY <1>1, ParsedFinite
    <2>3. IsFiniteSet(ParseRpcUrlList(EnvUrls))
      BY UrlAssumption, ParsedFinite
    <2> HIDE DEF first
    <2>4. IsFiniteSet({first} \cup ParseRpcUrlList(m.secondaryRpcUrls))
      BY <2>1, <2>2, FS_Union
    <2> HIDE DEF urls
    <2> QED
      BY <2>3, <2>4, <1>3, FS_Union
  <1>5. PICK a, b \in urls : a # b
    BY <1>4, TwoMembers
  <1>6. ASSUME SingleSlashes(Given(m)) PROVE TwoOf(urls)
    <2>1. \A u \in Given(m) : Normal(NormalizeReleaseRpcUrl(u))
      BY <1>1, <1>6, UrlAssumption, OnceNormal DEF Given, SingleSlashes
    <2>2. Normal(first)
      BY <2>1, NormalKept DEF Given
    <2>3. \A u \in urls : Normal(u)
      BY <2>1, <2>2, <1>3 DEF Given, ParseRpcUrlList
    <2>4. Endpoint(a) # Endpoint(b)
      BY <2>3, <1>5, SameEndpoint
    <2> QED
      BY <2>4 DEF TwoOf
  <1> QED
    BY <1>3, <1>4, <1>6

-----------------------------------------------------------------------------
(* Every step keeps the invariant *)

LEMMA LaneInvInit == LaneInit => LaneInv
  <1> SUFFICES ASSUME LaneInit PROVE LaneInv
    OBVIOUS
  <1> QED
    BY DEF LaneInit, LaneInv, RepoShape, BuilderInv, InfoInv, QuorumInv

\* No step but Compile replaces the program, and Compile marks the running
\* command: what reports say of the program then stops to matter.
LEMMA SameProgram ==
  ASSUME QuorumInv, UNCHANGED <<so, quorum>>
  PROVE  QuorumInv'
  BY DEF QuorumInv, ReportInv

LEMMA BuildSteps ==
  ASSUME LaneInv,
         \/ \E debug \in BOOLEAN, arch \in Arches, image \in Images :
              StartBuild(debug, arch, image)
         \/ Compile \/ (\E b \in BOOLEAN : Measure(b))
         \/ WriteInfo \/ BuilderDies
  PROVE  LaneInv'
  <1> USE DEF LaneInv
  <1>1. ASSUME NEW debug \in BOOLEAN, NEW arch \in Arches, NEW image \in Images,
               StartBuild(debug, arch, image)
        PROVE  LaneInv'
    <2>1. BuilderInv'
      BY <1>1 DEF StartBuild, MayBuild, BuilderInv, Idle
    <2> QED
      BY <1>1, <2>1, SameProgram DEF StartBuild, RepoShape, InfoInv
  <1>2. CASE Compile
    <2>1. BuilderInv'
      <3>1. /\ DOMAIN builder = {"pc", "regular", "arch", "image"}
            /\ builder.image \in Images
        BY <1>2 DEF Compile, BuilderInv, Idle
      <3>2. builder.regular => repo.tree = repo.head
        BY <1>2 DEF Compile, BuilderInv, Idle
      <3> QED
        BY <1>2, <3>1, <3>2 DEF Compile, BuilderInv, BuildOf, Idle
    <2>2. QuorumInv'
      BY <1>2 DEF Compile, Disturbed, QuorumInv, ReportInv, Idle
    <2> QED
      BY <1>2, <2>1, <2>2 DEF Compile, RepoShape, InfoInv
  <1>3. ASSUME NEW b \in BOOLEAN, Measure(b) PROVE LaneInv'
    <2>1. BuilderInv'
      BY <1>3 DEF Measure, BuildInfo, BuilderInv, Honest, Idle
    <2>2. InfoInv'
      BY <1>3 DEF Measure, InfoInv, Honest, Partial
    <2> QED
      BY <1>3, <2>1, <2>2, SameProgram DEF Measure, RepoShape
  <1>4. CASE WriteInfo
    <2>1. InfoInv'
      BY <1>4 DEF WriteInfo, BuilderInv, InfoInv, Honest, Idle
    <2> QED
      BY <1>4, <2>1, SameProgram DEF WriteInfo, BuilderInv, RepoShape
  <1>5. CASE BuilderDies
    BY <1>5, SameProgram DEF BuilderDies, BuilderInv, RepoShape, InfoInv
  <1> QED
    BY <1>1, <1>2, <1>3, <1>4, <1>5

\* A build under which the repository moves is no regular one any more, and what
\* a build has measured stays.
LEMMA MovedKept ==
  ASSUME BuilderInv, builder' = MovedUnder, UNCHANGED so
  PROVE  BuilderInv'
  BY DEF MovedUnder, BuilderInv, Honest, Idle

LEMMA PeopleSteps ==
  ASSUME LaneInv,
         \/ \E c \in Commits : Checkout(c)
         \/ EditSources
         \/ \E m \in Manifests : FillManifest(m)
  PROVE  LaneInv'
  <1> USE DEF LaneInv
  <1>1. ASSUME NEW c \in Commits, Checkout(c) PROVE LaneInv'
    BY <1>1, SameProgram, MovedKept DEF Checkout, RepoShape, InfoInv
  <1>2. CASE EditSources
    BY <1>2, SameProgram, MovedKept DEF EditSources, RepoShape, InfoInv
  <1>3. ASSUME NEW m \in Manifests, FillManifest(m) PROVE LaneInv'
    BY <1>3, SameProgram DEF FillManifest, RepoShape, BuilderInv, InfoInv
  <1> QED
    BY <1>1, <1>2, <1>3

LEMMA OthersKept ==
  ASSUME RepoShape, BuilderInv, InfoInv, manifest \in Manifests,
         UNCHANGED <<repo, so, info, builder, manifest, builds>>
  PROVE  RepoShape' /\ BuilderInv' /\ InfoInv' /\ (manifest \in Manifests)'
  BY DEF RepoShape, BuilderInv, InfoInv

LEMMA QuorumSteps ==
  ASSUME LaneInv,
         \/ ListProviders \/ ReadInputs
         \/ quorum.pc = "running" /\ \E u \in DOMAIN quorum.read :
              ReadReviewedBuildInfo(u) \/ Report(u)
         \/ Summarize \/ EndCommand
  PROVE  LaneInv'
  <1> USE DEF LaneInv
  <1>1. CASE ListProviders
    <2> DEFINE urls == NormalizeQuorumRpcUrls(ParseInputs(manifest))
    <2>1. /\ IsFiniteSet(urls) /\ urls # {}
          /\ SingleSlashes(Given(manifest)) => TwoOf(urls)
      BY <1>1, DistinctEndpoints DEF ListProviders
    <2>2. quorum' = [pc |-> "listed", given |-> Given(manifest),
                     urls |-> urls, disturbed |-> FALSE]
      BY <1>1 DEF ListProviders
    <2> HIDE DEF urls
    <2>3. QuorumInv'
      BY <2>1, <2>2 DEF QuorumInv
    <2> QED
      BY <1>1, <2>3, OthersKept DEF ListProviders
  <1>2. CASE ReadInputs
    <2>1. /\ quorum.urls # {} /\ IsFiniteSet(quorum.urls)
          /\ SingleSlashes(quorum.given) => TwoOf(quorum.urls)
      BY <1>2 DEF ReadInputs, QuorumInv, Idle
    <2>2. QuorumInv'
      BY <1>2, <2>1 DEF ReadInputs, QuorumInv, ReportInv
    <2> QED
      BY <1>2, <2>2, OthersKept DEF ReadInputs
  <1>3. ASSUME NEW u \in DOMAIN quorum.read, quorum.pc = "running",
               ReadReviewedBuildInfo(u)
        PROVE  LaneInv'
    <2>1. Honest(info)
      BY <1>3 DEF ReadReviewedBuildInfo, InfoInv
    <2>2. QuorumInv'
      BY <1>3, <2>1 DEF ReadReviewedBuildInfo, QuorumInv, ReportInv, Idle
    <2> QED
      BY <1>3, <2>2, OthersKept DEF ReadReviewedBuildInfo
  <1>4. ASSUME NEW u \in DOMAIN quorum.read, quorum.pc = "running", Report(u)
        PROVE  LaneInv'
    <2>1. quorum.read[u] # Absent
      BY <1>4 DEF Report, AllStarted
    <2>2. QuorumInv'
      BY <1>4, <2>1 DEF Report, QuorumInv, ReportInv, Idle
    <2> QED
      BY <1>4, <2>2, OthersKept DEF Report
  <1>5. CASE Summarize
    <2>1. QuorumInv'
      BY SMTT(30), <1>5 DEF Summarize, QuorumOK, Reports, QuorumInv, ReportInv, Idle
    <2> QED
      BY <1>5, <2>1, OthersKept DEF Summarize
  <1>6. CASE EndCommand
    BY <1>6, OthersKept DEF EndCommand, QuorumInv
  <1> QED
    BY <1>1, <1>2, <1>3, <1>4, <1>5, <1>6

LEMMA LaneInvariance == LaneSpec => []LaneInv
  <1>1. LaneInv /\ [LaneNext]_laneVars => LaneInv'
    <2> SUFFICES ASSUME LaneInv, [LaneNext]_laneVars PROVE LaneInv'
      OBVIOUS
    <2>1. CASE UNCHANGED laneVars
      BY <2>1, SameProgram, OthersKept DEF laneVars, LaneInv
    <2> QED
      BY <2>1, BuildSteps, PeopleSteps, QuorumSteps DEF LaneNext
  <1> QED
    BY LaneInvInit, <1>1, PTL DEF LaneSpec

-----------------------------------------------------------------------------
(* The results *)

\* What is said to be the reviewed program is a build of the reviewed commit for
\* the reviewed architecture, if some report rests on a regular build
\* (run-verified-build.sh, the checks reviewedBuildInfo* of the dry run).
THEOREM ReviewedBuild == LaneSpec => []OkMeansReviewedBuild
  <1>1. LaneInv => OkMeansReviewedBuild
    <2> SUFFICES ASSUME LaneInv, quorum.pc = "ok",
                        \E r \in Reports : r.info.regular
                 PROVE  BuildOf(quorum.inputs.expectedExecutableHash,
                                quorum.inputs.commitHash, quorum.inputs.arch)
      BY DEF OkMeansReviewedBuild, BuildOf
    <2>1. PICK u \in DOMAIN quorum.result : quorum.result[u].info.regular
      BY DEF Reports
    <2>2. /\ Honest(quorum.result[u].info)
          /\ BuildChecks(quorum.inputs, quorum.result[u])
      BY DEF LaneInv, QuorumInv, ReportInv, Idle
    <2> QED
      BY <2>1, <2>2 DEF Honest, BuildChecks
  <1> QED
    BY LaneInvariance, <1>1, PTL

\* The file in target/deploy is that program as long as no build has run since
\* the command began: every report hashed it (computeExecutableHash).
THEOREM ReviewedFile == LaneSpec => []OkMeansReviewedFile
  <1>1. LaneInv => OkMeansReviewedFile
    <2> SUFFICES ASSUME LaneInv, quorum.pc = "ok", ~quorum.disturbed
                 PROVE  so = quorum.inputs.expectedExecutableHash
      BY DEF OkMeansReviewedFile
    <2>1. PICK u \in DOMAIN quorum.result :
            /\ quorum.result[u].executableHash = so
            /\ BuildChecks(quorum.inputs, quorum.result[u])
      BY DEF LaneInv, QuorumInv, ReportInv, Idle
    <2> QED
      BY <2>1 DEF BuildChecks
  <1> QED
    BY LaneInvariance, <1>1, PTL

\* An ok verdict rests on two endpoints, if none of the URLs it was given ends
\* in more than one slash (normalizeQuorumRpcUrls).
THEOREM DistinctProviders == LaneSpec => []TwoEndpoints
  <1>1. LaneInv => TwoEndpoints
    <2> SUFFICES ASSUME LaneInv, quorum.pc = "ok", SingleSlashes(quorum.given)
                 PROVE  Cardinality({Endpoint(u) : u \in DOMAIN quorum.result}) >= 2
      BY DEF TwoEndpoints, SingleSlashes
    <2> DEFINE D == DOMAIN quorum.result
               T == {Endpoint(u) : u \in D}
               f == [u \in D |-> Endpoint(u)]
    <2>1. IsFiniteSet(D) /\ TwoOf(D)
      BY DEF LaneInv, QuorumInv, Idle
    <2>2. IsFiniteSet(T)
      <3>1. f \in Surjection(D, T)
        BY DEF Surjection
      <3> QED
        BY <2>1, <3>1, FS_Surjection
    <2>3. PICK a, b \in T : a # b
      <3>1. PICK u, v \in D : Endpoint(u) # Endpoint(v)
        BY <2>1 DEF TwoOf
      <3> QED
        BY <3>1
    <2>4. Cardinality({a}) = 1 /\ IsFiniteSet({a})
      BY FS_Singleton
    <2>5. Cardinality({a} \cup {b}) = 2 /\ {a} \cup {b} \subseteq T
      BY <2>3, <2>4, FS_AddElement
    <2>6. Cardinality({a} \cup {b}) <= Cardinality(T)
      BY <2>2, <2>5, FS_Subset
    <2>7. Cardinality(T) \in Nat
      BY <2>2, FS_CardinalityType
    <2> QED
      BY <2>5, <2>6, <2>7
  <1> QED
    BY LaneInvariance, <1>1, PTL

==============================================================================
