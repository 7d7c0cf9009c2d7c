----------------------------- MODULE ReleaseLane ------------------------------
(***************************************************************************)
(* From the sources to an accepted dry run, as far as files go: the build  *)
(* script that replaces the program and then its build-info record, people *)
(* who change the sources and fill the manifest in, and the quorum command *)
(* that reads all of these at moments of its own.  What the providers say  *)
(* of the chain is the subject of DryRun; here each answers well, at some  *)
(* time, or spoils the command.                                            *)
(*                                                                         *)
(* The build is deterministic: its hash stands for the sources, the        *)
(* architecture and the image it was built in, so that equal hashes are    *)
(* equal programs.  The runbook asks for a pinned repository; people check *)
(* out and edit at any time all the same, and a build that this happens to *)
(* is no regular one.                                                      *)
(* Definitions named Bug... are mistakes; no specification uses one.       *)
(***************************************************************************)
EXTENDS Naturals, FiniteSets

CONSTANTS
  Commits,          \* the commits of the repository
  Edited,           \* sources that are no commit's
  Arches,           \* architectures to build for
  Images,           \* base images to build in (SOLANA_VERIFY_BASE_IMAGE)
  Manifests,        \* bound: the manifests somebody fills in
  EnvUrls,          \* DRY_RUN_RPC_URLS or SOLANA_RPC_URLS: a set of entries
  MaxBuilds,        \* bound: builds that are started
  Deployed,         \* the program on chain: its hash
  Absent            \* no such file

ASSUME LaneAssumption == Edited \notin Commits /\ MaxBuilds \in Nat

\* An entry that parses as a URL.
IsUrl(u) ==
  /\ DOMAIN u = {"https", "credentials", "query", "host", "path", "slashes"}
  /\ u.https \in BOOLEAN /\ u.credentials \in BOOLEAN /\ u.query \in BOOLEAN
  /\ u.slashes \in Nat

ASSUME UrlAssumption ==
  /\ IsFiniteSet(EnvUrls) /\ \A u \in EnvUrls : IsUrl(u)
  /\ \A m \in Manifests :
       /\ {"rpcUrl", "secondaryRpcUrls"} \subseteq DOMAIN m
       /\ IsUrl(m.rpcUrl) /\ IsFiniteSet(m.secondaryRpcUrls)
       /\ \A u \in m.secondaryRpcUrls : IsUrl(u)

VARIABLES
  repo,             \* what HEAD is and what the worktree holds
  so,               \* target/deploy/migrator.so: its hash
  info,             \* artifacts/verified-build/migrator.build-info.json
  builder,          \* the running build script
  manifest,         \* the mainnet inputs file
  quorum,           \* the running quorum command
  builds            \* how many builds were started

laneVars == <<repo, so, info, builder, manifest, quorum, builds>>

Idle == [pc |-> "idle"]
Partial == [whole |-> FALSE]

-----------------------------------------------------------------------------
(* RPC URLs: scheme, credentials, query, host, path and trailing slashes *)

\* What new URL() makes of an entry: an empty path is the root.
Parsed(u) ==
  [u EXCEPT !.slashes = IF u.path = "" /\ u.slashes = 0 THEN 1 ELSE @]

\* An address in brackets is never found private; a name that starts like one
\* always is.
RefusedHost(host) == host.kind \in {"local", "private v4", "fc or fd name"}

ReleaseUrlOK(u) ==
  /\ u.https /\ ~u.credentials /\ ~u.query
  /\ ~RefusedHost(u.host)

\* One trailing slash is taken off.
NormalizeReleaseRpcUrl(u) ==
  [Parsed(u) EXCEPT !.slashes = IF @ = 0 THEN 0 ELSE @ - 1]

BugParseRpcUrlList(entries) == {Parsed(u) : u \in entries}

ParseRpcUrlList(entries) == {NormalizeReleaseRpcUrl(u) : u \in entries}

\* parseInputs: every entry of the manifest is normalised once ...
ParseInputs(m) ==
  [m EXCEPT !.rpcUrl = NormalizeReleaseRpcUrl(@),
            !.secondaryRpcUrls = ParseRpcUrlList(@)]

\* ... and the primary once more.
NormalizeQuorumRpcUrls(inputs) ==
  {NormalizeReleaseRpcUrl(inputs.rpcUrl)} \cup inputs.secondaryRpcUrls
    \cup ParseRpcUrlList(EnvUrls)

Given(m) == {m.rpcUrl} \cup m.secondaryRpcUrls \cup EnvUrls

-----------------------------------------------------------------------------
(* run-verified-build.sh *)

BugMayBuild(debug) == TRUE

MayBuild(debug) == repo.tree = repo.head \/ debug

\* ALLOW_DIRTY_WORKTREE=1 is a debug build, not a regular one.
StartBuild(debug, arch, image) ==
  /\ builder = Idle /\ builds < MaxBuilds
  /\ MayBuild(debug)
  /\ builder' = [pc |-> "compile", regular |-> ~debug, arch |-> arch,
                 image |-> image]
  /\ builds' = builds + 1
  /\ UNCHANGED <<repo, so, info, manifest, quorum>>

\* The command has run since its start while the program was replaced.
Disturbed == IF quorum = Idle THEN Idle ELSE [quorum EXCEPT !.disturbed = TRUE]

Compile ==
  /\ builder.pc = "compile"
  /\ so' = <<repo.tree, builder.arch, builder.image>>
  /\ builder' = [builder EXCEPT !.pc = "measure"]
  /\ quorum' = Disturbed
  /\ UNCHANGED <<repo, info, manifest, builds>>

\* Compared when a program id is given.
MatchesOnChain(compare) ==
  IF ~compare THEN "null" ELSE IF so = Deployed THEN "true" ELSE "false"

\* The record that will be written.  The image is not in it.  regular is not in
\* the file: it stands for what the people know of the build.
BuildInfo(compare) ==
  [whole |-> TRUE, gitCommit |-> repo.head, arch |-> builder.arch,
   executableHash |-> so, matchesOnChain |-> MatchesOnChain(compare),
   regular |-> builder.regular]

\* The hash, the commit, the program on chain; then the file is emptied.
Measure(compare) ==
  /\ builder.pc = "measure"
  /\ builder' = [pc |-> "write", record |-> BuildInfo(compare)]
  /\ info' = Partial
  /\ UNCHANGED <<repo, so, manifest, quorum, builds>>

\* A mismatch on chain exits 1 after the file has been written.
WriteInfo ==
  /\ builder.pc = "write"
  /\ info' = builder.record
  /\ builder' = Idle
  /\ UNCHANGED <<repo, so, manifest, quorum, builds>>

\* set -e, a signal, a crash: whatever was done stays.
BuilderDies ==
  /\ builder # Idle
  /\ builder' = Idle
  /\ UNCHANGED <<repo, so, info, manifest, quorum, builds>>

-----------------------------------------------------------------------------
(* People *)

\* The build that runs, seen from the repository that moves under it.
MovedUnder ==
  IF builder.pc \in {"compile", "measure"}
  THEN [builder EXCEPT !.regular = FALSE] ELSE builder

Checkout(c) ==
  /\ repo' = [head |-> c, tree |-> c]
  /\ builder' = MovedUnder
  /\ UNCHANGED <<so, info, manifest, quorum, builds>>

EditSources ==
  /\ repo' = [repo EXCEPT !.tree = Edited]
  /\ builder' = MovedUnder
  /\ UNCHANGED <<so, info, manifest, quorum, builds>>

\* A manifest that is not read any more may as well be filled in later.
FillManifest(m) ==
  /\ quorum = Idle \/ quorum.pc = "listed"
  /\ manifest' = m
  /\ UNCHANGED <<repo, so, info, builder, quorum, builds>>

-----------------------------------------------------------------------------
(* validateMainnetInputsQuorum.ts *)

\* main reads the manifest for its URLs, or throws.
ListProviders ==
  /\ quorum = Idle
  /\ \A u \in Given(manifest) : ReleaseUrlOK(u)
  /\ LET urls == NormalizeQuorumRpcUrls(ParseInputs(manifest))
     IN /\ Cardinality(urls) >= 2
        /\ quorum' = [pc |-> "listed", given |-> Given(manifest),
                      urls |-> urls, disturbed |-> FALSE]
  /\ UNCHANGED <<repo, so, info, builder, manifest, builds>>

\* validateMainnetInputsQuorum reads it again for what is to be judged.
ReadInputs ==
  /\ quorum.pc = "listed"
  /\ \A u \in Given(manifest) \ EnvUrls : ReleaseUrlOK(u)
  /\ quorum' = [pc |-> "running", given |-> quorum.given,
                disturbed |-> quorum.disturbed,
                inputs |-> ParseInputs(manifest),
                read |-> [u \in quorum.urls |-> Absent],
                result |-> [u \in quorum.urls |-> Absent]]
  /\ UNCHANGED <<repo, so, info, builder, manifest, builds>>

\* A report starts by reading the record.
ReadReviewedBuildInfo(u) ==
  /\ quorum.pc = "running" /\ quorum.read[u] = Absent
  /\ info # Absent /\ info.whole
  /\ quorum' = [quorum EXCEPT !.read[u] = info]
  /\ UNCHANGED <<repo, so, info, builder, manifest, builds>>

AllStarted == \A u \in DOMAIN quorum.read : quorum.read[u] # Absent

\* Its provider has answered: the program is hashed only now.
Report(u) ==
  /\ quorum.pc = "running" /\ AllStarted /\ so # Absent
  /\ quorum.result[u] = Absent
  /\ quorum' = [quorum EXCEPT !.result[u] =
       [info |-> quorum.read[u], executableHash |-> so]]
  /\ UNCHANGED <<repo, so, info, builder, manifest, builds>>

BugBuildChecks(inputs, r) ==
  /\ r.executableHash = inputs.expectedExecutableHash
  /\ r.info.arch = inputs.arch
  /\ r.info.executableHash = inputs.expectedExecutableHash

BugRecordOnly(inputs, r) ==
  /\ r.info.gitCommit = inputs.commitHash
  /\ r.info.arch = inputs.arch
  /\ r.info.executableHash = inputs.expectedExecutableHash

\* matchesOnChain is not looked at.
BuildChecks(inputs, r) ==
  /\ r.executableHash = inputs.expectedExecutableHash
  /\ r.info.gitCommit = inputs.commitHash
  /\ r.info.arch = inputs.arch
  /\ r.info.executableHash = inputs.expectedExecutableHash
  /\ r.info.executableHash = r.executableHash

\* Consensus: the snapshots hold the record's fields and the hash.
Snapshot(r) ==
  [gitCommit |-> r.info.gitCommit, arch |-> r.info.arch,
   recorded |-> r.info.executableHash, matches |-> r.info.matchesOnChain,
   executableHash |-> r.executableHash]

Reports == {quorum.result[u] : u \in DOMAIN quorum.result}

QuorumOK ==
  /\ \A r \in Reports : BuildChecks(quorum.inputs, r)
  /\ \A r, s \in Reports : Snapshot(r) = Snapshot(s)

\* Exit 0, or exit 1, which nothing rests on.
Summarize ==
  /\ quorum.pc = "running" /\ Absent \notin Reports
  /\ quorum' = IF QuorumOK THEN [quorum EXCEPT !.pc = "ok"] ELSE Idle
  /\ UNCHANGED <<repo, so, info, builder, manifest, builds>>

\* It throws on a manifest that it cannot read or is stopped; a provider fails,
\* its answers are not what the manifest expects, or the record or the program
\* is not there, and the command will exit 1 when the others have answered.
\* An ok report is forgotten at some time.
EndCommand ==
  /\ quorum # Idle
  /\ quorum' = Idle
  /\ UNCHANGED <<repo, so, info, builder, manifest, builds>>

-----------------------------------------------------------------------------
LaneInit ==
  /\ \E c \in Commits : repo = [head |-> c, tree |-> c]
  /\ so = Absent /\ info = Absent
  /\ builder = Idle /\ quorum = Idle
  /\ manifest \in Manifests
  /\ builds = 0

LaneNext ==
  \/ \E debug \in BOOLEAN, arch \in Arches, image \in Images :
       StartBuild(debug, arch, image)
  \/ Compile \/ (\E b \in BOOLEAN : Measure(b))
  \/ WriteInfo \/ BuilderDies
  \/ (\E c \in Commits : Checkout(c)) \/ EditSources
  \/ \E m \in Manifests : FillManifest(m)
  \/ ListProviders \/ ReadInputs
  \/ quorum.pc = "running" /\ \E u \in DOMAIN quorum.read :
       ReadReviewedBuildInfo(u) \/ Report(u)
  \/ Summarize \/ EndCommand

LaneSpec == LaneInit /\ [][LaneNext]_laneVars

-----------------------------------------------------------------------------
(* Properties *)

Endpoint(u) == <<u.host, u.path>>

\* The program that an ok verdict speaks of is a build of the commit and the
\* architecture in the judged manifest, in some image, whatever was rebuilt,
\* checked out, crashed half-way or filled in by hand before and in between,
\* if some report rests on the record of a regular build.
OkMeansReviewedBuild ==
  quorum.pc = "ok" /\ (\E r \in Reports : r.info.regular) =>
    \E image \in Images :
      quorum.inputs.expectedExecutableHash =
        <<quorum.inputs.commitHash, quorum.inputs.arch, image>>

\* If no build has touched it since the command began, the file that is there
\* when the verdict is ok is that program too, not a newer or older one that
\* an interrupted build left beside another build's record.
OkMeansReviewedFile ==
  quorum.pc = "ok" /\ ~quorum.disturbed =>
    so = quorum.inputs.expectedExecutableHash

\* No provider is counted twice: an ok verdict rests on two endpoints, however
\* the manifest and the environment spell them, if none is spelled with more
\* than one trailing slash.
TwoEndpoints ==
  quorum.pc = "ok" /\ (\A u \in quorum.given : u.slashes <= 1) =>
    Cardinality({Endpoint(u) : u \in DOMAIN quorum.result}) >= 2

==============================================================================
