------------------------------- MODULE Release -------------------------------
(***************************************************************************)
(* Publishing a version (scripts/release.mjs and scripts/publish.mjs): the *)
(* packages on npm one after another, the Docker image and its channel     *)
(* tag, the MCP registry, the Git tag and the GitHub release.  No state is *)
(* kept between runs: a run may stop anywhere, and the next one plans from *)
(* what it finds at the destinations.  The workflow serializes its runs.   *)
(***************************************************************************)
EXTENDS Integers, FiniteSets, Sequences

CONSTANTS
  ReleaseVersion, \* versions: records [core, pre], pre a sequence of identifiers
  Released,       \* the one that is out when a behavior begins
  Precedence,     \* their order, by semver.org
  Package,        \* the packages in the order of their publication
  MaxMade,        \* bound: versions that are prepared
  NoVersion

Packages == {Package[i] : i \in DOMAIN Package}

ASSUME ReleaseAssumption ==
  /\ Released \in ReleaseVersion /\ Released.pre = <<>>
  /\ Precedence \in [ReleaseVersion -> Nat] /\ MaxMade \in Nat
  /\ Packages # {} /\ NoVersion \notin ReleaseVersion

VARIABLES
  main,         \* commits of main that prepare a version, the oldest first
  npm,          \* packages: the versions published and the version of each channel
  shown,        \* what npm answers, which lags behind
  image,        \* Docker: the versions pushed
  imageChannel, \* and the version of each channel
  registered,   \* MCP registry: the versions
  gitTag,       \* the versions tagged
  github,       \* GitHub releases: "missing", "draft" or "published"
  draftIsGood,  \* drafts without uploads that target the release commit
  latest,       \* the release GitHub calls the latest
  runner        \* the run, with what it read earlier

destinations == <<npm, shown, image, imageChannel, registered, gitTag, github, latest>>
releaseVars == <<main, destinations, draftIsGood, runner>>

Channels == {"latest", "next"}
\* defaultNpmTag, which assertNpmTagMatchesVersion insists on.
Channel(v) == IF v.pre = <<>> THEN "latest" ELSE "next"

PrereleaseFirst(left, right) ==
  IF left.pre = <<>> THEN (IF right.pre = <<>> THEN 0 ELSE 1) ELSE IF right.pre = <<>> THEN -1 ELSE 0

\* Identifiers: a number is below what is not one.
CompareParts(a, b) ==
  IF a = b THEN 0
  ELSE IF a.numeric # b.numeric THEN (IF a.numeric THEN -1 ELSE 1)
  ELSE IF a.rank > b.rank THEN 1 ELSE -1

\* The first identifier that differs decides, or the length.
ComparePrerelease(left, right) ==
  LET shared == 1..(IF Len(left) < Len(right) THEN Len(left) ELSE Len(right))
      differ == {i \in shared : left[i] # right[i]}
  IN IF differ # {}
     THEN LET i == CHOOSE i \in differ : \A j \in differ : i <= j IN CompareParts(left[i], right[i])
     ELSE IF Len(left) = Len(right) THEN 0 ELSE IF Len(left) < Len(right) THEN -1 ELSE 1

\* compareReleaseVersions: 1, 0 or -1.
Compare(left, right) ==
  IF left.core # right.core THEN (IF left.core > right.core THEN 1 ELSE -1)
  ELSE IF left.pre = <<>> \/ right.pre = <<>> THEN PrereleaseFirst(left, right)
  ELSE ComparePrerelease(left.pre, right.pre)
Above(v, w) == v # NoVersion /\ Compare(v, w) > 0

\* compareReleaseVersions orders versions by their precedence, in which they differ.
ComparesByPrecedence ==
  \A v, w \in ReleaseVersion :
    /\ Compare(v, w) > 0 <=> Precedence[v] > Precedence[w]
    /\ Precedence[v] = Precedence[w] => v = w

-----------------------------------------------------------------------------
(* Plans. *)

Missing(v) == {p \in Packages : v \notin shown[p].versions}
TagOf(p, v) == shown[p].tag[Channel(v)]

Active(v) == [inconsistent |-> FALSE, historical |-> FALSE, channel |-> v]
Stuck(v) == [inconsistent |-> TRUE, historical |-> FALSE, channel |-> v]
Historical(w) == [inconsistent |-> FALSE, historical |-> TRUE, channel |-> w]

\* Mutant: a version that is missing is published, whatever the channel offers.
ClassifyWithoutNewer(v) ==
  LET elsewhere == {p \in Packages \ Missing(v) : TagOf(p, v) # v}
      offered == {TagOf(p, v) : p \in elsewhere}
  IN IF Missing(v) = {} /\ elsewhere = Packages /\ Cardinality(offered) = 1 /\ \A w \in offered : Above(w, v)
     THEN Historical(CHOOSE w \in offered : TRUE)
     ELSE IF elsewhere # {} THEN Stuck(v) ELSE Active(v)

\* classifyNpmChannel: whether the channel is at this version, or has gone on to a newer
\* one for all packages.
Classify(v) ==
  LET elsewhere == {p \in Packages \ Missing(v) : TagOf(p, v) # v}
      offered == {TagOf(p, v) : p \in elsewhere}
      newer == {p \in Packages : Above(TagOf(p, v), v)}
  IN IF Missing(v) = {} /\ elsewhere = Packages /\ Cardinality(offered) = 1 /\ \A w \in offered : Above(w, v)
     THEN Historical(CHOOSE w \in offered : TRUE)
     ELSE IF elsewhere # {} \/ (Missing(v) # {} /\ newer # {}) THEN Stuck(v)
     ELSE Active(v)

ChannelMatches(v) ==
  LET w == Classify(v).channel IN w \in image /\ imageChannel[Channel(v)] = w

\* Mutant: a channel tag that was not moved is not repaired.
CoreStuckWhenStale(v) ==
  \/ Classify(v).inconsistent
  \/ v \in image /\ (Missing(v) # {} \/ ~ChannelMatches(v))
\* What planNpmAndDockerRelease and planRelease refuse alike.
CoreStuck(v) ==
  \/ Classify(v).inconsistent
  \/ v \in image /\ Missing(v) # {}
  \/ Classify(v).historical /\ ~ChannelMatches(v)
CoreComplete(v) == v \in image /\ ChannelMatches(v) /\ Missing(v) = {}

\* planRelease.
ReleaseStuck(v) ==
  \/ CoreStuck(v)
  \/ /\ github[v] = "published"
     /\ Missing(v) # {} \/ v \notin image \/ ~ChannelMatches(v) \/ v \notin registered \/ v \notin gitTag
  \/ github[v] = "draft" /\ v \notin draftIsGood
NeedsCore(v) == Missing(v) # {} \/ v \notin image \/ (~Classify(v).historical /\ ~ChannelMatches(v))
NeedsRegistry(v) == v \notin registered
NeedsGitHub(v) == github[v] # "published" \/ v \notin gitTag

-----------------------------------------------------------------------------
NoRun == [at |-> "idle", version |-> NoVersion, missing |-> {}, docker |-> "none",
          npm |-> Active(NoVersion), tagged |-> FALSE, release |-> "missing"]

ReleaseInit ==
  LET out == [versions |-> {Released}, tag |-> [c \in Channels |-> IF c = "latest" THEN Released ELSE NoVersion]]
  IN /\ main = <<Released>>
     /\ npm = [p \in Packages |-> out] /\ shown = npm
     /\ image = {Released} /\ imageChannel = out.tag
     /\ registered = {Released} /\ gitTag = {Released}
     /\ github = [v \in ReleaseVersion |-> IF v = Released THEN "published" ELSE "missing"]
     /\ draftIsGood = {} /\ latest = Released /\ runner = NoRun

OnMain == {main[i] : i \in DOMAIN main}
Position(v) == CHOOSE i \in DOMAIN main : main[i] = v

\* A release pull request is merged: prepare has found no entry of that version in
\* the changelog.
PrepareVersion(v) ==
  /\ v \notin OnMain /\ Len(main) <= MaxMade
  /\ main' = Append(main, v)
  /\ UNCHANGED <<destinations, draftIsGood, runner>>

\* Somebody drafts a release by hand, one at a time, or deletes the draft.
DraftRelease(v) ==
  /\ runner.at = "idle" /\ v \in OnMain
  /\ \/ /\ github[v] = "missing" /\ \A w \in OnMain : github[w] # "draft"
        /\ github' = [github EXCEPT ![v] = "draft"]
        /\ draftIsGood' \in {draftIsGood, draftIsGood \cup {v}}
     \/ /\ github[v] = "draft"
        /\ github' = [github EXCEPT ![v] = "missing"]
        /\ draftIsGood' = draftIsGood \ {v}
  /\ UNCHANGED <<main, npm, shown, image, imageChannel, registered, gitTag, latest, runner>>

CatchesUp(p) ==
  /\ shown[p] # npm[p]
  /\ shown' = [shown EXCEPT ![p] = npm[p]]
  /\ UNCHANGED <<main, npm, image, imageChannel, registered, gitTag, github, latest, draftIsGood, runner>>

-----------------------------------------------------------------------------
(* A run of "release publish". *)

Goes(l) == runner' = [runner EXCEPT !.at = l]

\* The clean checkout of a commit of main is the source.  npm has caught up with the
\* runs before, which the checks of the workflow take long enough for.
StartRun(v) ==
  /\ runner.at = "idle" /\ v \in OnMain /\ shown = npm
  /\ runner' = [NoRun EXCEPT !.at = "inspect", !.version = v]
  /\ UNCHANGED <<main, destinations, draftIsGood>>

\* inspectReleaseStatus, planRelease and the way on from there; assertExistingGitState
\* refuses a draft of another commit.
Inspect(from) ==
  LET v == runner.version
  IN /\ runner.at = from /\ ~ReleaseStuck(v)
     /\ from = "inspectCore" => ~NeedsCore(v)
     /\ from = "inspectRegistry" => ~NeedsRegistry(v)
     /\ runner' = [runner EXCEPT !.npm = Classify(v), !.tagged = v \in gitTag, !.release = github[v],
          !.at = IF from = "inspect" /\ NeedsCore(v) THEN "plan"
                 ELSE IF from # "inspectRegistry" /\ NeedsRegistry(v) THEN "registry"
                 ELSE IF NeedsGitHub(v) THEN "tag" ELSE "verify"]
     /\ UNCHANGED <<main, destinations, draftIsGood>>

\* publishDocker and repairDockerChannel of planNpmAndDockerRelease.
DockerStep(v) ==
  IF v \notin image THEN "push"
  ELSE IF ~Classify(v).historical /\ ~ChannelMatches(v) THEN "repair" ELSE "none"

\* publish.mjs plans for itself, after the checks and before the build.
PlanCore ==
  LET v == runner.version
  IN /\ runner.at = "plan" /\ ~CoreStuck(v)
     /\ runner' = [runner EXCEPT !.npm = Classify(v), !.missing = Missing(v),
          !.docker = DockerStep(v),
          !.at = IF CoreComplete(v) THEN "inspectCore" ELSE "packages"]
     /\ UNCHANGED <<main, destinations, draftIsGood>>

\* npm publish refuses a version that exists.
PublishPackage ==
  LET v == runner.version
  IN /\ runner.at = "packages"
     /\ \E i \in DOMAIN Package :
          LET next == Package[i]
          IN /\ next \in runner.missing /\ \A j \in 1..(i - 1) : Package[j] \notin runner.missing
             /\ v \notin npm[next].versions
             /\ npm' = [npm EXCEPT ![next] = [versions |-> @.versions \cup {v}, tag |-> [@.tag EXCEPT ![Channel(v)] = v]]]
             /\ runner' = [runner EXCEPT !.missing = @ \ {next}]
     /\ UNCHANGED <<main, shown, image, imageChannel, registered, gitTag, github, latest, draftIsGood>>

\* All packages are there and the channel has not moved.
ConfirmPackages ==
  LET v == runner.version
  IN /\ runner.at = "packages" /\ runner.missing = {}
     /\ Missing(v) = {} /\ Classify(v) = runner.npm
     /\ Goes(IF runner.docker = "none" THEN "compare" ELSE runner.docker)
     /\ UNCHANGED <<main, destinations, draftIsGood>>

\* The image is pushed under its version, and then under the channel.
PushImage ==
  /\ runner.at = "push"
  /\ image' = image \cup {runner.version}
  /\ Goes(IF runner.npm.historical THEN "compare" ELSE "repair")
  /\ UNCHANGED <<main, npm, shown, imageChannel, registered, gitTag, github, latest, draftIsGood>>
MoveImageChannel ==
  /\ runner.at = "repair"
  /\ imageChannel' = [imageChannel EXCEPT ![Channel(runner.version)] = runner.version]
  /\ Goes("compare")
  /\ UNCHANGED <<main, npm, shown, image, registered, gitTag, github, latest, draftIsGood>>
CompareDigests ==
  /\ runner.at = "compare"
  /\ runner.version \in image /\ imageChannel[Channel(runner.version)] = runner.npm.channel
  /\ Goes("inspectCore")
  /\ UNCHANGED <<main, destinations, draftIsGood>>

PublishRegistry ==
  /\ runner.at = "registry"
  /\ registered' = registered \cup {runner.version}
  /\ Goes("inspectRegistry")
  /\ UNCHANGED <<main, npm, shown, image, imageChannel, gitTag, github, latest, draftIsGood>>

\* publishGitHubRelease: push the tag,
PushTag ==
  /\ runner.at = "tag"
  /\ gitTag' = gitTag \cup {runner.version}
  /\ Goes(IF runner.release = "published" THEN "verify" ELSE "release")
  /\ UNCHANGED <<main, npm, shown, image, imageChannel, registered, github, latest, draftIsGood>>

\* isHistoricalBackfill: a release made from a later commit is out.
Backfills(v) ==
  \E w \in OnMain \ {v} :
    /\ github[w] = "published" /\ (v.pre # <<>> \/ w.pre = <<>>)
    /\ Position(v) < Position(w)

\* and create the release, or publish the draft.  GitHub calls it the latest unless told
\* otherwise or it is a prerelease.
PublishGitHub ==
  LET v == runner.version
  IN /\ runner.at = "release"
     /\ github' = [github EXCEPT ![v] = "published"]
     /\ draftIsGood' = draftIsGood \ {v}
     /\ latest' = IF runner.npm.historical \/ Backfills(v) \/ v.pre # <<>> THEN latest ELSE v
     /\ Goes("verify")
     /\ UNCHANGED <<main, npm, shown, image, imageChannel, registered, gitTag>>

\* verifyRelease.
Verify ==
  LET v == runner.version
  IN /\ runner.at = "verify"
     /\ ~ReleaseStuck(v) /\ CoreComplete(v) /\ ~NeedsRegistry(v) /\ ~NeedsGitHub(v)
     /\ runner' = NoRun
     /\ UNCHANGED <<main, destinations, draftIsGood>>

\* The run ends with an error, of its own or of what it calls, or is cut off.
StopRun ==
  /\ runner.at # "idle"
  /\ runner' = NoRun
  /\ UNCHANGED <<main, destinations, draftIsGood>>

Proceeds ==
  \/ \E from \in {"inspect", "inspectCore", "inspectRegistry"} : Inspect(from)
  \/ PlanCore \/ PublishPackage \/ ConfirmPackages \/ PushImage \/ MoveImageChannel \/ CompareDigests
  \/ PublishRegistry \/ PushTag \/ PublishGitHub \/ Verify

ReleaseNext ==
  \/ Proceeds \/ StopRun
  \/ \E v \in ReleaseVersion : PrepareVersion(v) \/ DraftRelease(v) \/ StartRun(v)
  \/ \E p \in Packages : CatchesUp(p)

ReleaseSpec == ReleaseInit /\ [][ReleaseNext]_releaseVars

-----------------------------------------------------------------------------
(* Properties. *)

ReleaseTypeOK ==
  /\ OnMain \subseteq ReleaseVersion /\ Cardinality(OnMain) = Len(main)
  /\ \A p \in Packages : npm[p].versions \subseteq OnMain /\ \A c \in Channels : npm[p].tag[c] \in npm[p].versions \cup {NoVersion}
  /\ \A p \in Packages : shown[p].versions \subseteq npm[p].versions
  /\ image \subseteq OnMain /\ registered \subseteq OnMain /\ gitTag \subseteq OnMain
  /\ imageChannel \in [Channels -> image \cup {NoVersion}]
  /\ github \in [ReleaseVersion -> {"missing", "draft", "published"}] /\ draftIsGood \subseteq OnMain
  /\ runner.version \in OnMain \cup {NoVersion} /\ runner.missing \subseteq Packages

\* What a release promises is there before it is announced, wherever runs stopped: the
\* image needs all packages, and the GitHub release everything.
AnnouncedIsThere ==
  \A v \in ReleaseVersion :
    /\ v \in image => \A p \in Packages : v \in npm[p].versions
    /\ github[v] = "published" =>
         v \in image /\ v \in registered /\ v \in gitTag

\* No channel goes back to an older version, whatever is resumed after whatever: users
\* of "latest" are never downgraded.
NotBelow(new, old) == old = NoVersion \/ (new # NoVersion /\ Precedence[new] >= Precedence[old])
ChannelsNeverGoBack ==
  [][/\ \A p \in Packages, c \in Channels : NotBelow(npm'[p].tag[c], npm[p].tag[c])
     /\ \A c \in Channels : NotBelow(imageChannel'[c], imageChannel[c])
     /\ NotBelow(latest', latest)]_releaseVars

\* The newest version of a channel that was begun can always be resumed, once npm has
\* caught up and unless a draft is in the way.
Begun(v) == \E p \in Packages : v \in npm[p].versions
NewestCanResume ==
  runner.at = "idle" /\ shown = npm =>
    \A v \in OnMain :
      /\ Begun(v) /\ \A w \in ReleaseVersion : Begun(w) /\ Channel(w) = Channel(v) => Precedence[w] <= Precedence[v]
      /\ github[v] = "draft" => v \in draftIsGood
      => ~ReleaseStuck(v)

\* Wherever a release stopped, what is announced is there and the newest can be finished.
ReleasesAreWhole == ReleaseTypeOK /\ AnnouncedIsThere /\ NewestCanResume
=============================================================================
