------------------------------- MODULE Releases -------------------------------
(***************************************************************************)
(* The publication of one version: the jobs of .github/workflows/          *)
(* release.yml that follow the building of its images, with                *)
(* publishReleaseImageTags (scripts/publish-release-image-tags-lib.mjs),   *)
(* verifyPublicReleaseImages (scripts/verify-public-release-images-lib.mjs)*)
(* and publishGitHubRelease (scripts/publish-github-release-lib.mjs).      *)
(*                                                                         *)
(* A publisher is a run of these jobs; the workflow's concurrency group    *)
(* lets one run at a time.  A run that failed may be repeated wholly,      *)
(* which builds images with other digests, or from its failed job, which   *)
(* keeps them.  A digest is named by the build it comes from.              *)
(***************************************************************************)
EXTENDS Naturals

CONSTANTS
  LastImage,     \* images 1 .. LastImage, in the order of release-images.json
  Publishers,    \* runs of the publishing jobs
  BuildOf        \* the build whose digest records a run downloads

VARIABLES
  tag,       \* the build each image's version tag points to
  release,   \* the build the published GitHub Release describes
  job,       \* where each publisher is
  image,     \* the image it is at
  seen,      \* what its preflight found
  tagged     \* the builds whose publish_images job succeeded

releaseVars == <<tag, release, job, image, seen, tagged>>

Images == 1 .. LastImage
NoBuild == 0
Builds == {BuildOf[p] : p \in Publishers}

ReleaseParameters ==
  /\ LastImage \in Nat \ {0}
  /\ BuildOf \in [Publishers -> Nat \ {NoBuild}]

Ends == {"published", "failed"}
Working == {"preflight", "tags", "creating", "checking", "final", "public",
            "inspect", "create", "await"}

ReleaseTypeOK ==
  /\ tag \in [Images -> Builds \union {NoBuild}]
  /\ release \in Builds \union {NoBuild}
  /\ job \in [Publishers -> Working \union Ends \union {"queued"}]
  /\ image \in [Publishers -> Images]
  /\ seen \in [Publishers -> [Images -> Builds \union {NoBuild}]]
  /\ tagged \subseteq Builds

ReleaseInit ==
  /\ tag = [i \in Images |-> NoBuild]
  /\ release = NoBuild
  /\ job = [p \in Publishers |-> "queued"]
  /\ image = [p \in Publishers |-> 1]
  /\ seen = [p \in Publishers |-> [i \in Images |-> NoBuild]]
  /\ tagged = {}

-----------------------------------------------------------------------------

At(p, place) == job[p] = place
Goes(p, place) == job' = [job EXCEPT ![p] = place]

\* On to the next image, or to the next loop after the last one.
Advance(p, loop, next) ==
  IF image[p] < LastImage
  THEN image' = [image EXCEPT ![p] = @ + 1] /\ Goes(p, loop)
  ELSE image' = [image EXCEPT ![p] = 1] /\ Goes(p, next)

\* Wrong variant: a tag that is present counts, whatever it points to.
OwnPresent(p, build) == build # NoBuild

\* What an inspection found is the publisher's own digest.
Own(p, build) == build = BuildOf[p]

\* A run starts when no other is under way; one that is repeated from its
\* failed job skips publish_images if that has succeeded.
Start(p) ==
  /\ At(p, "queued")
  /\ \A q \in Publishers : job[q] \notin Working
  /\ Goes(p, IF BuildOf[p] \in tagged THEN "inspect" ELSE "preflight")
  /\ UNCHANGED <<tag, release, image, seen, tagged>>

\* publishReleaseImageTags looks at all tags before it creates one, and stops
\* if one of them points to another digest.
Preflight(p) ==
  /\ At(p, "preflight")
  /\ seen' = [seen EXCEPT ![p][image[p]] = tag[image[p]]]
  /\ image[p] = LastImage =>
       \A i \in Images : seen'[p][i] = NoBuild \/ Own(p, seen'[p][i])
  /\ Advance(p, "preflight", "tags")
  /\ UNCHANGED <<tag, release, tagged>>

\* The tag was present, or is when it is inspected again.
KeepTag(p) ==
  /\ At(p, "tags")
  /\ seen[p][image[p]] # NoBuild \/ Own(p, tag[image[p]])
  /\ Advance(p, "tags", "final")
  /\ UNCHANGED <<tag, release, seen, tagged>>

\* It is still absent, and is created ...
DecideTag(p) ==
  /\ At(p, "tags")
  /\ seen[p][image[p]] = NoBuild
  /\ tag[image[p]] = NoBuild
  /\ Goes(p, "creating")
  /\ UNCHANGED <<tag, release, image, seen, tagged>>

\* ... by docker buildx imagetools create, which may fail or be killed
\* without or with its effect ...
CreateTag(p) ==
  /\ At(p, "creating")
  /\ tag' = [tag EXCEPT ![image[p]] = BuildOf[p]]
  /\ Goes(p, "checking") \/ Goes(p, "failed")
  /\ UNCHANGED <<release, image, seen, tagged>>

\* ... and inspected.
CheckTag(p) ==
  /\ At(p, "checking")
  /\ Own(p, tag[image[p]])
  /\ Advance(p, "tags", "final")
  /\ UNCHANGED <<tag, release, seen, tagged>>

\* The last loop of publishReleaseImageTags inspects every tag.
FinalCheck(p) ==
  /\ At(p, "final")
  /\ Own(p, tag[image[p]])
  /\ Advance(p, "final", "public")
  /\ UNCHANGED <<tag, release, seen, tagged>>

\* verifyPublicReleaseImages does so once more without credentials.
PublicCheck(p) ==
  /\ At(p, "public")
  /\ Own(p, tag[image[p]])
  /\ Advance(p, "public", "inspect")
  /\ tagged' = IF image[p] = LastImage THEN tagged \union {BuildOf[p]} ELSE tagged
  /\ UNCHANGED <<tag, release, seen>>

\* The bundle is packaged and verified, and publishGitHubRelease looks for
\* the release: an existing one has to describe the same bundle.
InspectRelease(p) ==
  /\ At(p, "inspect")
  /\ \/ release = NoBuild /\ Goes(p, "create")
     \/ release # NoBuild /\ Own(p, release) /\ Goes(p, "published")
  /\ UNCHANGED <<tag, release, image, seen, tagged>>

\* gh release create refuses a release that exists; an error is kept until
\* the release has been looked for.
CreateRelease(p) ==
  /\ At(p, "create")
  /\ release' \in {release, IF release = NoBuild THEN BuildOf[p] ELSE release}
  /\ Goes(p, "await")
  /\ UNCHANGED <<tag, image, seen, tagged>>

\* waitForPublishedRelease and verifyPublishedRelease: it is visible in time
\* and describes the bundle.
ConfirmRelease(p) ==
  /\ At(p, "await")
  /\ release # NoBuild /\ Own(p, release)
  /\ Goes(p, "published")
  /\ UNCHANGED <<tag, release, image, seen, tagged>>

\* A check or a request fails, or the run is cancelled or dies.
Stop(p) ==
  /\ job[p] \in Working
  /\ Goes(p, "failed")
  /\ UNCHANGED <<tag, release, image, seen, tagged>>

Publish(p) ==
  \/ Start(p) \/ Preflight(p) \/ KeepTag(p) \/ DecideTag(p) \/ CreateTag(p)
  \/ CheckTag(p) \/ FinalCheck(p) \/ PublicCheck(p)
  \/ InspectRelease(p) \/ CreateRelease(p) \/ ConfirmRelease(p) \/ Stop(p)

ReleaseNext == \E p \in Publishers : Publish(p)

ReleaseSpec == ReleaseInit /\ [][ReleaseNext]_releaseVars

-----------------------------------------------------------------------------

\* A published release describes the images its version tags point to, all
\* of them and for good, although runs fail half way and are repeated with
\* the same or with other digests; and a run that reports success did so of
\* that release (release.yml, jobs publish_images and publish).
ReleaseMatchesTags ==
  /\ release # NoBuild => \A i \in Images : tag[i] = release
  /\ \A p \in Publishers : job[p] = "published" => release = BuildOf[p]

=============================================================================
