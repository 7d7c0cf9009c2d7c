CONSTANTS
  C1 = C1
  C2 = C2
  A = A
  B = B
  L = L
  Pinned = Pinned
  Floating = Floating
  Edited = Edited
  Absent = Absent
  Commits <- TwoCommits
  Arches <- TwoArches
  Images <- TwoImages
  Manifests <- AnyManifest
  EnvUrls <- OneOverride
  MaxBuilds = 2
  Deployed <- BuildOfC1
SPECIFICATION LaneSpec
INVARIANT OkMeansReviewedBuild
INVARIANT OkMeansReviewedFile
INVARIANT TwoEndpoints
CHECK_DEADLOCK FALSE
