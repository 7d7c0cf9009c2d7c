------------------------------ MODULE MCRelease -------------------------------
(***************************************************************************)
(* A small instance of ReleaseLane: two commits, two images, a manifest    *)
(* that names one commit with any program, providers that are listed twice *)
(* in different spellings.                                                 *)
(***************************************************************************)
EXTENDS ReleaseLane

CONSTANTS C1, C2, A, B, L, Pinned, Floating

TwoCommits == {C1, C2}
TwoArches == {"v0", "v3"}
TwoImages == {Pinned, Floating}

Host(name, kind) == [name |-> name, kind |-> kind]
Url(host, path, slashes) ==
  [https |-> TRUE, credentials |-> FALSE, query |-> FALSE,
   host |-> host, path |-> path, slashes |-> slashes]
PublicA == Host(A, "public")
PublicB == Host(B, "public")

BuildOfC1 == <<C1, "v0", Pinned>>

Manifest(h, secondary) ==
  [commitHash |-> C1, arch |-> "v0", expectedExecutableHash |-> h,
   rpcUrl |-> Url(PublicA, "", 0), secondaryRpcUrls |-> secondary]

\* Any program in the place of C1's, and lists of providers that are none.
AnyManifest ==
  {Manifest(h, {Url(PublicA, "", 1), Url(PublicB, "", 1)}) :
     h \in {BuildOfC1, <<C1, "v3", Pinned>>, <<C2, "v0", Pinned>>,
            <<Edited, "v0", Pinned>>}}
  \cup
  {Manifest(BuildOfC1, {u}) : u \in {Url(PublicA, "", 1), Url(Host(L, "local"), "", 0)}}

OneOverride == {Url(PublicA, "", 1)}

==============================================================================
