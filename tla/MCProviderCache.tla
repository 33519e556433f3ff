---------------------------- MODULE MCProviderCache ----------------------------
(* Two processes of any of three releases: one whose allowlist has one of   *)
(* two environments, a later one without reviews whose archive names a CVE  *)
(* twice, and one whose reviewed environment the policy has come to reject. *)
EXTENDS ProviderCache, TLC

CONSTANTS p1, p2, r1, r2, r3, e1, e2

TheProcesses    == {p1, p2}
TheReleases     == {r1, r2, r3}
TheEnvironments == {e1, e2}
TheCompose == r1 :> (e1 :> "accepted" @@ e2 :> "accepted")
           @@ r2 :> (e1 :> "changed"  @@ e2 :> "absent")
           @@ r3 :> (e1 :> "rejected" @@ e2 :> "accepted")
TheAllow   == r1 :> {e1} @@ r2 :> {} @@ r3 :> {e1}
TheRepeats == {r2}
=============================================================================
