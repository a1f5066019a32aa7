---------------------------- MODULE MCGeoAssets ----------------------------
(***************************************************************************)
(* Two geoip assets and one geosite asset, two releases, two calls at once. *)
(***************************************************************************)
EXTENDS GeoAssets, TLC

Symmetry == Permutations(Tasks)
=============================================================================
