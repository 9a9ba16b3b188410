------------------------- MODULE MCAssetExtraction -------------------------
(* Three installations.  The second drops a file, adds one and keeps the   *)
(* version code, as when a developer installs a build again; the third     *)
(* changes the version code.                                               *)
EXTENDS AssetExtraction

CONSTANTS app, test, old

MCFile == {app, test, old}
MCAssets == <<{app, old}, {app, test}, {app, test}>>
MCVersionCode == <<1, 1, 2>>
=============================================================================
