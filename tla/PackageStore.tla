---------------------------- MODULE PackageStore ----------------------------
(***************************************************************************)
(* What the extraction of assets promises: while the application runs, the *)
(* directory it loads scripts from holds exactly the assets of the package *)
(* that is installed.  How the directory gets there, and what crashes,     *)
(* updates and restored backups do to it meanwhile, is not visible here.   *)
(* AssetExtraction refines this specification.                             *)
(***************************************************************************)
CONSTANTS Install,      \* installations of the package, in time order
          FirstInstall,
          Later(_, _),  \* Later(m, n): m is an installation after n
          Package(_),   \* the directory an installation calls for
          NotServing    \* no scripts are loaded

VARIABLES installed, served

vars == <<installed, served>>

Init == installed = FirstInstall /\ served = NotServing

Serve ==
  /\ served = NotServing
  /\ served' = Package(installed)
  /\ UNCHANGED installed

Stop ==
  /\ served' = NotServing
  /\ UNCHANGED installed

Update ==
  /\ \E n \in Install : Later(n, installed) /\ installed' = n
  /\ served' = NotServing

Next == Serve \/ Stop \/ Update

Spec == Init /\ [][Next]_vars
=============================================================================
