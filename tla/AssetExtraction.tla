--------------------------- MODULE AssetExtraction ---------------------------
(***************************************************************************)
(* What MainApplication.createJSDir does at every start of the process:    *)
(* AssetExtractor copies the assets of the package to the files directory, *)
(* unless the thumb kept by DefaultExtractPolicy says that this package's  *)
(* are there already; then the thumb is saved.                             *)
(*                                                                         *)
(* files and thumb survive the process.  The process may be killed between *)
(* any two steps, in the middle of a file too; an update of the package    *)
(* kills it and keeps the data; a restored backup brings files back but    *)
(* no thumb, which is kept in the directory that is not backed up.  A loss *)
(* of power that undoes writes the process saw succeed is left out.        *)
(*                                                                         *)
(* An input-output error is noted by the code and otherwise ignored.       *)
(* `damaged` remembers that one hit the latest extraction, or the reading  *)
(* of the thumb that led to it.                                            *)
(***************************************************************************)
EXTENDS Naturals

CONSTANTS File,          \* names below files/app
          MaxInstalls,   \* bound: installations of the package
          Assets,        \* the assets of each installation
          VersionCode,   \* PackageInfo.versionCode of each installation
          Absent, Partial, NoThumb, Torn, NoFile, NotServing

Install == 1..MaxInstalls
Content == Install \union {Absent, Partial}

(* generateAssetsThumb: lastUpdateTime and versionCode.  An installation   *)
(* is identified by its lastUpdateTime, which grows.                       *)
ThumbOfCode(n) == <<1, VersionCode[n]>>   \* faulty: the version code only

Thumb(n) == <<n, VersionCode[n]>>

ASSUME AssetAssumption ==
  /\ MaxInstalls \in Nat \ {0}
  /\ Assets \in [Install -> SUBSET File]
  /\ VersionCode \in [Install -> Nat]
  /\ Absent \notin Install /\ Partial \notin Install /\ Absent # Partial
  /\ NoThumb # Torn /\ NoFile \notin File
  /\ \A n \in Install : Thumb(n) # NoThumb /\ Thumb(n) # Torn
  /\ NotServing \notin [File -> Content]

VARIABLES
  apk,       \* the installation in force
  files,     \* the content of each file below files/app
  thumb,     \* the assetsThumb file; NoThumb also stands for an empty one
  pc,        \* where the process is in createJSDir
  todo,      \* zip entries not extracted yet
  writing,   \* the file that is open for writing
  damaged    \* history: an error hit the latest extraction

vars == <<apk, files, thumb, pc, todo, writing, damaged>>

(* The directory exactly as an installation has it.                        *)
Package(n) == [f \in File |-> IF f \in Assets[n] THEN n ELSE Absent]

TypeOK ==
  /\ apk \in Install
  /\ files \in [File -> Content]
  /\ thumb \in {NoThumb, Torn} \union {Thumb(n) : n \in Install}
  /\ pc \in {"down", "start", "delete", "extract", "write", "save", "saving", "up"}
  /\ todo \subseteq Assets[apk]
  /\ writing \in File \union {NoFile}
  /\ damaged \in BOOLEAN

Init ==
  /\ apk = 1
  /\ files = [f \in File |-> Absent]
  /\ thumb = NoThumb
  /\ pc = "down"
  /\ todo = {} /\ writing = NoFile
  /\ damaged = FALSE

-----------------------------------------------------------------------------
Start ==
  /\ pc = "down"
  /\ pc' = "start"
  /\ UNCHANGED <<apk, files, thumb, todo, writing, damaged>>

(* Faulty variant: the thumb is saved before the assets are there.         *)
ShouldExtractThumbFirst ==
  /\ pc = "start"
  /\ IF thumb = Thumb(apk)
       THEN pc' = "save" /\ UNCHANGED <<thumb, damaged>>
       ELSE pc' = "delete" /\ thumb' = Thumb(apk) /\ damaged' = FALSE
  /\ UNCHANGED <<apk, files, todo, writing>>

(* shouldExtract: no thumb, a torn one and another installation's one all  *)
(* call for an extraction.  So does the right one that cannot be read; it  *)
(* stays where it is while the directory is deleted and made again.        *)
ShouldExtract ==
  /\ pc = "start"
  /\ \/ thumb = Thumb(apk) /\ pc' = "save" /\ UNCHANGED damaged
     \/ thumb # Thumb(apk) /\ pc' = "delete" /\ damaged' = FALSE
     \/ thumb = Thumb(apk) /\ pc' = "delete" /\ damaged' = TRUE
  /\ UNCHANGED <<apk, files, thumb, todo, writing>>

(* delete: the old files one by one, in no particular order.               *)
Delete ==
  /\ pc = "delete"
  /\ \E f \in File :
       /\ files[f] # Absent
       /\ files' = [files EXCEPT ![f] = Absent]
  /\ UNCHANGED <<apk, thumb, pc, todo, writing, damaged>>

(* Faulty variant: the previous assets are not cleaned up.                 *)
DeleteNothing ==
  /\ pc = "delete"
  /\ pc' = "extract"
  /\ todo' = Assets[apk]
  /\ UNCHANGED <<apk, files, thumb, writing, damaged>>

DeleteEnd ==
  /\ pc = "delete"
  /\ \A f \in File : files[f] = Absent
  /\ pc' = "extract"
  /\ todo' = Assets[apk]
  /\ UNCHANGED <<apk, files, thumb, writing, damaged>>

(* A file that cannot be deleted ends the deletion, not the extraction.    *)
DeleteFails ==
  /\ pc = "delete"
  /\ \E f \in File : files[f] # Absent
  /\ pc' = "extract"
  /\ todo' = Assets[apk]
  /\ damaged' = TRUE
  /\ UNCHANGED <<apk, files, thumb, writing>>

(* The native loop over the zip entries.  forceOverwrite() is true, so     *)
(* every entry is written whatever the file times say.  fopen truncates;   *)
(* an entry that cannot be opened is passed over.                          *)
OpenEntry ==
  /\ pc = "extract"
  /\ \E f \in todo :
       \/ /\ files' = [files EXCEPT ![f] = Partial]
          /\ writing' = f
          /\ pc' = "write"
          /\ UNCHANGED <<todo, damaged>>
       \/ /\ damaged' = TRUE
          /\ todo' = todo \ {f}
          /\ UNCHANGED <<files, writing, pc>>
  /\ UNCHANGED <<apk, thumb>>

(* Faulty variant: the loop does not move on from a written entry.         *)
WriteEntryAgain ==
  /\ pc = "write"
  /\ \/ files' = [files EXCEPT ![writing] = apk] /\ UNCHANGED damaged
     \/ damaged' = TRUE /\ UNCHANGED files
  /\ pc' = "extract"
  /\ writing' = NoFile
  /\ UNCHANGED <<apk, thumb, todo>>

(* The rest of the entry.  A short fwrite goes unnoticed.                  *)
WriteEntry ==
  /\ pc = "write"
  /\ \/ files' = [files EXCEPT ![writing] = apk] /\ UNCHANGED damaged
     \/ damaged' = TRUE /\ UNCHANGED files
  /\ todo' = todo \ {writing}
  /\ pc' = "extract"
  /\ writing' = NoFile
  /\ UNCHANGED <<apk, thumb>>

ExtractEnd ==
  /\ pc = "extract" /\ todo = {}
  /\ pc' = "save"
  /\ UNCHANGED <<apk, files, thumb, todo, writing, damaged>>

(* saveNewAssetsThumb, extracted or not: the file is truncated, unless it  *)
(* cannot be opened, ...                                                   *)
SaveNewAssetsThumb ==
  /\ pc = "save"
  /\ \/ thumb' = NoThumb /\ pc' = "saving"
     \/ pc' = "up" /\ UNCHANGED thumb
  /\ UNCHANGED <<apk, files, todo, writing, damaged>>

(* Faulty variant: the version code is not written.                        *)
WriteUpdateTime ==
  /\ pc = "saving"
  /\ thumb' \in {<<apk>>, NoThumb, Torn}
  /\ pc' = "up"
  /\ UNCHANGED <<apk, files, todo, writing, damaged>>

(* ... and then written, wholly unless an error intervenes.                *)
WriteThumb ==
  /\ pc = "saving"
  /\ thumb' \in {Thumb(apk), NoThumb, Torn}
  /\ pc' = "up"
  /\ UNCHANGED <<apk, files, todo, writing, damaged>>

-----------------------------------------------------------------------------
(* The environment.                                                        *)

(* The thumb of a process killed while saving may be written partly.       *)
Killed ==
  /\ pc' = "down"
  /\ todo' = {} /\ writing' = NoFile
  /\ thumb' \in IF pc = "saving" THEN {thumb, Torn} ELSE {thumb}

Crash ==
  /\ pc # "down"
  /\ Killed
  /\ UNCHANGED <<apk, files, damaged>>

Update ==
  /\ apk < MaxInstalls
  /\ apk' = apk + 1
  /\ Killed
  /\ UNCHANGED <<files, damaged>>

(* The backup may be of any earlier installation, on any device.           *)
RestoreBackup ==
  /\ pc = "down"
  /\ files' \in [File -> Content]
  /\ thumb' = NoThumb
  /\ UNCHANGED <<apk, pc, todo, writing, damaged>>

-----------------------------------------------------------------------------
CreateJSDir ==
  \/ ShouldExtract
  \/ Delete \/ DeleteEnd \/ DeleteFails
  \/ OpenEntry \/ WriteEntry \/ ExtractEnd
  \/ SaveNewAssetsThumb \/ WriteThumb

Next == Start \/ CreateJSDir \/ Crash \/ Update \/ RestoreBackup

Spec == Init /\ [][Next]_vars

(* The process goes on with createJSDir while it is not killed.            *)
FairSpec == Spec /\ WF_vars(CreateJSDir)

-----------------------------------------------------------------------------
(* Properties.                                                             *)

(* When createJSDir has returned, the files are those of the installed     *)
(* package, all of them whole and none left over from another: whatever    *)
(* was killed, updated or restored before, input-output errors apart.      *)
UpIsComplete == pc = "up" /\ ~damaged => files = Package(apk)

(* Recovery relies on the thumb alone: found at a start, the thumb of the  *)
(* installed package means that the extraction before it came to its end.  *)
ThumbMeansComplete ==
  pc \in {"down", "start"} /\ thumb = Thumb(apk) /\ ~damaged
    => files = Package(apk)

(* createJSDir comes to its end.                                           *)
StartEnds == pc = "start" ~> pc \in {"up", "down"}

(* The extraction implements a directory that is swapped as a whole, as    *)
(* far as a process that met no error can tell.                            *)
Served == IF pc = "up" /\ ~damaged THEN files ELSE NotServing

After(m, n) == m > n

Store == INSTANCE PackageStore
  WITH FirstInstall <- 1, Later <- After, installed <- apk, served <- Served
StoreSpec == Store!Spec
=============================================================================
