----------------------- MODULE AssetExtractionProofs -----------------------
(* Proofs about AssetExtraction, for every set of files, every number of   *)
(* installations and whatever assets each of them has.                     *)
EXTENDS AssetExtraction, TLAPS

USE AssetAssumption DEF AssetAssumption

-----------------------------------------------------------------------------
(* The inductive invariant.                                                *)

(* A thumb is never that of an installation yet to come, and an extraction *)
(* that met no error runs only without the thumb of its own installation:  *)
(* so whenever it is killed, the next start extracts again.                *)
ThumbInv ==
  /\ \A n \in Install : thumb = Thumb(n) => n <= apk
  /\ pc \in {"delete", "extract", "write"} /\ ~damaged => thumb # Thumb(apk)

(* How far an extraction that met no error has come.                       *)
ExtractInv ==
  /\ pc = "extract" /\ ~damaged =>
       files = [f \in File |-> IF f \in Assets[apk] \ todo THEN apk ELSE Absent]
  /\ pc = "write" =>
       /\ writing \in todo
       /\ ~damaged =>
            files = [f \in File |-> IF f = writing THEN Partial
                                    ELSE IF f \in Assets[apk] \ todo THEN apk
                                    ELSE Absent]

CompleteInv ==
  /\ pc \in {"save", "saving", "up"} /\ ~damaged => files = Package(apk)
  /\ pc \in {"down", "start"} /\ thumb = Thumb(apk) /\ ~damaged
       => files = Package(apk)

IInv == TypeOK /\ ThumbInv /\ ExtractInv /\ CompleteInv

-----------------------------------------------------------------------------
(* Two installations have different thumbs.                                *)
LEMMA ThumbInjective ==
  ASSUME NEW m \in Install, NEW n \in Install, Thumb(m) = Thumb(n)
  PROVE  m = n
BY DEF Thumb

(* A fresh installation satisfies the inductive invariant.                 *)
LEMMA InitIInv == Init => IInv
<1>. SUFFICES ASSUME Init PROVE IInv
  OBVIOUS
<1>1. 1 \in Install
  BY DEF Install
<1>2. files \in [File -> Content]
  BY DEF Init, Content
<1>3. TypeOK
  BY <1>1, <1>2 DEF Init, TypeOK
<1>4. \A n \in Install : thumb # Thumb(n)
  BY DEF Init
<1>. QED BY <1>1, <1>3, <1>4 DEF Init, IInv, ThumbInv, ExtractInv, CompleteInv

(* Every step keeps the types.                                             *)
LEMMA TypeStep == TypeOK /\ Next => TypeOK'
<1>. SUFFICES ASSUME TypeOK, Next PROVE TypeOK'
  OBVIOUS
<1>. USE DEF TypeOK
<1>1. CASE Start
  BY <1>1 DEF Start
<1>2. CASE ShouldExtract
  BY <1>2 DEF ShouldExtract
<1>3. CASE Delete
  BY <1>3 DEF Delete, Content
<1>4. CASE DeleteEnd
  BY <1>4 DEF DeleteEnd
<1>5. CASE DeleteFails
  BY <1>5 DEF DeleteFails
<1>6. CASE OpenEntry
  <2>1. \A f \in todo : f \in File
    OBVIOUS
  <2>. QED BY <1>6, <2>1 DEF OpenEntry, Content
<1>7. CASE WriteEntry
  <2>1. apk \in Content
    BY DEF Content
  <2>2. files' \in [File -> Content]
    BY <1>7, <2>1 DEF WriteEntry
  <2>. QED BY <1>7, <2>2 DEF WriteEntry
<1>8. CASE ExtractEnd
  BY <1>8 DEF ExtractEnd
<1>9. CASE SaveNewAssetsThumb
  BY <1>9 DEF SaveNewAssetsThumb
<1>10. CASE WriteThumb
  BY <1>10 DEF WriteThumb
<1>11. CASE Crash
  BY <1>11 DEF Crash, Killed
<1>12. CASE Update
  BY <1>12 DEF Update, Killed, Install
<1>13. CASE RestoreBackup
  BY <1>13 DEF RestoreBackup
<1>. QED BY <1>1, <1>2, <1>3, <1>4, <1>5, <1>6, <1>7, <1>8, <1>9, <1>10, <1>11,
            <1>12, <1>13 DEF Next, CreateJSDir
-----------------------------------------------------------------------------
(* Each step of createJSDir and of its environment keeps the other parts.  *)

(* No step brings a thumb that runs ahead of the files.                    *)
LEMMA ThumbStep == IInv /\ Next => ThumbInv'
<1>. SUFFICES ASSUME IInv, Next PROVE ThumbInv'
  OBVIOUS
<1>. USE DEF IInv, ThumbInv
<1>0. apk \in Nat /\ \A n \in Install : n \in Nat
  BY DEF TypeOK, Install
<1>1. CASE Start
  BY <1>1 DEF Start
<1>2. CASE ShouldExtract
  BY <1>2 DEF ShouldExtract
<1>3. CASE Delete
  BY <1>3 DEF Delete
<1>4. CASE DeleteEnd
  BY <1>4 DEF DeleteEnd
<1>5. CASE DeleteFails
  BY <1>5 DEF DeleteFails
<1>6. CASE OpenEntry
  BY <1>6 DEF OpenEntry
<1>7. CASE WriteEntry
  BY <1>7 DEF WriteEntry
<1>8. CASE ExtractEnd
  BY <1>8 DEF ExtractEnd
<1>9. CASE SaveNewAssetsThumb
  BY <1>9 DEF SaveNewAssetsThumb
<1>10. CASE WriteThumb
  <2>1. \A n \in Install : Thumb(apk) = Thumb(n) => n = apk
    BY ThumbInjective DEF TypeOK
  <2>. QED BY <1>0, <1>10, <2>1 DEF WriteThumb
<1>11. CASE Crash
  BY <1>11 DEF Crash, Killed
<1>12. CASE Update
  BY <1>0, <1>12 DEF Update, Killed
<1>13. CASE RestoreBackup
  BY <1>13 DEF RestoreBackup
<1>. QED BY <1>1, <1>2, <1>3, <1>4, <1>5, <1>6, <1>7, <1>8, <1>9, <1>10, <1>11,
            <1>12, <1>13 DEF Next, CreateJSDir

(* The extraction adds one whole entry at a time.                          *)
LEMMA ExtractStep == IInv /\ Next => ExtractInv'
<1>. SUFFICES ASSUME IInv, Next PROVE ExtractInv'
  OBVIOUS
<1>. USE DEF IInv, ExtractInv
<1>0. files \in [File -> Content] /\ todo \subseteq Assets[apk]
  BY DEF TypeOK
<1>1. CASE Start
  BY <1>1 DEF Start
<1>2. CASE ShouldExtract
  BY <1>2 DEF ShouldExtract
<1>3. CASE Delete
  BY <1>3 DEF Delete
<1>4. CASE DeleteEnd
  BY <1>0, <1>4 DEF DeleteEnd
<1>5. CASE DeleteFails
  BY <1>5 DEF DeleteFails
<1>6. CASE OpenEntry
  <2>1. CASE damaged'
    BY <1>6, <2>1 DEF OpenEntry
  <2>2. CASE ~damaged'
    <3>1. PICK f \in todo : /\ files' = [files EXCEPT ![f] = Partial]
                            /\ writing' = f
                            /\ pc' = "write"
                            /\ todo' = todo /\ damaged' = damaged
      BY <1>6, <2>2 DEF OpenEntry
    <3>. QED BY <1>0, <1>6, <2>2, <3>1 DEF OpenEntry
  <2>. QED BY <2>1, <2>2 DEF OpenEntry
<1>7. CASE WriteEntry
  <2>1. CASE damaged'
    BY <1>7, <2>1 DEF WriteEntry
  <2>2. CASE ~damaged'
    BY <1>0, <1>7, <2>2 DEF WriteEntry
  <2>. QED BY <2>1, <2>2
<1>8. CASE ExtractEnd
  BY <1>8 DEF ExtractEnd
<1>9. CASE SaveNewAssetsThumb
  BY <1>9 DEF SaveNewAssetsThumb
<1>10. CASE WriteThumb
  BY <1>10 DEF WriteThumb
<1>11. CASE Crash
  BY <1>11 DEF Crash, Killed
<1>12. CASE Update
  BY <1>12 DEF Update, Killed
<1>13. CASE RestoreBackup
  BY <1>13 DEF RestoreBackup
<1>. QED BY <1>1, <1>2, <1>3, <1>4, <1>5, <1>6, <1>7, <1>8, <1>9, <1>10, <1>11,
            <1>12, <1>13 DEF Next, CreateJSDir

(* The thumb is saved, and the process serves, only complete files.        *)
LEMMA CompleteStep == IInv /\ Next => CompleteInv'
<1>. SUFFICES ASSUME IInv, Next PROVE CompleteInv'
  OBVIOUS
<1>. USE DEF IInv, CompleteInv, Package
<1>1. CASE Start
  BY <1>1 DEF Start
<1>2. CASE ShouldExtract
  BY <1>2 DEF ShouldExtract
<1>3. CASE Delete
  BY <1>3 DEF Delete
<1>4. CASE DeleteEnd
  BY <1>4 DEF DeleteEnd
<1>5. CASE DeleteFails
  BY <1>5 DEF DeleteFails
<1>6. CASE OpenEntry
  BY <1>6 DEF OpenEntry
<1>7. CASE WriteEntry
  BY <1>7 DEF WriteEntry
<1>8. CASE ExtractEnd
  BY <1>8 DEF ExtractEnd, ExtractInv
<1>9. CASE SaveNewAssetsThumb
  BY <1>9 DEF SaveNewAssetsThumb
<1>10. CASE WriteThumb
  BY <1>10 DEF WriteThumb
<1>11. CASE Crash
  <2>1. pc \in {"start", "delete", "extract", "write", "save", "saving", "up"}
    BY <1>11 DEF Crash, TypeOK
  <2>2. pc = "saving" => files = Package(apk) \/ damaged
    OBVIOUS
  <2>3. pc # "saving" => thumb' = thumb
    BY <1>11 DEF Crash, Killed
  <2>. QED BY <1>11, <2>1, <2>2, <2>3 DEF Crash, Killed, ThumbInv
<1>12. CASE Update
  <2>1. apk \in Nat /\ apk + 1 \in Install /\ apk' = apk + 1
    BY <1>12 DEF Update, TypeOK, Install
  <2>2. thumb # Thumb(apk + 1)
    BY <2>1 DEF ThumbInv
  <2>3. thumb' # Thumb(apk + 1)
    BY <1>12, <2>1, <2>2 DEF Update, Killed
  <2>. QED BY <1>12, <2>1, <2>3 DEF Update, Killed, Thumb
<1>13. CASE RestoreBackup
  <2>1. thumb' # Thumb(apk)
    BY <1>13 DEF RestoreBackup, TypeOK
  <2>. QED BY <1>13, <2>1 DEF RestoreBackup, Thumb
<1>. QED BY <1>1, <1>2, <1>3, <1>4, <1>5, <1>6, <1>7, <1>8, <1>9, <1>10, <1>11,
            <1>12, <1>13 DEF Next, CreateJSDir

(* The inductive invariant holds.                                          *)
THEOREM Inductive == Spec => []IInv
<1>1. IInv /\ [Next]_vars => IInv'
  <2>1. CASE Next
    BY <2>1, TypeStep, ThumbStep, ExtractStep, CompleteStep DEF IInv
  <2>2. CASE UNCHANGED vars
    BY <2>2 DEF vars, IInv, TypeOK, ThumbInv, ExtractInv, CompleteInv, Package,
                Thumb
  <2>. QED BY <2>1, <2>2
<1>. QED BY InitIInv, <1>1, PTL DEF Spec

-----------------------------------------------------------------------------
(* The properties.                                                         *)

(* Type correctness of the persistent files and of createJSDir's state.    *)
THEOREM TypeCorrect == Spec => []TypeOK
<1>1. IInv => TypeOK
  BY DEF IInv
<1>. QED BY Inductive, <1>1, PTL

(* When createJSDir has returned the files are the installed package's.    *)
THEOREM ServesPackage == Spec => []UpIsComplete
<1>1. IInv => UpIsComplete
  BY DEF IInv, CompleteInv, UpIsComplete
<1>. QED BY Inductive, <1>1, PTL

(* The thumb found at a start tells a finished extraction from any other.  *)
THEOREM ThumbIsTrustworthy == Spec => []ThumbMeansComplete
<1>1. IInv => ThumbMeansComplete
  BY DEF IInv, CompleteInv, ThumbMeansComplete
<1>. QED BY Inductive, <1>1, PTL

(* No scripts are served before the first start.                           *)
LEMMA StoreInit == Init => Store!Init
BY DEF Init, Store!Init, Served

(* Every step is one of the store, or changes nothing it can see.          *)
LEMMA StoreStep == IInv /\ [Next]_vars => [Store!Next]_(Store!vars)
<1>. SUFFICES ASSUME IInv, [Next]_vars PROVE [Store!Next]_(Store!vars)
  OBVIOUS
<1>. USE DEF Store!Next, Store!vars, Served
<1>1. CASE Update
  <2>1. apk' \in Install /\ apk' > apk /\ pc' = "down"
    BY <1>1 DEF Update, Killed, IInv, TypeOK, Install
  <2>. QED BY <2>1 DEF Store!Update, After
<1>2. CASE Crash
  BY <1>2 DEF Crash, Killed, Store!Stop
<1>3. CASE SaveNewAssetsThumb \/ WriteThumb
  <2>1. pc # "up" /\ UNCHANGED <<apk, files, damaged>>
    BY <1>3 DEF SaveNewAssetsThumb, WriteThumb
  <2>2. ~damaged => files = Package(apk)
    BY <1>3 DEF SaveNewAssetsThumb, WriteThumb, IInv, CompleteInv
  <2>. QED BY <2>1, <2>2 DEF Store!Serve
<1>4. CASE \/ Start \/ ShouldExtract \/ Delete \/ DeleteEnd \/ DeleteFails
           \/ OpenEntry \/ WriteEntry \/ ExtractEnd \/ RestoreBackup
  <2>1. pc # "up" /\ pc' # "up" /\ apk' = apk
    BY <1>4 DEF Start, ShouldExtract, Delete, DeleteEnd, DeleteFails, OpenEntry,
                WriteEntry, ExtractEnd, RestoreBackup
  <2>. QED BY <2>1
<1>5. CASE UNCHANGED vars
  BY <1>5 DEF vars
<1>. QED BY <1>1, <1>2, <1>3, <1>4, <1>5 DEF Next, CreateJSDir

(* For a process that met no error, the extraction implements a store      *)
(* whose directory is swapped as a whole.                                  *)
THEOREM ImplementsStore == Spec => StoreSpec
<1>. QED BY Inductive, StoreInit, StoreStep, PTL DEF Spec, StoreSpec, Store!Spec
=============================================================================
