---------------------------- MODULE Roster_proofs ----------------------------
(***************************************************************************)
(* Machine-checked proofs about Roster: whom a synchronisation may forget, *)
(* for any people, lists and photos.                                       *)
(***************************************************************************)
EXTENDS Roster, FiniteSetTheorems, TLAPS

Rows == [rows : BOOLEAN, headphoto : Photos, user : BOOLEAN]
Registrations == [who : People \cup {None}, ps : PhotoOrNone, step : {"none", "add", "insert"}]

(* The photos; nobody's rows and the idle registration are of their types. *)
LEMMA PhotoFacts ==
  /\ 0 \in PhotoOrNone /\ 0 \in Photos /\ Card \in Photos /\ PhotoOrNone \subseteq Photos
  /\ \A p \in People : Lengths[p] \subseteq PhotoOrNone
  /\ NoKeeper \in Rows /\ Idle \in Registrations
<1>1. 0 \in PhotoOrNone /\ \A p \in People : Lengths[p] \subseteq PhotoOrNone
  BY Zenon DEF PhotoOrNone
<1>2. 0 \in Photos /\ Card \in Photos /\ PhotoOrNone \subseteq Photos
  BY <1>1 DEF Photos
<1> QED
  BY <1>1, <1>2 DEF NoKeeper, Rows, Idle, Registrations

(* A row more.                                                             *)
LEMMA InsertedType ==
  ASSUME TypeOK, NEW p \in People, NEW ps \in Photos, NEW knows \in BOOLEAN
  PROVE  Inserted(p, ps, knows) \in [People -> Rows]
<1>1. keepers \in [People -> Rows]
  BY DEF TypeOK, Rows
<1>2. keepers[p].headphoto \in Photos /\ keepers[p].user \in BOOLEAN
  BY <1>1 DEF Rows
<1>3. [rows |-> TRUE, headphoto |-> IF keepers[p].rows THEN keepers[p].headphoto ELSE ps,
       user |-> keepers[p].user \/ knows] \in Rows
  BY <1>2 DEF Rows
<1> QED
  BY <1>1, <1>3 DEF Inserted

LEMMA CardinalityOf ==
  ASSUME NEW S \in SUBSET People
  PROVE  IsFiniteSet(S) /\ Cardinality(S) \in 0..Cardinality(People)
<1>1. IsFiniteSet(S) /\ Cardinality(S) <= Cardinality(People)
  BY RosterAssumption, FS_Subset
<1>2. Cardinality(S) \in Nat /\ Cardinality(People) \in Nat
  BY <1>1, RosterAssumption, FS_CardinalityType
<1> QED
  BY <1>1, <1>2

(* One answer fewer is awaited.                                            *)
LEMMA OneAnswered ==
  ASSUME TypeOK, NEW p \in asked
  PROVE  /\ count + 1 \in 0..size
         /\ asked \ {p} # {} => count + 1 + Cardinality(asked \ {p}) = size
<1>1. IsFiniteSet(asked) /\ Cardinality(asked) \in Nat
  BY CardinalityOf, FS_CardinalityType DEF TypeOK
<1>2. Cardinality(asked \ {p}) = Cardinality(asked) - 1 /\ IsFiniteSet(asked \ {p})
  BY <1>1, FS_RemoveElement
<1>3. Cardinality(asked \ {p}) \in Nat
  BY <1>2, FS_CardinalityType
<1>4. size \in Nat /\ count \in Nat /\ count + Cardinality(asked) = size
  <2>1. Cardinality(People) \in Nat
    BY RosterAssumption, FS_CardinalityType
  <2> QED
    BY <2>1 DEF TypeOK
<1> QED
  BY <1>1, <1>2, <1>3, <1>4

LEMMA StoredType ==
  ASSUME TypeOK, chain # 0, NEW list \in Answers
  PROVE  Stored(list) \in TypeOrNone
<1>1. list \subseteq OnList
  BY Zenon DEF Answers
<1>2. ASSUME NEW p \in People PROVE Stored(list)[p] \in Types[p] \cup {0} /\ Stored(list)[p] \in 0..3
  <2>1. employers[p] \in Types[p] \cup {0} /\ employers[p] \in 0..3
    BY DEF TypeOK, TypeOrNone
  <2>2. CASE p \in list
    <3>1. roster[p] = chain /\ roster[p] \in Types[p] \cup {0}
      BY <1>1, <2>2 DEF OnList, TypeOK, TypeOrNone
    <3> QED
      BY <2>2, <3>1 DEF Stored, TypeOK
  <2>3. CASE p \notin list
    BY <2>1, <2>3 DEF Stored
  <2> QED
    BY <2>2, <2>3
<1>3. Stored(list) \in [People -> 0..3]
  BY <1>2 DEF Stored
<1> QED
  BY <1>2, <1>3 DEF TypeOrNone

(* The counters, the tables and the pages one action at a time.            *)
LEMMA TypeStep ==
  ASSUME TypeOK, Registering, [Next]_vars
  PROVE  TypeOK'
<1> USE DEF server, faces, registering, pics, faceSync, fate, TypeOK
<1>a. keepers \in [People -> Rows] /\ registration \in Registrations
  BY DEF Rows, Registrations
<1>1. CASE syncData
  BY <1>1 DEF syncData
<1>2. CASE ListArrives
  <2>1. employers' \in TypeOrNone /\ listed' \subseteq People
    <3> PICK list \in Answers : employers' = Stored(list) /\ listed' = listed \cup list
      BY <1>2 DEF ListArrives
    <3>1. list \subseteq People
      BY Zenon DEF Answers, OnList
    <3> QED
      BY <1>2, <3>1, StoredType DEF ListArrives
  <2> QED
    BY <1>2, <2>1 DEF ListArrives
<1>3. CASE LastList
  <2> PICK list \in Answers :
       /\ employers' = Stored(list)
       /\ listed' = listed \cup list
       /\ Cleanup({p \in People : Stored(list)[p] = 0 /\ keepers[p].rows})
       /\ getPic({p \in People : Stored(list)[p] # 0})
    BY <1>3 DEF LastList
  <2> DEFINE people == {p \in People : Stored(list)[p] # 0}
  <2>1. list \subseteq People
    BY Zenon DEF Answers, OnList
  <2>2. employers' \in TypeOrNone
    BY <1>3, StoredType DEF LastList
  <2>3. keepers' \in [People -> Rows] /\ features' \subseteq People
    BY <1>a, PhotoFacts DEF Cleanup
  <2>b. broken' \subseteq People
    <3>1. {p \in People : Stored(list)[p] = 0 /\ keepers[p].rows} \subseteq People
      OBVIOUS
    <3> QED
      BY <3>1 DEF Cleanup, Break
  <2>4. /\ asked' \subseteq People /\ size' \in 0..Cardinality(People)
        /\ count' \in 0..size' /\ (asked' # {} => count' + Cardinality(asked') = size')
    <3>1. IsFiniteSet(people) /\ Cardinality(people) \in 0..Cardinality(People)
      BY CardinalityOf
    <3>2. Cardinality(people) \in Nat
      BY <3>1, FS_CardinalityType
    <3> QED
      BY <3>1, <3>2 DEF getPic
  <2> QED
    BY <1>3, <2>1, <2>2, <2>3, <2>b, <2>4 DEF LastList, Rows
<1>4. CASE ListFails
  BY <1>4 DEF ListFails
<1>5. CASE FacesArrive
  <2> PICK list \in Lists : \E stored \in SUBSET list :
       /\ reliable => stored = list
       /\ keepers' = [p \in People |->
                        IF p \in list THEN Inserted(p, 0, FALSE)[p] ELSE keepers[p]]
       /\ features' = features \cup stored
       /\ Break(list)
    BY <1>5, Zenon DEF FacesArrive
  <2> PICK stored \in SUBSET list :
       /\ reliable => stored = list
       /\ keepers' = [p \in People |->
                        IF p \in list THEN Inserted(p, 0, FALSE)[p] ELSE keepers[p]]
       /\ features' = features \cup stored
       /\ Break(list)
    OBVIOUS
  <2>1. ASSUME NEW p \in People PROVE Inserted(p, 0, FALSE)[p] \in Rows
    <3>1. Inserted(p, 0, FALSE) \in [People -> Rows]
      BY InsertedType, PhotoFacts
    <3> QED
      BY <3>1
  <2>2. keepers' \in [People -> Rows]
    BY <1>a, <2>1
  <2>3. list \subseteq People
    BY RosterAssumption, Zenon DEF Lists
  <2>4. features' \subseteq People /\ broken' \subseteq People
    BY <2>3 DEF Break
  <2> QED
    BY <1>5, <2>2, <2>4 DEF FacesArrive, Rows
<1>6. CASE \E p \in People : PicArrives(p)
  <2> PICK p \in People : PicArrives(p)
    BY <1>6
  <2>1. p \in asked /\ reload' \in BOOLEAN
    BY Zenon DEF PicArrives, Answered, ReadyAfter
  <2> QED
    BY <2>1, OneAnswered DEF PicArrives, Answered
<1>7. CASE \E p \in People : StartRegistration(p)
  <2> PICK p \in People : StartRegistration(p)
    BY <1>7
  <2>1. photo[p] \in PhotoOrNone /\ p \in asked
    BY DEF StartRegistration
  <2> QED
    BY <2>1, OneAnswered DEF StartRegistration
<1>8. CASE UserAdd
  BY <1>8 DEF UserAdd, Registering, Idle, Break
<1>b. CASE UserAddFails
  <2>1. registration.who \in People /\ reload' \in BOOLEAN
    <3>1. reload' \in BOOLEAN
      BY <1>b, Zenon DEF UserAddFails, ReadyAfter
    <3> QED
      BY <1>b, <3>1 DEF UserAddFails, Registering, Idle
  <2>2. registration' \in Registrations /\ broken' \subseteq People
    BY <1>b, <2>1, PhotoFacts DEF UserAddFails, Break
  <2> QED
    BY <1>b, <2>1, <2>2 DEF UserAddFails, Registrations
<1>9. CASE InsertKeeper
  <2>1. registration.who \in People /\ registration.ps \in Photos
    BY <1>9, <1>a, PhotoFacts DEF InsertKeeper, Registering, Idle, Registrations
  <2>2. keepers' \in [People -> Rows]
    BY <1>9, <2>1, InsertedType DEF InsertKeeper
  <2>3. reload' \in BOOLEAN
    BY <1>9, Zenon DEF InsertKeeper, ReadyAfter
  <2>4. registration' \in Registrations
    BY <1>9, PhotoFacts DEF InsertKeeper
  <2> QED
    BY <1>9, <2>2, <2>3, <2>4 DEF InsertKeeper, Rows, Registrations
<1>10. CASE FacesFail
  BY <1>10 DEF FacesFail
<1>11. CASE loadFacesFromDB
  BY <1>11 DEF loadFacesFromDB
<1>12. ASSUME Visit PROVE reliable' \in BOOLEAN /\ events' \in 0..MaxEvents
  BY <1>12, RosterAssumption DEF Visit
<1>13. ASSUME NEW p \in People, Asked(p) PROVE employers' \in TypeOrNone
  BY <1>13 DEF Asked, TypeOrNone
<1>14. CASE onResume
  BY <1>14, <1>12 DEF onResume
<1>15. CASE \E p \in People : queryPersion(p)
  BY <1>15, <1>12, <1>13 DEF queryPersion
<1>16. CASE \E p \in People : FaceReg(p)
  BY <1>16, <1>12, <1>13 DEF FaceReg
<1>17. CASE register
  <2>1. page \in People
    BY <1>17 DEF register
  <2>2. features' \subseteq People /\ broken' \subseteq People
    BY <1>17, <2>1 DEF register, Break
  <2>3. page' \in People \cup {None} /\ added' \in BOOLEAN /\ (added' => page' # None)
    <3>1. CASE added' = TRUE /\ page' = page
      BY <1>17, <3>1 DEF register
    <3>2. CASE page' = None /\ added' = added
      BY <1>17, <3>2 DEF register
    <3> QED
      BY <1>17, <3>1, <3>2 DEF register
  <2> QED
    BY <1>17, <2>1, <2>2, <2>3 DEF register
<1>c. CASE registerInserts
  <2>1. page \in People
    BY <1>c DEF registerInserts
  <2>2. keepers' \in [People -> Rows]
    BY <1>c, <2>1, InsertedType, PhotoFacts DEF registerInserts
  <2> QED
    BY <1>c, <2>2 DEF registerInserts, Rows
<1>18. CASE ServerChanges
  <2> PICK p \in People :
       \/ \E t \in Types[p] \cup {0} : roster' = [roster EXCEPT ![p] = t] /\ UNCHANGED photo
       \/ \E ps \in Lengths[p] \cup {0} : photo' = [photo EXCEPT ![p] = ps] /\ UNCHANGED roster
    BY <1>18 DEF ServerChanges
  <2>1. roster' \in TypeOrNone
    <3>1. Types[p] \cup {0} \subseteq 0..3
      BY RosterAssumption
    <3> QED
      BY <3>1 DEF TypeOrNone
  <2>2. photo' \in [People -> PhotoOrNone]
    BY PhotoFacts
  <2>3. events' \in 0..MaxEvents
    BY <1>18, RosterAssumption DEF ServerChanges
  <2> QED
    BY <1>18, <2>1, <2>2, <2>3 DEF ServerChanges
<1>19. CASE ServerRecovers
  BY <1>19 DEF ServerRecovers
<1>20. CASE CrashAndStart
  <2>1. registration' \in Registrations
    BY <1>20, PhotoFacts DEF CrashAndStart
  <2>2. size' \in 0..Cardinality(People) /\ events' \in 0..MaxEvents
    BY <1>20, RosterAssumption, FS_CardinalityType DEF CrashAndStart
  <2>3. /\ roster' \in TypeOrNone /\ photo' \in [People -> PhotoOrNone]
        /\ employers' \in TypeOrNone /\ keepers' \in [People -> Rows]
        /\ features' \subseteq People /\ loaded' \subseteq People
        /\ chain' \in 0..3 /\ listed' \subseteq People
    BY <1>20, <1>a DEF CrashAndStart
  <2>b. broken' \subseteq People
    BY <1>20 DEF CrashAndStart, Break, Registering, Idle
  <2>4. /\ asked' \subseteq People /\ count' \in 0..size'
        /\ (asked' # {} => count' + Cardinality(asked') = size')
    BY <1>20 DEF CrashAndStart
  <2>5. /\ syncFace' \in BOOLEAN /\ allFace' \in BOOLEAN /\ reload' \in BOOLEAN
        /\ page' \in People \cup {None} /\ added' \in BOOLEAN /\ (added' => page' # None)
        /\ reliable' \in BOOLEAN
    BY <1>20 DEF CrashAndStart
  <2> QED
    BY <2>1, <2>2, <2>3, <2>b, <2>4, <2>5 DEF Rows, Registrations
<1>21. CASE UNCHANGED vars
  BY <1>21 DEF vars
<1> QED
  BY <1>1, <1>2, <1>3, <1>4, <1>5, <1>6, <1>7, <1>8, <1>9, <1>10, <1>11, <1>14, <1>15,
     <1>16, <1>17, <1>18, <1>19, <1>20, <1>21, <1>b, <1>c DEF Next, SyncStep, PicStep

-----------------------------------------------------------------------------
(* A person on a list is employed from then on.                            *)
LEMMA OnListStored ==
  ASSUME TypeOK, Listing, chain # 0, NEW list \in Answers, NEW p \in listed \cup list
  PROVE  p \in People /\ Stored(list)[p] # 0
<1>1. list \subseteq People
  BY Zenon DEF Answers, OnList
<1>2. p \in People
  BY <1>1 DEF TypeOK
<1>3. CASE p \in list
  BY <1>2, <1>3 DEF Stored
<1>4. CASE p \notin list
  <2>1. p \in listed /\ employers[p] # 0 /\ chain # 3
    BY <1>4 DEF Listing
  <2> QED
    BY <1>2, <1>4, <2>1 DEF Stored
<1> QED
  BY <1>2, <1>3, <1>4

(* Nothing is registered while lists are awaited; only the cards of those  *)
(* who are not employed change the table meanwhile.                        *)
LEMMA ListingStep ==
  ASSUME TypeOK, Listing, [Next]_vars
  PROVE  Listing'
<1> USE DEF server, faces, registering, pics, faceSync, Listing
<1>1. CASE syncData
  BY <1>1 DEF syncData, Quiet
<1>2. CASE ListArrives
  <2> PICK list \in Answers : employers' = Stored(list) /\ listed' = listed \cup list
    BY <1>2 DEF ListArrives
  <2>1. \A p \in listed' : employers'[p] # 0
    BY <1>2, OnListStored DEF ListArrives
  <2>2. chain' # 3 /\ asked' = {} /\ registration' = Idle
    BY <1>2 DEF ListArrives
  <2> QED
    BY <2>1, <2>2
<1>3. CASE LastList \/ ListFails \/ CrashAndStart
  BY <1>3 DEF LastList, ListFails, CrashAndStart
<1>4. CASE \E p \in People : PicArrives(p) \/ StartRegistration(p)
  BY <1>4 DEF PicArrives, Answered, StartRegistration
<1>5. CASE UserAdd \/ UserAddFails \/ InsertKeeper
  <2>1. Idle.step = "none"
    BY DEF Idle
  <2>2. registration.step # "none" /\ chain' = chain
    BY <1>5 DEF UserAdd, UserAddFails, InsertKeeper
  <2> QED
    BY <2>1, <2>2
<1>6. CASE FacesArrive \/ FacesFail \/ loadFacesFromDB
  BY <1>6 DEF FacesArrive, FacesFail, loadFacesFromDB
<1>7. CASE onResume \/ register \/ registerInserts
  BY <1>7 DEF onResume, register, registerInserts
<1>8. ASSUME NEW p \in People, Asked(p), UNCHANGED <<chain, listed, pics>>
      PROVE  Listing'
  <2>1. \A q \in People : employers[q] # 0 => employers'[q] # 0
    BY <1>8 DEF Asked, TypeOK, TypeOrNone
  <2> QED
    BY <1>8, <2>1 DEF TypeOK
<1>9. CASE \E p \in People : queryPersion(p) \/ FaceReg(p)
  <2> PICK p \in People : queryPersion(p) \/ FaceReg(p)
    BY <1>9
  <2>1. CASE Asked(p)
    BY <1>8, <2>1 DEF queryPersion, FaceReg
  <2>2. CASE UNCHANGED employers
    BY <2>2 DEF queryPersion, FaceReg
  <2> QED
    BY <2>1, <2>2 DEF queryPersion, FaceReg
<1>10. CASE ServerChanges \/ ServerRecovers \/ UNCHANGED vars
  BY <1>10 DEF ServerChanges, ServerRecovers, vars
<1> QED
  BY <1>1, <1>2, <1>3, <1>4, <1>5, <1>6, <1>7, <1>9, <1>10 DEF Next, SyncStep, PicStep

(* Who has a face keeps it, is being registered, or is known to be without *)
(* one: only the cleanup, with the rows, and a registration delete users.  *)
LEMMA FacesKept ==
  ASSUME TypeOK, Listing, Registering, [Next]_vars, NEW p \in People, HasFace(p)
  PROVE  \/ HasFace(p)'
         \/ ~keepers'[p].rows /\ ~added'
         \/ ~keepers'[p].rows /\ page' # p
<1> USE DEF server, faces, registering, pics, faceSync, HasFace
<1>1. CASE syncData \/ ListArrives \/ ListFails
  BY <1>1 DEF syncData, ListArrives, ListFails
<1>2. CASE LastList
  <2> PICK list \in Answers :
       Cleanup({q \in People : Stored(list)[q] = 0 /\ keepers[q].rows})
    BY <1>2 DEF LastList
  <2> DEFINE gone == {q \in People : Stored(list)[q] = 0 /\ keepers[q].rows}
  <2>1. UNCHANGED <<registration, page, added>>
    BY <1>2 DEF LastList
  <2>2. CASE p \in features'
    BY <2>2
  <2>3. CASE p \notin features' /\ p \in features
    <3>1. p \in gone /\ ~keepers'[p].rows
      BY <2>3 DEF Cleanup, NoKeeper
    <3>2. added /\ page = p => p \in broken'
      BY <2>3, <3>1 DEF Cleanup, Break
    <3> QED
      BY <2>1, <3>1, <3>2 DEF TypeOK
  <2>4. CASE p \notin features' /\ p \in broken
    BY <2>4 DEF Cleanup, Break
  <2> QED
    BY <2>1, <2>2, <2>3, <2>4
<1>3. CASE \E q \in People : PicArrives(q)
  BY <1>3 DEF PicArrives, Answered
<1>4. CASE \E q \in People : StartRegistration(q)
  <2> PICK q \in People : StartRegistration(q)
    BY <1>4
  <2>1. /\ registration.who = None /\ registration'.who = q /\ p # None
        /\ features' = features \ {q} /\ UNCHANGED broken
    BY RosterAssumption DEF StartRegistration, Idle
  <2> QED
    BY <2>1
<1>5. CASE UserAdd
  BY <1>5 DEF UserAdd, TypeOK, Break
<1>6. CASE UserAddFails
  BY <1>6 DEF UserAddFails, Break
<1>7. CASE InsertKeeper
  <2>1. registration.who \in features
    BY <1>7 DEF InsertKeeper, Registering
  <2> QED
    BY <1>7, <2>1 DEF InsertKeeper
<1>8. CASE FacesArrive
  <2>1. /\ features \subseteq features' /\ broken \subseteq broken' \cup features'
        /\ UNCHANGED registration
    BY <1>8 DEF FacesArrive, Break
  <2> QED
    BY <2>1
<1>9. CASE register \/ registerInserts
  BY <1>9 DEF register, registerInserts, Break
<1>10. CASE CrashAndStart
  <2>1. CASE registration.step = "insert"
    <3>1. registration.who \in features
      BY <2>1 DEF Registering
    <3> QED
      BY <1>10, <3>1 DEF CrashAndStart, Break
  <2>2. CASE registration.step # "insert"
    <3>1. registration.who = p => registration.step = "add"
      BY <2>2, RosterAssumption DEF Registering, Idle
    <3> QED
      BY <1>10, <3>1 DEF CrashAndStart, Break
  <2> QED
    BY <2>1, <2>2
<1>11. CASE FacesFail \/ loadFacesFromDB \/ onResume
  BY <1>11 DEF FacesFail, loadFacesFromDB, onResume
<1>12. CASE \E q \in People : queryPersion(q) \/ FaceReg(q)
  BY <1>12 DEF queryPersion, FaceReg
<1>13. CASE ServerChanges \/ ServerRecovers \/ UNCHANGED vars
  BY <1>13 DEF ServerChanges, ServerRecovers, vars
<1> QED
  BY <1>1, <1>2, <1>3, <1>4, <1>5, <1>6, <1>7, <1>8, <1>9, <1>10, <1>11, <1>12, <1>13
     DEF Next, SyncStep, PicStep

(* A registration that has added the user finds its feature until the row  *)
(* is inserted, for no list is awaited meanwhile; the page's may have been *)
(* broken by then.                                                         *)
LEMMA RegisteringStep ==
  ASSUME TypeOK, Listing, Registering, [Next]_vars
  PROVE  Registering'
<1> DEFINE Background ==
       /\ registration # Idle => /\ registration.who \in People
                                 /\ registration.step \in {"add", "insert"}
       /\ registration.step = "insert" => registration.who \in features
<1> USE DEF server, faces, registering, pics, faceSync
<1>a. Background'
  <2> USE DEF Registering
  <2>1. CASE syncData \/ ListArrives \/ ListFails
    BY <2>1 DEF syncData, ListArrives, ListFails
  <2>2. CASE LastList
    <3>1. registration' = Idle /\ Idle.step = "none"
      BY <2>2 DEF LastList, Listing, Idle
    <3> QED
      BY <3>1
  <2>3. CASE \E p \in People : PicArrives(p)
    BY <2>3 DEF PicArrives, Answered
  <2>4. CASE \E p \in People : StartRegistration(p)
    BY <2>4 DEF StartRegistration
  <2>5. CASE UserAdd
    BY <2>5 DEF UserAdd, Idle, TypeOK
  <2>6. CASE UserAddFails \/ InsertKeeper \/ CrashAndStart
    <3>1. registration' = Idle /\ Idle.step = "none"
      BY <2>6 DEF UserAddFails, InsertKeeper, CrashAndStart, Idle
    <3> QED
      BY <3>1
  <2>7. CASE FacesArrive
    <3>1. features \subseteq features' /\ UNCHANGED registration
      BY <2>7 DEF FacesArrive
    <3> QED
      BY <3>1
  <2>8. CASE register \/ registerInserts
    BY <2>8 DEF register, registerInserts
  <2>9. CASE FacesFail \/ loadFacesFromDB \/ onResume
    BY <2>9 DEF FacesFail, loadFacesFromDB, onResume
  <2>10. CASE \E p \in People : queryPersion(p) \/ FaceReg(p)
    BY <2>10 DEF queryPersion, FaceReg
  <2>11. CASE ServerChanges \/ ServerRecovers \/ UNCHANGED vars
    BY <2>11 DEF ServerChanges, ServerRecovers, vars
  <2> QED
    BY <2>1, <2>2, <2>3, <2>4, <2>5, <2>6, <2>7, <2>8, <2>9, <2>10, <2>11
       DEF Next, SyncStep, PicStep
<1>b. added' => HasFace(page)'
  <2> SUFFICES ASSUME added' PROVE HasFace(page)'
    OBVIOUS
  <2>1. CASE register
    BY <2>1 DEF register, HasFace
  <2>2. CASE ~register
    <3>1. added /\ page' = page
      <4>1. ~CrashAndStart /\ ~registerInserts
        BY DEF CrashAndStart, registerInserts
      <4>2. CASE syncData \/ SyncStep
        BY <4>2 DEF syncData, SyncStep, ListArrives, LastList, ListFails, FacesArrive, FacesFail
      <4>3. CASE PicStep
        BY <4>3 DEF PicStep, PicArrives, Answered, StartRegistration, UserAdd, UserAddFails,
                    InsertKeeper
      <4>4. CASE loadFacesFromDB \/ onResume \/ \E p \in People : queryPersion(p)
        BY <4>4 DEF loadFacesFromDB, onResume, queryPersion
      <4>5. CASE \E p \in People : FaceReg(p)
        BY <4>5 DEF FaceReg, TypeOK
      <4>6. CASE ServerChanges \/ ServerRecovers \/ UNCHANGED vars
        BY <4>6 DEF ServerChanges, ServerRecovers, vars
      <4> QED
        BY <2>2, <4>1, <4>2, <4>3, <4>4, <4>5, <4>6 DEF Next
    <3>2. page \in People /\ HasFace(page)
      BY <3>1 DEF TypeOK, Registering
    <3> QED
      BY <3>1, <3>2, FacesKept
  <2> QED
    BY <2>1, <2>2
<1> QED
  BY <1>a, <1>b DEF Registering

(* The two databases of one person: FacesStay, one action at a time.       *)
LEMMA FacesStep ==
  ASSUME IInv, [Next]_vars
  PROVE  FacesStay'
<1> USE DEF server, faces, registering, pics, faceSync, IInv, RosterInv
<1> SUFFICES ASSUME NEW p \in People, keepers'[p].rows PROVE HasFace(p)'
  BY DEF FacesStay
<1>1. CASE keepers[p].rows
  <2>1. HasFace(p)
    BY <1>1 DEF FacesStay
  <2> QED
    BY <2>1, FacesKept
<1>2. CASE ~keepers[p].rows
  <2>1. ASSUME NEW q \in People, NEW ps \in Photos, NEW knows \in BOOLEAN,
               Inserted(q, ps, knows)[p].rows
        PROVE  p = q
    BY <1>2, <2>1 DEF Inserted, TypeOK
  <2>2. CASE InsertKeeper
    <3>1. /\ registration.who \in People /\ registration.who \in features
          /\ registration.ps \in Photos
      BY <2>2, PhotoFacts DEF InsertKeeper, Registering, Idle, TypeOK
    <3> QED
      BY <2>1, <2>2, <3>1 DEF InsertKeeper, HasFace
  <2>3. CASE FacesArrive
    <3>1. PICK list \in Lists :
            /\ keepers' = [q \in People |->
                              IF q \in list THEN Inserted(q, 0, FALSE)[q] ELSE keepers[q]]
            /\ Break(list)
      BY <2>3, Zenon DEF FacesArrive
    <3>2. p \in list
      BY <1>2, <3>1
    <3> QED
      BY <3>1, <3>2 DEF Break, HasFace
  <2>4. CASE registerInserts
    <3>1. page \in People /\ HasFace(page)
      BY <2>4 DEF registerInserts, TypeOK, Registering
    <3>2. p = page
      BY <2>1, <2>4, <3>1, PhotoFacts DEF registerInserts
    <3> QED
      BY <2>4, <3>1, <3>2 DEF registerInserts, HasFace
  <2>5. CASE LastList
    BY <1>2, <2>5 DEF LastList, Cleanup, NoKeeper
  <2>6. CASE syncData \/ ListArrives \/ ListFails \/ FacesFail \/ loadFacesFromDB
    BY <1>2, <2>6 DEF syncData, ListArrives, ListFails, FacesFail, loadFacesFromDB
  <2>7. CASE UserAdd \/ UserAddFails \/ \E q \in People : PicArrives(q) \/ StartRegistration(q)
    BY <1>2, <2>7 DEF UserAdd, UserAddFails, PicArrives, Answered, StartRegistration
  <2>8. CASE onResume \/ register \/ \E q \in People : queryPersion(q) \/ FaceReg(q)
    BY <1>2, <2>8 DEF onResume, register, queryPersion, FaceReg
  <2>9. CASE ServerChanges \/ ServerRecovers \/ CrashAndStart \/ UNCHANGED vars
    BY <1>2, <2>9 DEF ServerChanges, ServerRecovers, CrashAndStart, vars
  <2> QED
    BY <2>2, <2>3, <2>4, <2>5, <2>6, <2>7, <2>8, <2>9 DEF Next, SyncStep, PicStep
<1> QED
  BY <1>1, <1>2

(* No action but the cleanup takes a keeper's rows, and the cleanup only   *)
(* those of people who were on no list.                                    *)
LEMMA KeepersStep ==
  ASSUME IInv, [Next]_vars, NEW p \in People, keepers[p].rows, ~keepers'[p].rows
  PROVE  p \notin listed'
<1> USE DEF server, faces, registering, pics, faceSync, IInv, RosterInv
<1>1. CASE LastList
  <2> PICK list \in Answers :
       /\ listed' = listed \cup list
       /\ Cleanup({q \in People : Stored(list)[q] = 0 /\ keepers[q].rows})
    BY <1>1 DEF LastList
  <2>1. Stored(list)[p] = 0
    BY DEF Cleanup
  <2> QED
    BY <1>1, <2>1, OnListStored DEF LastList
<1>2. ASSUME NEW q \in People, NEW ps \in Photos, NEW knows \in BOOLEAN
      PROVE  Inserted(q, ps, knows)[p].rows
  BY DEF Inserted, TypeOK
<1>3. CASE InsertKeeper
  <2>1. registration.who \in People /\ registration.ps \in Photos
    BY <1>3, PhotoFacts DEF InsertKeeper, Registering, Idle, TypeOK
  <2> QED
    BY <1>2, <1>3, <2>1 DEF InsertKeeper
<1>4. CASE FacesArrive
  <2>1. PICK list \in Lists :
          keepers' = [q \in People |->
                        IF q \in list THEN Inserted(q, 0, FALSE)[q] ELSE keepers[q]]
    BY <1>4, Zenon DEF FacesArrive
  <2> QED
    BY <1>2, <2>1, PhotoFacts
<1>5. CASE registerInserts
  <2>1. page \in People
    BY <1>5 DEF registerInserts, TypeOK
  <2> QED
    BY <1>2, <1>5, <2>1, PhotoFacts DEF registerInserts
<1>6. CASE syncData \/ ListArrives \/ ListFails \/ FacesFail \/ loadFacesFromDB
  BY <1>6 DEF syncData, ListArrives, ListFails, FacesFail, loadFacesFromDB
<1>7. CASE UserAdd \/ UserAddFails \/ \E q \in People : PicArrives(q) \/ StartRegistration(q)
  BY <1>7 DEF UserAdd, UserAddFails, PicArrives, Answered, StartRegistration
<1>8. CASE onResume \/ register \/ \E q \in People : queryPersion(q) \/ FaceReg(q)
  BY <1>8 DEF onResume, register, queryPersion, FaceReg
<1>9. CASE ServerChanges \/ ServerRecovers \/ CrashAndStart \/ UNCHANGED vars
  BY <1>9 DEF ServerChanges, ServerRecovers, CrashAndStart, vars
<1> QED
  BY <1>1, <1>3, <1>4, <1>5, <1>6, <1>7, <1>8, <1>9 DEF Next, SyncStep, PicStep

LEMMA InitIInv ==
  ASSUME Init
  PROVE  IInv
<1>1. TypeOK
  <2>1. Cardinality(People) \in Nat
    BY RosterAssumption, FS_CardinalityType
  <2>2. photo \in [People -> PhotoOrNone] /\ keepers \in [People -> Rows]
        /\ registration \in Registrations
    BY PhotoFacts DEF Init
  <2>3. employers \in TypeOrNone /\ roster \in TypeOrNone
    BY DEF Init, TypeOrNone
  <2>4. size \in 0..Cardinality(People) /\ count \in 0..size /\ chain \in 0..3
    BY <2>1 DEF Init
  <2>5. events \in 0..MaxEvents
    BY RosterAssumption DEF Init
  <2> QED
    BY <2>2, <2>3, <2>4, <2>5 DEF Init, TypeOK, Rows, Registrations
<1>2. FacesStay
  BY DEF Init, FacesStay, NoKeeper
<1> QED
  BY <1>1, <1>2 DEF Init, IInv, RosterInv, Listing, Registering, Idle

-----------------------------------------------------------------------------
(* IInv is an invariant of every execution.                                *)
THEOREM Inductive == Spec => []IInv
<1>1. IInv /\ [Next]_vars => IInv'
  BY TypeStep, ListingStep, RegisteringStep, FacesStep DEF IInv, RosterInv
<1> QED
  BY InitIInv, <1>1, PTL DEF Spec

(* A keeper has a feature, or is just being given a new one, unless userAdd*)
(* failed after the old one was deleted, the process died in between, or a *)
(* cleanup overtook the page's row: nothing else parts the two databases   *)
(* (HeBeiService:507-783, HuNanFaceImpl3:229-261 and 666-702).             *)
THEOREM RosterAlways == Spec => []RosterInv
<1>1. IInv => RosterInv
  BY DEF IInv
<1> QED
  BY Inductive, <1>1, PTL

(* A synchronisation takes keepers and faces only of people who were on    *)
(* none of its lists, however many of them failed: HeBeiService:600-611.   *)
THEOREM ListedKept == Spec => KeepersKept
<1>1. IInv /\ [Next]_vars
        => [\A p \in People : keepers[p].rows /\ ~keepers'[p].rows => p \notin listed']_vars
  BY KeepersStep
<1> QED
  BY Inductive, <1>1, PTL DEF Spec, KeepersKept
=============================================================================
