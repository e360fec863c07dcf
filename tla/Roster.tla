------------------------------- MODULE Roster -------------------------------
(***************************************************************************)
(* Who may open the door: the employers and keepers the instrument stores, *)
(* the face features of its engine and the set the engine has loaded, as   *)
(* the service synchronises them with the server at every start and once a *)
(* day (HeBeiService.syncData, syncFace, getPic; HuNanFaceImpl3).          *)
(*                                                                         *)
(* The main thread, Schedulers.single and the engine's thread run in       *)
(* parallel; the databases survive a crash.  Photos are told apart by what *)
(* the code compares, their length, and one without a usable face counts as*)
(* none.  Card numbers are spelled alike everywhere.  Two synchronisations *)
(* do not overlap: they are a day apart; what one begins ends in seconds.  *)
(* The engine may fail to store a feature (userAdd returns false), as often*)
(* as it likes while the world is not yet reliable.  A crash comes between *)
(* the handlers of the main thread.                                        *)
(***************************************************************************)
EXTENDS Naturals, FiniteSets

CONSTANTS
  People,
  Types,        \* the types the server may give each person: of 3, 2 and 1
  Lengths,      \* the lengths of the photos of each person
  Shared,       \* the people whose feature the server hands out (getAllFace)
  Card,         \* the photo of a card
  None,
  MaxEvents     \* bound: how often something happens from outside: a change on the server,
                \* a visit to the card reader or another page, a death of the process

PhotoOrNone == {0} \cup UNION {Lengths[p] : p \in People}

ASSUME RosterAssumption ==
  /\ IsFiniteSet(People) /\ None \notin People
  /\ Types \in [People -> SUBSET (1..3)] /\ Lengths \in [People -> SUBSET (Nat \ {0})]
  /\ Shared \subseteq People
  /\ Card \notin PhotoOrNone
  /\ MaxEvents \in Nat

VARIABLES
  roster, photo,  \* on the server: the type of each person, or 0; the photo, or 0
  employers,      \* the table Employer: the type of each person, or 0
  keepers,        \* the table Keeper: see NoKeeper
  features,       \* the people of whom the engine's database has a feature
  broken,         \* history: the people left without a feature since userAdd failed, the
                  \* process died before it, or a cleanup overtook the page's row
  loaded,         \* the people whose features the engine compares with
  chain,          \* the list syncData waits for (3, 2, 1), or 0
  listed,         \* history: the people on the lists of this synchronisation
  asked,          \* the people whose recentPic is awaited
  size, count,    \* getPic: the requests made, and those answered
  registration,   \* FaceRegInBackGround: who and what, and what is done next
  syncFace,       \* config "syncFace"
  allFace,        \* is getAllFace awaited?
  reload,         \* is a FaceIdentifyReady in the engine's queue?
  page,           \* whom the registration page is registering, or None
  added,          \* has the page's userAdd stored the feature, and the row is to come?
  reliable,       \* the server changes no more, and it and the engine's database work
  events          \* what has happened so far: see MaxEvents

server == <<roster, photo>>
faces == <<features, broken>>
registering == <<page, added>>
pics == <<asked, size, count, registration>>
faceSync == <<syncFace, allFace>>
fate == <<reliable, events>>
vars == <<server, employers, keepers, faces, loaded, chain, listed, pics, faceSync, reload,
          registering, fate>>

\* The rows of a person in Keeper, of which the code reads the oldest: its headphoto
\* (0 is null), and whether some row knows the user id in the engine's database.
NoKeeper == [rows |-> FALSE, headphoto |-> 0, user |-> FALSE]
Photos == PhotoOrNone \cup {Card}
Idle == [who |-> None, ps |-> 0, step |-> "none"]

TypeOrNone == {f \in [People -> 0..3] : \A p \in People : f[p] \in Types[p] \cup {0}}

TypeOK ==
  /\ roster \in TypeOrNone /\ photo \in [People -> PhotoOrNone]
  /\ employers \in TypeOrNone
  /\ keepers \in [People -> [rows : BOOLEAN, headphoto : Photos, user : BOOLEAN]]
  /\ features \subseteq People /\ broken \subseteq People /\ loaded \subseteq People
  /\ chain \in 0..3 /\ listed \subseteq People
  /\ asked \subseteq People /\ size \in 0..Cardinality(People)
  /\ count \in 0..size /\ (asked # {} => count + Cardinality(asked) = size)
  /\ registration \in [who : People \cup {None}, ps : PhotoOrNone,
                       step : {"none", "add", "insert"}]
  /\ syncFace \in BOOLEAN /\ allFace \in BOOLEAN /\ reload \in BOOLEAN
  /\ page \in People \cup {None} /\ added \in BOOLEAN /\ (added => page # None)
  /\ reliable \in BOOLEAN /\ events \in 0..MaxEvents

Init ==
  /\ roster \in TypeOrNone
  /\ photo \in {f \in [People -> PhotoOrNone] : \A p \in People : f[p] \in Lengths[p] \cup {0}}
  /\ employers = [p \in People |-> 0]
  /\ keepers = [p \in People |-> NoKeeper]
  /\ features = {} /\ broken = {} /\ loaded = {}
  /\ chain = 0 /\ listed = {}
  /\ asked = {} /\ size = 0 /\ count = 0 /\ registration = Idle
  /\ syncFace = TRUE /\ allFace = FALSE /\ reload = TRUE
  /\ page = None /\ added = FALSE
  /\ reliable = FALSE /\ events = 0

\* These people, and those of before, are without a feature by now.
Break(people) == broken' = (broken \cup people) \ features'

-----------------------------------------------------------------------------
(* syncData, 10 s after a start and once a day.                            *)

Quiet == chain = 0 /\ asked = {} /\ registration = Idle /\ ~allFace /\ ~reload

syncData ==
  /\ Quiet
  /\ chain' = 3 /\ listed' = {}
  /\ allFace' = syncFace
  /\ UNCHANGED <<server, employers, keepers, faces, loaded, pics, syncFace, reload,
                 registering, fate>>

\* What an answer says: the people of that type, or nobody when it is no list.
OnList == {p \in People : roster[p] = chain}
Answers == IF reliable THEN {OnList} ELSE {OnList, {}}

\* The first list empties the table.
\* Mutant: each list does.
Stored_EmptiedEach(list) == [p \in People |-> IF p \in list THEN chain ELSE 0]
\* Mutant: none does.
Stored_NeverEmptied(list) == [p \in People |-> IF p \in list THEN chain ELSE employers[p]]

Stored(list) ==
  [p \in People |-> IF p \in list THEN chain ELSE IF chain = 3 THEN 0 ELSE employers[p]]

\* The lists of types 3 and 2: the next one is asked for.
ListArrives ==
  /\ chain \in {3, 2}
  /\ \E list \in Answers : employers' = Stored(list) /\ listed' = listed \cup list
  /\ chain' = chain - 1
  /\ UNCHANGED <<server, keepers, faces, loaded, pics, faceSync, reload, registering, fate>>

\* Mutant: the keepers stay.
Cleanup_Not(gone) == UNCHANGED <<keepers, faces>>
\* Mutant: only the faces go.
Cleanup_FacesOnly(gone) ==
  /\ features' = features \ gone
  /\ UNCHANGED <<keepers, broken>>

\* Keepers who are not employed lose their rows and, where a row knows it, their user.
Cleanup(gone) ==
  /\ keepers' = [p \in People |-> IF p \in gone THEN NoKeeper ELSE keepers[p]]
  /\ features' = features \ {p \in gone : keepers[p].user}
  /\ Break(gone \cap (IF added THEN {page} ELSE {}))

\* Mutant: count keeps what the last night counted.
getPic_NotReset(people) == asked' = people /\ size' = Cardinality(people) /\ UNCHANGED count

getPic(people) == asked' = people /\ size' = Cardinality(people) /\ count' = 0

\* The list of type 1: the cleanup, and a photo is asked for of everybody employed.
LastList ==
  /\ chain = 1
  /\ \E list \in Answers :
       /\ employers' = Stored(list)
       /\ listed' = listed \cup list
       /\ Cleanup({p \in People : Stored(list)[p] = 0 /\ keepers[p].rows})
       /\ getPic({p \in People : Stored(list)[p] # 0})
  /\ chain' = 0
  /\ UNCHANGED <<server, loaded, registration, faceSync, reload, registering, fate>>

ListFails ==
  /\ ~reliable /\ chain # 0
  /\ chain' = 0
  /\ UNCHANGED <<server, employers, keepers, faces, loaded, listed, pics, faceSync, reload,
                 registering, fate>>

-----------------------------------------------------------------------------
(* getPic's answers, one after the other on Schedulers.single.             *)

\* The engine is told to load its database after the last answer.
ReadyAfter(n) == reload' = (reload \/ n = size)

\* Mutant: an answer that changes nothing is not counted.
Answered_NotCounted(p) ==
  /\ asked' = asked \ {p}
  /\ UNCHANGED <<server, employers, keepers, faces, loaded, chain, listed, count, size,
                 registration, faceSync, reload, registering, fate>>

Answered(p) ==
  /\ asked' = asked \ {p} /\ count' = count + 1
  /\ ReadyAfter(count + 1)
  /\ UNCHANGED <<server, employers, keepers, faces, loaded, chain, listed, size,
                 registration, faceSync, registering, fate>>

\* A photo is new for one who has no keeper, or whose headphoto has another length; a
\* headphoto that is null makes an exception.
NewPhoto(p) ==
  /\ photo[p] # 0
  /\ keepers[p].rows => keepers[p].headphoto \notin {0, photo[p]}

PicArrives(p) ==
  /\ p \in asked /\ registration = Idle
  /\ ~NewPhoto(p) \/ ~reliable
  /\ Answered(p)

\* FaceRegInBackGround: userDelete, userAdd, and the row in Keeper.
StartRegistration(p) ==
  /\ p \in asked /\ registration = Idle
  /\ NewPhoto(p)
  /\ asked' = asked \ {p} /\ count' = count + 1
  /\ features' = features \ {p} /\ UNCHANGED broken
  /\ registration' = [who |-> p, ps |-> photo[p], step |-> "add"]
  /\ UNCHANGED <<server, employers, keepers, loaded, chain, listed, size, faceSync, reload,
                 registering, fate>>

UserAdd ==
  /\ registration.step = "add"
  /\ features' = features \cup {registration.who}
  /\ Break({})
  /\ registration' = [registration EXCEPT !.step = "insert"]
  /\ UNCHANGED <<server, employers, keepers, loaded, chain, listed, asked, size, count,
                 faceSync, reload, registering, fate>>

\* userAdd returns false: there is no feature, and the rows stay as they were.
UserAddFails ==
  /\ registration.step = "add"
  /\ ~reliable
  /\ UNCHANGED features /\ Break({registration.who})
  /\ registration' = Idle
  /\ ReadyAfter(count)
  /\ UNCHANGED <<server, employers, keepers, loaded, chain, listed, asked, size, count,
                 faceSync, registering, fate>>

\* A new row comes after those there are.
Inserted(p, ps, knows) ==
  [keepers EXCEPT ![p] = [rows |-> TRUE,
                          headphoto |-> IF @.rows THEN @.headphoto ELSE ps,
                          user |-> @.user \/ knows]]

InsertKeeper ==
  /\ registration.step = "insert"
  /\ keepers' = Inserted(registration.who, registration.ps, TRUE)
  /\ registration' = Idle
  /\ ReadyAfter(count)
  /\ UNCHANGED <<server, employers, faces, loaded, chain, listed, asked, size, count,
                 faceSync, registering, fate>>

-----------------------------------------------------------------------------
(* syncFace: features of other instruments, once.  The row of each person  *)
(* on the list is inserted and then the feature added, whose failure is    *)
(* ignored; a damaged item ends the list.                                  *)

Lists == IF reliable THEN {Shared} ELSE SUBSET Shared

FacesArrive ==
  /\ allFace
  /\ \E list \in Lists : \E stored \in SUBSET list :
       /\ reliable => stored = list
       /\ keepers' = [p \in People |->
                        IF p \in list THEN Inserted(p, 0, FALSE)[p] ELSE keepers[p]]
       /\ features' = features \cup stored
       /\ Break(list)
  /\ allFace' = FALSE /\ syncFace' = FALSE /\ reload' = TRUE
  /\ UNCHANGED <<server, employers, loaded, chain, listed, pics, registering, fate>>

FacesFail ==
  /\ ~reliable /\ allFace
  /\ allFace' = FALSE
  /\ UNCHANGED <<server, employers, keepers, faces, loaded, chain, listed, pics, syncFace,
                 reload, registering, fate>>

-----------------------------------------------------------------------------
(* The engine, the pages and the server.                                   *)

loadFacesFromDB ==
  /\ reload
  /\ loaded' = features /\ reload' = FALSE
  /\ UNCHANGED <<server, employers, keepers, faces, chain, listed, pics, faceSync,
                 registering, fate>>

Visit ==
  /\ events < MaxEvents /\ events' = events + 1
  /\ UNCHANGED reliable

\* A page that is resumed asks for it as well.
onResume ==
  /\ Visit
  /\ reload' = TRUE
  /\ UNCHANGED <<server, employers, keepers, faces, loaded, chain, listed, pics, faceSync,
                 registering>>

\* The card of somebody who is not employed: the server says who it is, in one step with
\* the answer's handler.
Asked(p) == employers[p] = 0 /\ roster[p] # 0 /\ employers' = [employers EXCEPT ![p] = roster[p]]

queryPersion(p) ==
  /\ Visit
  /\ Asked(p)
  /\ UNCHANGED <<server, keepers, faces, loaded, chain, listed, pics, faceSync, reload,
                 registering>>

\* The registration page takes a face for a card, once the server knows its holder.
FaceReg(p) ==
  /\ Visit
  /\ page = None
  /\ Asked(p) \/ (employers[p] # 0 /\ UNCHANGED employers)
  /\ page' = p /\ UNCHANGED added
  /\ UNCHANGED <<server, keepers, faces, loaded, chain, listed, pics, faceSync, reload>>

register ==
  /\ page # None /\ ~added
  /\ \/ /\ features' = features \cup {page} /\ Break({})
        /\ added' = TRUE /\ UNCHANGED page
     \/ page' = None /\ UNCHANGED <<faces, added>>
  /\ UNCHANGED <<server, employers, keepers, loaded, chain, listed, pics, faceSync, reload,
                 fate>>

\* The row follows; the main thread may have had its cleanup in between.
registerInserts ==
  /\ added
  /\ keepers' = Inserted(page, Card, TRUE)
  /\ page' = None /\ added' = FALSE
  /\ UNCHANGED <<server, employers, faces, loaded, chain, listed, pics, faceSync, reload,
                 fate>>

ServerChanges ==
  /\ ~reliable /\ events < MaxEvents /\ events' = events + 1
  /\ \E p \in People :
       \/ \E t \in Types[p] \cup {0} : roster' = [roster EXCEPT ![p] = t] /\ UNCHANGED photo
       \/ \E ps \in Lengths[p] \cup {0} : photo' = [photo EXCEPT ![p] = ps] /\ UNCHANGED roster
  /\ UNCHANGED <<employers, keepers, faces, loaded, chain, listed, pics, faceSync, reload,
                 registering, reliable>>

ServerRecovers ==
  /\ ~reliable /\ reliable' = TRUE
  /\ UNCHANGED <<server, employers, keepers, faces, loaded, chain, listed, pics, faceSync,
                 reload, registering, events>>

\* The main page is resumed after a start.
CrashAndStart ==
  /\ events < MaxEvents /\ events' = events + 1
  /\ loaded' = {} /\ reload' = TRUE
  /\ chain' = 0 /\ listed' = {}
  /\ asked' = {} /\ size' = 0 /\ count' = 0 /\ registration' = Idle
  /\ UNCHANGED features
  /\ Break(IF registration.step = "add" THEN {registration.who} ELSE {})
  /\ allFace' = FALSE /\ page' = None /\ added' = FALSE
  /\ UNCHANGED <<server, employers, keepers, syncFace, reliable>>

-----------------------------------------------------------------------------
SyncStep == ListArrives \/ LastList \/ ListFails \/ FacesArrive \/ FacesFail
PicStep == (\E p \in People : PicArrives(p) \/ StartRegistration(p)) 
           \/ UserAdd \/ UserAddFails \/ InsertKeeper

Next ==
  \/ syncData \/ SyncStep \/ PicStep \/ loadFacesFromDB
  \/ onResume \/ register \/ registerInserts \/ \E p \in People : queryPersion(p) \/ FaceReg(p)
  \/ ServerChanges \/ ServerRecovers \/ CrashAndStart

Spec == Init /\ [][Next]_vars

\* The timer fires every day, requests end within their timeouts, the threads run.
FairSpec ==
  /\ Spec
  /\ SF_vars(syncData) /\ WF_vars(SyncStep) /\ WF_vars(PicStep) /\ WF_vars(loadFacesFromDB)

-----------------------------------------------------------------------------
(* Properties.                                                             *)

\* HeBeiService:600-611: the cleanup takes the keepers, and with them the faces, only of
\* people who were on none of the three lists of that synchronisation.
KeepersKept ==
  [][\A p \in People : keepers[p].rows /\ ~keepers'[p].rows => p \notin listed']_vars

\* The engine has a feature of p, is about to, or has been known to fail.
HasFace(p) == p \in features \/ registration.who = p \/ p \in broken

\* HuNanFaceImpl3:242-252: a keeper has a feature, but for the moment in which a new one
\* replaces it, unless the new one could not be stored (userAdd failed, the process died)
\* or a cleanup came between the feature and the row of the registration page: cleanup,
\* registration and syncFace keep the two databases together.
FacesStay == \A p \in People : keepers[p].rows => HasFace(p)

\* The tables, the features and the counters of getPic.
RosterInv == TypeOK /\ FacesStay

\* HebeiMainActivity.onUser: whose face opens the door.
Admitted(p) == p \in loaded /\ keepers[p].rows /\ employers[p] # 0

\* The new feature was not stored, and the server's photo is not new: it has the length of
\* the oldest row's again, or that row came with a feature and has none.
Forgotten(p) == p \in broken /\ keepers[p].rows /\ ~NewPhoto(p)

Employed(p) == roster[p] # 0 /\ photo[p] # 0

\* Once the server and the engine work, through whatever failures and crashes came before,
\* all employed people of whom the server has a photo are admitted together (getPic counts
\* every answer, asks again the next day, and tells the engine in the end), unless they are
\* forgotten, and those it does not employ are some day admitted no more.
RosterFollows ==
  /\ reliable ~> \A p \in People : Employed(p) => Admitted(p) \/ Forgotten(p)
  /\ reliable ~> [](\A p \in People : roster[p] = 0 => ~Admitted(p))

-----------------------------------------------------------------------------
(***************************************************************************)
(* The inductive invariant behind KeepersKept and FacesStay: what the      *)
(* lists of a synchronisation have left, and how far a registration is.    *)
(***************************************************************************)
\* While lists are awaited nothing is registered, and who was on one is employed.
Listing ==
  chain # 0 => /\ asked = {} /\ registration = Idle
               /\ chain = 3 => listed = {}
               /\ \A p \in listed : employers[p] # 0

Registering ==
  /\ registration # Idle => /\ registration.who \in People
                            /\ registration.step \in {"add", "insert"}
  /\ registration.step = "insert" => registration.who \in features
  /\ added => HasFace(page)

IInv == RosterInv /\ Listing /\ Registering
=============================================================================
