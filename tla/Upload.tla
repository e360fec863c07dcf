------------------------------- MODULE Upload -------------------------------
(***************************************************************************)
(* How the records of the instrument reach the server (HebeiMainActivity,  *)
(* HeBeiService, ServerConnectionUtil): a thread for each post, all reading*)
(* their answers through one field of the ServerConnectionUtil they share; *)
(* Retrofit calls; rows of ReUploadWithBsBean for what could not be sent,  *)
(* posted again one by one at every start and once a day.                  *)
(*                                                                         *)
(* What a record says is left to Session, but for one thing: the row that  *)
(* is saved when a post fails is built anew, of the people on record by    *)
(* then.  It may stand for the record and name others, and with nobody on  *)
(* record its making throws and the process dies.  (The row of a call      *)
(* carries the time of the failure.)  The server and the network are       *)
(* external: a request may fail before or after the server has received it.*)
(***************************************************************************)
EXTENDS Naturals, Sequences, FiniteSets, SequencesExt

CONSTANTS
  Opens, Checks,  \* the openDoor and the checkRecord posts
  Calls,          \* the closeDoor and alarm calls
  None,
  Together,       \* bound: the sets of records of which one may come into being
  MaxQueue,       \* bound: the rows waiting for the single thread
  MaxCrashes,     \* bound: how often the process dies
  Recovers        \* the network and the server may become reliable

Records == Opens \cup Checks \cup Calls

ASSUME UploadAssumption ==
  /\ Opens \cap Checks = {} /\ Opens \cap Calls = {} /\ Checks \cap Calls = {}
  /\ None \notin Records
  /\ Together \subseteq SUBSET Records /\ MaxQueue \in Nat /\ MaxCrashes \in Nat /\ Recovers \in BOOLEAN

VARIABLES
  produced,           \* the records of which the program knows
  calls,              \* the Retrofit calls in flight
  thread,             \* thread[j]: what the thread that sends j does
  in,                 \* in[u]: the stream u's field "in" reads from
  answer,             \* what is still to be read from the stream of each job
  callbacks,          \* the responses posted to the main thread
  queue,              \* the tasks of the single thread
  rows,               \* the table ReUploadWithBsBean, in the order of insertion: for
                      \* each row, the record in whose place it was saved
  mistaken,           \* history: the records whose row was built of other people
  said,               \* what the page has told the user about a record
  received,           \* history: the records the server has, one whose row names others
                      \* not counted for that row
  accepted,           \* history: the records whose row the server has answered "true"
  reliable,           \* the network and the server work from now on
  lost, crashes       \* history: the records a crash has wiped out; crashes so far

sending == <<thread, in, answer>>
server == <<received, accepted>>
fate == <<reliable, lost, crashes>>
vars == <<produced, calls, sending, callbacks, queue, rows, mistaken, said, server, fate>>

\* A record is sent by a thread of the activity's ServerConnectionUtil, and its row by
\* the single thread of the service's.
Utils == {"activity", "service"}
Jobs == Records \X Utils
Util(j) == j[2]
First(r) == <<r, "activity">>  \* (also the Retrofit call)
Again(r) == <<r, "service">>
Responses == {"true", "other", "null"}

TypeOK ==
  /\ produced \subseteq Records
  /\ calls \subseteq produced \cap Calls
  /\ thread \in [Jobs -> [step : {"none", "connect", "read"}, response : Responses]]
  /\ in \in [Utils -> Jobs \cup {None}]
  /\ answer \in [Jobs -> {"true", "other", "end"}]
  /\ callbacks \subseteq Jobs \X Responses
  /\ queue \in Seq(Records) /\ Len(queue) <= MaxQueue
  /\ rows \in Seq(Records) /\ IsInjective(rows)
  /\ said \in [Records -> {"", "uploaded", "failed", "saved"}]
  /\ mistaken \subseteq produced \ Calls
  /\ received \subseteq produced /\ accepted \subseteq received \cup mistaken
  /\ reliable \in BOOLEAN
  /\ lost \subseteq produced
  /\ crashes \in 0..MaxCrashes

NoThread == [step |-> "none", response |-> "null"]

Init ==
  /\ produced = {} /\ calls = {}
  /\ thread = [j \in Jobs |-> NoThread]
  /\ in = [u \in Utils |-> None]
  /\ answer = [j \in Jobs |-> "end"]
  /\ callbacks = {} /\ queue = <<>> /\ rows = <<>> /\ mistaken = {}
  /\ said = [r \in Records |-> ""]
  /\ received = {} /\ accepted = {}
  /\ reliable = FALSE /\ lost = {} /\ crashes = 0

-----------------------------------------------------------------------------
(* ServerConnectionUtil: post starts a thread; sendPost connects and reads *)
(* the answer, line by line, through the field "in".                       *)

Produce(r) ==
  /\ r \notin produced
  /\ \E together \in Together : produced \cup {r} \subseteq together
  /\ produced' = produced \cup {r}

post(r) ==
  /\ r \in Opens \cup Checks
  /\ Produce(r)
  /\ thread' = [thread EXCEPT ![First(r)].step = "connect"]
  /\ UNCHANGED <<calls, in, answer, callbacks, queue, rows, mistaken, said, server, fate>>

\* The server gets the request of a job, and answers it.
ServerGets(j, a) ==
  /\ received' = IF j = Again(j[1]) /\ j[1] \in mistaken THEN received
                                                        ELSE received \cup {j[1]}
  /\ accepted' = IF j = Again(j[1]) /\ a = "true" THEN accepted \cup {j[1]} ELSE accepted

Answers == IF reliable THEN {"true"} ELSE {"true", "other"}

\* The response code is 200, and "in" now reads this thread's stream.
Connected(j) ==
  /\ thread[j].step = "connect"
  /\ \E a \in Answers :
       /\ ServerGets(j, a)
       /\ answer' = [answer EXCEPT ![j] = a]
  /\ thread' = [thread EXCEPT ![j].step = "read"]
  /\ in' = [in EXCEPT ![Util(j)] = j]
  /\ UNCHANGED <<produced, calls, callbacks, queue, rows, mistaken, said, fate>>

\* sendPost returns and its response is posted to the main thread.  Streams that no
\* thread will look at any more are forgotten.
Readers(u) == {j \in Jobs : Util(j) = u /\ thread[j].step = "read"}

Returns(j, response) ==
  /\ thread' = [thread EXCEPT ![j] = NoThread]
  /\ callbacks' = callbacks \cup {<<j, response>>}
  /\ IF Readers(Util(j)) \subseteq {j}
     THEN /\ in' = [in EXCEPT ![Util(j)] = None]
          /\ answer' = [k \in Jobs |-> IF Util(k) = Util(j) THEN "end" ELSE answer[k]]
     ELSE UNCHANGED <<in, answer>>

\* Another response code, or an exception, perhaps after the server got it all.
ConnectFails(j) ==
  /\ ~reliable
  /\ thread[j].step = "connect"
  /\ Returns(j, "null")
  /\ ServerGets(j, "true") \/ ServerGets(j, "other") \/ UNCHANGED server
  /\ UNCHANGED <<produced, calls, queue, rows, mistaken, said, fate>>

\* One turn of the loop, on whatever stream "in" is.
ReadLine(j) ==
  /\ thread[j].step = "read"
  /\ LET stream == in[Util(j)]
     IN IF answer[stream] = "end"
        THEN Returns(j, thread[j].response)
        ELSE /\ thread' = [thread EXCEPT ![j].response = answer[stream]]
             /\ answer' = [answer EXCEPT ![stream] = "end"]
             /\ UNCHANGED <<in, callbacks>>
  /\ UNCHANGED <<produced, calls, queue, rows, mistaken, said, server, fate>>

ReadFails(j) ==
  /\ ~reliable
  /\ thread[j].step = "read"
  /\ Returns(j, thread[j].response)
  /\ UNCHANGED <<produced, calls, queue, rows, mistaken, said, server, fate>>

-----------------------------------------------------------------------------
(* The callbacks, on the main thread.                                      *)

\* Mutant: the row is saved when the server refuses, not when there is no answer.
Row_Refused(r, response) ==
  /\ rows' = IF response = "other" THEN Append(rows, r) ELSE rows
  /\ mistaken' \in {mistaken, IF response = "other" THEN mistaken \cup {r} ELSE mistaken}

\* Without an answer a row is saved for the record, with the names on record by now.
Row(r, response) ==
  /\ rows' = IF response = "null" THEN Append(rows, r) ELSE rows
  /\ mistaken' \in {mistaken, IF response = "null" THEN mistaken \cup {r} ELSE mistaken}

Respond(r, response, says) ==
  /\ <<First(r), response>> \in callbacks
  /\ callbacks' = callbacks \ {<<First(r), response>>}
  /\ said' = [said EXCEPT ![r] = says]
  /\ Row(r, response)
  /\ UNCHANGED <<produced, calls, sending, queue, server, fate>>

\* A record is in memory only, while its first answer is awaited or not yet handled.
InMemory(r) ==
  \/ r \in calls
  \/ thread[First(r)].step # "none"
  \/ \E response \in Responses : <<First(r), response>> \in callbacks

\* The process dies and starts again: onCreate calls reUpload.
Restart ==
  /\ crashes < MaxCrashes /\ Len(rows) <= MaxQueue
  /\ crashes' = crashes + 1
  /\ lost' = lost \cup {r \in produced : InMemory(r)}
  /\ calls' = {} /\ callbacks' = {}
  /\ thread' = [j \in Jobs |-> NoThread]
  /\ in' = [u \in Utils |-> None] /\ answer' = [j \in Jobs |-> "end"]
  /\ queue' = rows
  /\ UNCHANGED <<produced, rows, mistaken, server, reliable>>

\* Nobody is on record any more: getKeeper() is null, in the callback of a patrol record
\* before it says anything of an answer "true", and in both after they have said that
\* the offline data was saved.
RespondThrows(r, response, says) ==
  /\ <<First(r), response>> \in callbacks
  /\ said' = [said EXCEPT ![r] = says]
  /\ Restart

\* checkRecord looks at the answer (so does unknownPeople), OpenDoor does not.
CheckResponse(r) ==
  /\ r \in Checks
  /\ \/ Respond(r, "true", "uploaded")
     \/ RespondThrows(r, "true", "")
     \/ Respond(r, "other", "failed")
     \/ Respond(r, "null", "saved")
     \/ RespondThrows(r, "null", "saved")

OpenResponse(r) ==
  /\ r \in Opens
  /\ \/ \E response \in {"true", "other"} : Respond(r, response, "uploaded")
     \/ Respond(r, "null", "saved")
     \/ RespondThrows(r, "null", "saved")

-----------------------------------------------------------------------------
(* closeDoor and alarm: Retrofit calls, with a row on an error.            *)

GeneralUpdata(r) ==
  /\ r \in Calls
  /\ Produce(r)
  /\ calls' = calls \cup {r}
  /\ UNCHANGED <<sending, callbacks, queue, rows, mistaken, said, server, fate>>

OnNext(r) ==
  /\ r \in calls
  /\ \E a \in Answers : ServerGets(First(r), a)
  /\ calls' = calls \ {r}
  /\ UNCHANGED <<produced, sending, callbacks, queue, rows, mistaken, said, fate>>

\* Mutant: an error is ignored, as it is for temHum.
OnError_NoRow(r) ==
  /\ r \in calls /\ ~reliable
  /\ calls' = calls \ {r}
  /\ UNCHANGED <<produced, sending, callbacks, queue, rows, mistaken, said, server, fate>>

OnError(r) ==
  /\ r \in calls /\ ~reliable
  /\ ServerGets(First(r), "true") \/ ServerGets(First(r), "other") \/ UNCHANGED server
  /\ calls' = calls \ {r}
  /\ rows' = Append(rows, r)
  /\ UNCHANGED <<produced, sending, callbacks, queue, mistaken, said, fate>>

-----------------------------------------------------------------------------
(* reUpload: every row becomes a task of the single thread; a row is       *)
(* deleted on the answer "true".                                           *)

SingleIdle == \A r \in Records : thread[Again(r)].step = "none"

\* Mutant: each row is posted by a thread of its own, like the records.
post_SingleThread_Many ==
  /\ queue # <<>>
  /\ thread[Again(Head(queue))].step = "none"
  /\ thread' = [thread EXCEPT ![Again(Head(queue))].step = "connect"]
  /\ queue' = Tail(queue)
  /\ UNCHANGED <<produced, calls, in, answer, callbacks, rows, mistaken, said, server, fate>>

post_SingleThread ==
  /\ queue # <<>> /\ SingleIdle
  /\ thread' = [thread EXCEPT ![Again(Head(queue))].step = "connect"]
  /\ queue' = Tail(queue)
  /\ UNCHANGED <<produced, calls, in, answer, callbacks, rows, mistaken, said, server, fate>>

\* Mutant: an answer that does not come saves the row once more.
RowResponse_Again(r) ==
  /\ <<Again(r), "null">> \in callbacks
  /\ callbacks' = callbacks \ {<<Again(r), "null">>}
  /\ rows' = Append(rows, r)
  /\ UNCHANGED <<produced, calls, sending, queue, mistaken, said, server, fate>>

\* The row is deleted, if an earlier answer has not done so.
Delete(r) ==
  \/ \E i \in DOMAIN rows : rows[i] = r /\ rows' = RemoveAt(rows, i)
  \/ r \notin ToSet(rows) /\ UNCHANGED rows

RowResponse(r) ==
  /\ \E response \in Responses :
       /\ <<Again(r), response>> \in callbacks
       /\ callbacks' = callbacks \ {<<Again(r), response>>}
       /\ IF response = "true" THEN Delete(r) ELSE UNCHANGED rows
  /\ UNCHANGED <<produced, calls, sending, queue, mistaken, said, server, fate>>

\* Mutant: the timer only updates and synchronises.
DailyTimer_NoReUpload == FALSE /\ UNCHANGED vars

\* The daily timer, while rows of the last time may still be waiting.
DailyTimer ==
  /\ rows # <<>>
  /\ Len(queue) + Len(rows) <= MaxQueue
  /\ queue' = queue \o rows
  /\ UNCHANGED <<produced, calls, sending, callbacks, rows, mistaken, said, server, fate>>

-----------------------------------------------------------------------------
\* The process dies of anything else.
CrashAndStart == Restart /\ UNCHANGED said

NetworkRecovers ==
  /\ Recovers /\ ~reliable /\ reliable' = TRUE
  /\ UNCHANGED <<produced, calls, sending, callbacks, queue, rows, mistaken, said, server, lost,
                 crashes>>

Send(j) == Connected(j) \/ ConnectFails(j) \/ ReadLine(j) \/ ReadFails(j)
Respondent(r) == CheckResponse(r) \/ OpenResponse(r) \/ RowResponse(r)
SingleThread == post_SingleThread \/ \E r \in Records : Send(Again(r))
MainThread == \E r \in Records : Respondent(r)

Next ==
  \/ \E r \in Records : post(r) \/ GeneralUpdata(r) \/ OnNext(r) \/ OnError(r) \/ Respondent(r)
  \/ \E j \in Jobs : Send(j)
  \/ post_SingleThread \/ DailyTimer \/ CrashAndStart \/ NetworkRecovers

Spec == Init /\ [][Next]_vars

\* Each thread of a post, the single thread and the main thread run, requests end within
\* their timeouts, and the timer fires every day.
FairSpec ==
  /\ Spec
  /\ \A r \in Opens \cup Checks : WF_vars(Send(First(r)))
  /\ WF_vars(SingleThread) /\ WF_vars(MainThread) /\ WF_vars(DailyTimer)

-----------------------------------------------------------------------------
(* Properties.                                                             *)

Stored(r) == r \in ToSet(rows)

\* HebeiMainActivity.OpenDoor, checkRecord, HeBeiService.CloseDoorRecord: no record gets
\* lost between the answer and the row; only a death of the process while the record is
\* in memory loses one, or a row that was built of other people than the record.
NothingForgotten ==
  \A r \in produced :
    r \in received \/ Stored(r) \/ InMemory(r) \/ r \in lost \/ r \in mistaken

\* "离线数据已保存": if the process outlives the saying of it, the row it speaks of is kept
\* until the server has accepted that very row, through crashes and whatever other posts
\* are answered.  (That the row is the record is not promised: see mistaken.)
SavedIsKept ==
  \A r \in Records : said[r] = "saved" /\ r \notin lost => Stored(r) \/ r \in accepted

\* What becomes of a record from its first post to the deletion of its row.
UploadInv == TypeOK /\ NothingForgotten /\ SavedIsKept

\* reUpload: once the network and the server work, every row is delivered and deleted,
\* and the table stays empty.
RowsDrain == reliable ~> [](rows = <<>>)

-----------------------------------------------------------------------------
(***************************************************************************)
(* The inductive invariant: a record has one first attempt, and gets its   *)
(* row when that is over (OneAttempt); an answer other than null means the *)
(* server has the record (Answered); and the single thread, alone at its   *)
(* field "in", reads the answer to its own row (OwnStream).                *)
(***************************************************************************)
Known ==
  /\ ToSet(rows) \subseteq produced /\ ToSet(queue) \subseteq produced
  /\ \A j \in Jobs : thread[j].step # "none" => j[1] \in produced

Posted(r) == \E response \in Responses : <<First(r), response>> \in callbacks
OneAttempt ==
  \A r \in Records :
    /\ InMemory(r) => r \in produced /\ ~Stored(r)
    /\ thread[First(r)].step # "none" => r \notin Calls /\ ~Posted(r)
    /\ Posted(r) => r \notin Calls
    /\ \A a, b \in Responses :
         {<<First(r), a>>, <<First(r), b>>} \subseteq callbacks => a = b

Answered ==
  /\ \A j \in Jobs : Util(j) = "activity" /\ thread[j].step = "read" => j[1] \in received
  /\ \A r \in Records, response \in {"true", "other"} :
       <<First(r), response>> \in callbacks => r \in received

OwnStream ==
  /\ \A r, q \in Records :
       thread[Again(r)].step # "none" /\ thread[Again(q)].step # "none" => r = q
  /\ \A j \in Jobs :
       /\ thread[j].step = "read" => in[Util(j)] \in Jobs
       /\ Util(j) = "service" =>
            /\ thread[j].step = "read" => in["service"] = j
            /\ answer[j] = "true" => j[1] \in accepted
            /\ thread[j].response = "true" => j[1] \in accepted
            /\ <<j, "true">> \in callbacks => j[1] \in accepted

IInv == UploadInv /\ Known /\ OneAttempt /\ Answered /\ OwnStream
=============================================================================
