---------------------------- MODULE Upload_proofs ----------------------------
(***************************************************************************)
(* Machine-checked proofs about Upload, for any records, rows, queues and  *)
(* crashes, on any network.                                                *)
(***************************************************************************)
EXTENDS Upload, TLAPS

-----------------------------------------------------------------------------
(* The table and the queue as sequences.                                   *)

LEMMA AppendRow ==
  ASSUME NEW s \in Seq(Records), NEW r \in Records
  PROVE  /\ Append(s, r) \in Seq(Records)
         /\ ToSet(Append(s, r)) = ToSet(s) \cup {r}
         /\ IsInjective(s) /\ r \notin ToSet(s) => IsInjective(Append(s, r))
<1>1. /\ DOMAIN Append(s, r) = 1..(Len(s) + 1) /\ DOMAIN s = 1..Len(s)
      /\ \A i \in 1..Len(s) : Append(s, r)[i] = s[i]
      /\ Append(s, r)[Len(s) + 1] = r
      /\ Len(s) \in Nat
  OBVIOUS
<1>2. ToSet(Append(s, r)) = ToSet(s) \cup {r}
  BY <1>1 DEF ToSet
<1>3. IsInjective(s) /\ r \notin ToSet(s) => IsInjective(Append(s, r))
  BY <1>1 DEF ToSet, IsInjective
<1> QED
  BY <1>2, <1>3

LEMMA RemoveRow ==
  ASSUME NEW s \in Seq(Records), NEW i \in DOMAIN s, IsInjective(s)
  PROVE  /\ RemoveAt(s, i) \in Seq(Records)
         /\ IsInjective(RemoveAt(s, i))
         /\ ToSet(RemoveAt(s, i)) = ToSet(s) \ {s[i]}
<1> DEFINE t == RemoveAt(s, i)
<1>1. DOMAIN s = 1..Len(s) /\ i \in 1..Len(s) /\ Len(s) \in Nat
  OBVIOUS
<1>2. t \in Seq(Records) /\ Len(t) = Len(s) - 1
  BY <1>1 DEF RemoveAt
<1>3. \A k \in 1..(Len(s) - 1) : t[k] = IF k < i THEN s[k] ELSE s[k + 1]
  <2>1. /\ SubSeq(s, 1, i - 1) \in Seq(Records) /\ Len(SubSeq(s, 1, i - 1)) = i - 1
        /\ \A k \in 1..(i - 1) : SubSeq(s, 1, i - 1)[k] = s[k]
    BY <1>1
  <2>2. /\ SubSeq(s, i + 1, Len(s)) \in Seq(Records)
        /\ Len(SubSeq(s, i + 1, Len(s))) = Len(s) - i
        /\ \A k \in 1..(Len(s) - i) : SubSeq(s, i + 1, Len(s))[k] = s[i + k]
    BY <1>1
  <2> DEFINE a == SubSeq(s, 1, i - 1)
             b == SubSeq(s, i + 1, Len(s))
  <2>3. t = a \o b
    BY DEF RemoveAt
  <2> HIDE DEF a, b, t
  <2>4. \A k \in 1..(Len(a) + Len(b)) : (a \o b)[k] = IF k <= Len(a) THEN a[k] ELSE b[k - Len(a)]
    BY <2>1, <2>2 DEF a, b
  <2>5. Len(a) = i - 1 /\ Len(b) = Len(s) - i
    BY <2>1, <2>2 DEF a, b
  <2> SUFFICES ASSUME NEW k \in 1..(Len(s) - 1)
               PROVE  t[k] = IF k < i THEN s[k] ELSE s[k + 1]
    OBVIOUS
  <2>6. t[k] = IF k <= i - 1 THEN a[k] ELSE b[k - (i - 1)]
    BY <1>1, <2>3, <2>4, <2>5
  <2>7. CASE k < i
    BY <1>1, <2>1, <2>6, <2>7 DEF a
  <2>8. CASE k >= i
    <3>1. k - (i - 1) \in 1..(Len(s) - i) /\ i + (k - (i - 1)) = k + 1
      BY <1>1, <2>8
    <3>2. b[k - (i - 1)] = s[k + 1]
      BY <2>2, <3>1 DEF b
    <3> QED
      BY <1>1, <2>6, <2>8, <3>2
  <2> QED
    BY <1>1, <2>7, <2>8
<1>4. DOMAIN t = 1..(Len(s) - 1)
  BY <1>2
<1> HIDE DEF t
<1>5. IsInjective(t)
  BY <1>1, <1>3, <1>4 DEF IsInjective
<1>6. ToSet(t) \subseteq ToSet(s) \ {s[i]}
  BY <1>1, <1>3, <1>4 DEF ToSet, IsInjective
<1>7. ToSet(s) \ {s[i]} \subseteq ToSet(t)
  <2> SUFFICES ASSUME NEW k \in 1..Len(s), k # i PROVE s[k] \in ToSet(t)
    BY <1>1 DEF ToSet
  <2>1. CASE k < i
    BY <1>1, <1>3, <1>4, <2>1 DEF ToSet
  <2>2. CASE k > i
    <3>1. k - 1 \in DOMAIN t /\ t[k - 1] = s[k]
      BY <1>1, <1>3, <1>4, <2>2
    <3> QED
      BY <3>1 DEF ToSet
  <2> QED
    BY <1>1, <2>1, <2>2
<1> QED
  BY <1>2, <1>5, <1>6, <1>7 DEF t

LEMMA QueueParts ==
  ASSUME NEW s \in Seq(Records)
  PROVE  /\ s # <<>> => /\ Head(s) \in ToSet(s) /\ Head(s) \in Records
                        /\ Tail(s) \in Seq(Records) /\ Len(Tail(s)) = Len(s) - 1
                        /\ ToSet(Tail(s)) \subseteq ToSet(s)
         /\ \A q \in Seq(Records) : /\ s \o q \in Seq(Records)
                                    /\ Len(s \o q) = Len(s) + Len(q)
                                    /\ ToSet(s \o q) \subseteq ToSet(s) \cup ToSet(q)
<1>1. ASSUME s # <<>>
      PROVE  /\ Head(s) \in ToSet(s) /\ Head(s) \in Records
             /\ Tail(s) \in Seq(Records) /\ Len(Tail(s)) = Len(s) - 1
             /\ ToSet(Tail(s)) \subseteq ToSet(s)
  <2>1. /\ Len(s) \in Nat \ {0} /\ DOMAIN s = 1..Len(s) /\ Head(s) = s[1]
        /\ Tail(s) \in Seq(Records) /\ Len(Tail(s)) = Len(s) - 1
    BY <1>1
  <2>2. DOMAIN Tail(s) = 1..(Len(s) - 1) /\ \A i \in 1..(Len(s) - 1) : Tail(s)[i] = s[i + 1]
    BY <1>1, <2>1
  <2>3. ToSet(Tail(s)) \subseteq ToSet(s)
    BY <2>1, <2>2 DEF ToSet
  <2>4. Head(s) \in ToSet(s) /\ Head(s) \in Records
    BY <2>1 DEF ToSet
  <2> QED
    BY <2>1, <2>3, <2>4
<1>2. ASSUME NEW q \in Seq(Records)
      PROVE  /\ s \o q \in Seq(Records)
             /\ Len(s \o q) = Len(s) + Len(q)
             /\ ToSet(s \o q) \subseteq ToSet(s) \cup ToSet(q)
  <2>1. /\ s \o q \in Seq(Records) /\ Len(s \o q) = Len(s) + Len(q)
        /\ Len(s) \in Nat /\ Len(q) \in Nat
        /\ DOMAIN s = 1..Len(s) /\ DOMAIN q = 1..Len(q)
    OBVIOUS
  <2>2. /\ DOMAIN (s \o q) = 1..(Len(s) + Len(q))
        /\ \A i \in 1..(Len(s) + Len(q)) :
             (s \o q)[i] = IF i <= Len(s) THEN s[i] ELSE q[i - Len(s)]
    BY <2>1
  <2>3. ASSUME NEW i \in 1..(Len(s) + Len(q))
        PROVE  (s \o q)[i] \in ToSet(s) \cup ToSet(q)
    <3>1. CASE i <= Len(s)
      BY <2>1, <2>2, <3>1 DEF ToSet
    <3>2. CASE i > Len(s)
      <4>1. i - Len(s) \in DOMAIN q /\ (s \o q)[i] = q[i - Len(s)]
        BY <2>1, <2>2, <3>2
      <4> QED
        BY <4>1 DEF ToSet
    <3> QED
      BY <2>1, <3>1, <3>2
  <2> QED
    BY <2>1, <2>2, <2>3 DEF ToSet
<1> QED
  BY <1>1, <1>2

-----------------------------------------------------------------------------
(* What the parts of the actions do.                                       *)

LEMMA JobParts ==
  /\ \A r \in Records : /\ First(r) \in Jobs /\ First(r)[1] = r /\ Util(First(r)) = "activity"
                        /\ Again(r) \in Jobs /\ Again(r)[1] = r /\ Util(Again(r)) = "service"
  /\ \A j \in Jobs : /\ j[1] \in Records /\ Util(j) \in Utils
                     /\ \/ Util(j) = "activity" /\ j = First(j[1])
                        \/ Util(j) = "service" /\ j = Again(j[1])
  /\ \A q, r \in Records : First(q) # Again(r)
<1>1. \A r \in Records : /\ First(r) \in Jobs /\ First(r)[1] = r /\ Util(First(r)) = "activity"
                         /\ Again(r) \in Jobs /\ Again(r)[1] = r /\ Util(Again(r)) = "service"
  BY DEF Jobs, Utils, Util, First, Again
<1>2. ASSUME NEW j \in Jobs
      PROVE  /\ j[1] \in Records /\ Util(j) \in Utils
             /\ \/ Util(j) = "activity" /\ j = First(j[1])
                \/ Util(j) = "service" /\ j = Again(j[1])
  <2>1. PICK r \in Records, u \in Utils : j = <<r, u>>
    BY DEF Jobs
  <2>2. j[1] = r /\ Util(j) = u
    BY <2>1 DEF Util
  <2>3. CASE u = "activity"
    <3>1. j = First(r)
      BY <2>1, <2>3 DEF First
    <3> QED
      BY <2>2, <2>3, <3>1 DEF Utils
  <2>4. CASE u = "service"
    <3>1. j = Again(r)
      BY <2>1, <2>4 DEF Again
    <3> QED
      BY <2>2, <2>4, <3>1 DEF Utils
  <2> QED
    BY <2>3, <2>4 DEF Utils
<1>3. \A q, r \in Records : First(q) # Again(r)
  BY DEF First, Again
<1> QED
  BY <1>1, <1>2, <1>3

LEMMA ServerGrows ==
  ASSUME TypeOK, NEW j \in Jobs, j[1] \in produced, NEW a,
         ServerGets(j, a)
  PROVE  /\ received \subseteq received' /\ accepted \subseteq accepted'
         /\ Util(j) = "activity" => j[1] \in received'
         /\ Util(j) = "service" /\ a = "true" => j[1] \in accepted'
         /\ accepted' \subseteq received' \cup mistaken /\ received' \subseteq produced
<1>1. Util(j) = "activity" => j # Again(j[1])
  BY JobParts
<1>2. Util(j) = "service" => j = Again(j[1])
  BY JobParts
<1> QED
  BY <1>1, <1>2 DEF TypeOK, ServerGets

LEMMA ReturnsFacts ==
  ASSUME TypeOK, NEW j \in Jobs, NEW response \in Responses, Returns(j, response)
  PROVE  /\ thread' \in [Jobs -> [step : {"none", "connect", "read"}, response : Responses]]
         /\ in' \in [Utils -> Jobs \cup {None}]
         /\ answer' \in [Jobs -> {"true", "other", "end"}]
         /\ callbacks' \subseteq Jobs \X Responses
         /\ thread'[j] = NoThread
         /\ \A k \in Jobs : k # j => thread'[k] = thread[k]
         /\ \A k \in Jobs : answer'[k] \in {answer[k], "end"}
         /\ callbacks' = callbacks \cup {<<j, response>>}
         /\ \A k \in Jobs : k # j /\ thread[k].step = "read" => in'[Util(k)] = in[Util(k)]
<1>1. NoThread \in [step : {"none", "connect", "read"}, response : Responses]
  BY DEF NoThread, Responses
<1>2. /\ thread' \in [Jobs -> [step : {"none", "connect", "read"}, response : Responses]]
      /\ thread'[j] = NoThread /\ \A k \in Jobs : k # j => thread'[k] = thread[k]
  BY <1>1 DEF TypeOK, Returns
<1>3. callbacks' = callbacks \cup {<<j, response>>} /\ callbacks' \subseteq Jobs \X Responses
  <2>1. callbacks' = callbacks \cup {<<j, response>>}
    BY DEF Returns
  <2>2. callbacks \subseteq Jobs \X Responses
    BY DEF TypeOK
  <2> QED
    BY <2>1, <2>2
<1>4. /\ in' \in [Utils -> Jobs \cup {None}]
      /\ answer' \in [Jobs -> {"true", "other", "end"}]
      /\ \A k \in Jobs : answer'[k] \in {answer[k], "end"}
  <2>1. CASE Readers(Util(j)) \subseteq {j}
    <3>1. in' = [in EXCEPT ![Util(j)] = None]
      BY <2>1 DEF Returns
    <3>2. answer' = [k \in Jobs |-> IF Util(k) = Util(j) THEN "end" ELSE answer[k]]
      BY <2>1 DEF Returns
    <3>3. in' \in [Utils -> Jobs \cup {None}]
      BY <3>1, JobParts DEF TypeOK
    <3>4. answer' \in [Jobs -> {"true", "other", "end"}]
      BY <3>2 DEF TypeOK
    <3>5. \A k \in Jobs : answer'[k] \in {answer[k], "end"}
      BY <3>2
    <3> QED
      BY <3>3, <3>4, <3>5
  <2>2. CASE ~(Readers(Util(j)) \subseteq {j})
    <3>1. in' = in /\ answer' = answer
      BY <2>2 DEF Returns
    <3> QED
      BY <3>1 DEF TypeOK
  <2> QED
    BY <2>1, <2>2
<1>5. \A k \in Jobs : k # j /\ thread[k].step = "read" => in'[Util(k)] = in[Util(k)]
  BY JobParts DEF TypeOK, Returns, Readers
<1> QED
  BY <1>2, <1>3, <1>4, <1>5

-----------------------------------------------------------------------------
(* Each action preserves the invariant.                                    *)

LEMMA InitIInv == Init => IInv
<1> SUFFICES ASSUME Init PROVE IInv
  OBVIOUS
<1>1. /\ ToSet(<<>>) = {} /\ IsInjective(<<>>)
  BY DEF ToSet, IsInjective
<1>2. TypeOK
  <2>1. NoThread \in [step : {"none", "connect", "read"}, response : Responses]
    BY DEF NoThread, Responses
  <2>2. /\ thread \in [Jobs -> [step : {"none", "connect", "read"}, response : Responses]]
        /\ in \in [Utils -> Jobs \cup {None}] /\ answer \in [Jobs -> {"true", "other", "end"}]
        /\ said \in [Records -> {"", "uploaded", "failed", "saved"}]
    BY <2>1 DEF Init
  <2>3. /\ queue \in Seq(Records) /\ Len(queue) <= MaxQueue
        /\ rows \in Seq(Records) /\ IsInjective(rows) /\ crashes \in 0..MaxCrashes
    <3>1. queue = <<>> /\ rows = <<>> /\ crashes = 0 /\ Len(<<>>) = 0
      BY DEF Init
    <3>2. <<>> \in Seq(Records)
      OBVIOUS
    <3> QED
      BY <1>1, <3>1, <3>2, UploadAssumption
  <2>4. /\ produced \subseteq Records /\ calls \subseteq produced \cap Calls
        /\ callbacks \subseteq Jobs \X Responses /\ mistaken \subseteq produced \ Calls
        /\ accepted \subseteq received \cup mistaken
        /\ received \subseteq produced /\ reliable \in BOOLEAN /\ lost \subseteq produced
    BY DEF Init
  <2> QED
    BY <2>2, <2>3, <2>4 DEF TypeOK
<1>3. \A j \in Jobs : thread[j] = NoThread /\ answer[j] = "end"
  BY DEF Init
<1>4. Known /\ OneAttempt /\ Answered /\ OwnStream
  BY <1>1, <1>3, JobParts
     DEF Init, Known, OneAttempt, Answered, OwnStream, InMemory, Posted, Stored, NoThread
<1>5. NothingForgotten /\ SavedIsKept
  BY DEF Init, NothingForgotten, SavedIsKept
<1> QED
  BY <1>2, <1>4, <1>5 DEF IInv, UploadInv

LEMMA SameAttempts ==
  ASSUME OneAttempt, produced' = produced, callbacks' = callbacks,
         \A q \in Records : /\ InMemory(q)' <=> InMemory(q)
                            /\ Posted(q)' <=> Posted(q)
                            /\ Stored(q)' <=> Stored(q)
                            /\ thread'[First(q)].step # "none"
                                 => thread[First(q)].step # "none"
  PROVE  OneAttempt'
<1> SUFFICES ASSUME NEW q \in Records
    PROVE /\ InMemory(q)' => q \in produced' /\ ~Stored(q)'
          /\ thread'[First(q)].step # "none" => q \notin Calls /\ ~Posted(q)'
          /\ Posted(q)' => q \notin Calls
          /\ \A a, b \in Responses :
               {<<First(q), a>>, <<First(q), b>>} \subseteq callbacks' => a = b
  BY DEF OneAttempt
<1>1. InMemory(q)' => q \in produced' /\ ~Stored(q)'
  BY DEF OneAttempt
<1>2. thread'[First(q)].step # "none" => q \notin Calls /\ ~Posted(q)'
  BY DEF OneAttempt
<1>3. Posted(q)' => q \notin Calls
  BY DEF OneAttempt
<1>4. \A a, b \in Responses :
        {<<First(q), a>>, <<First(q), b>>} \subseteq callbacks' => a = b
  BY DEF OneAttempt
<1> QED
  BY <1>1, <1>2, <1>3, <1>4

LEMMA PostKeeps ==
  ASSUME IInv, NEW r \in Records, post(r)
  PROVE  IInv'
<1> USE DEF IInv, UploadInv
<1>1. r \notin produced /\ produced' = produced \cup {r} /\ r \notin Calls
  BY UploadAssumption DEF post, Produce
<1>2. ~InMemory(r) /\ ~Posted(r) /\ ~Stored(r)
  BY <1>1 DEF OneAttempt, Known, InMemory, Posted, Stored
<1> DEFINE p == First(r)
<1>3. p \in Jobs /\ thread' = [thread EXCEPT ![p].step = "connect"]
  BY JobParts DEF post
<1>4. /\ \A k \in Jobs : k # p => thread'[k] = thread[k]
      /\ thread'[p].step = "connect" /\ thread'[p].response = thread[p].response
      /\ thread' \in [Jobs -> [step : {"none", "connect", "read"}, response : Responses]]
  BY <1>3 DEF TypeOK
<1>5. /\ calls' = calls /\ in' = in /\ answer' = answer /\ callbacks' = callbacks
      /\ queue' = queue /\ rows' = rows /\ said' = said /\ mistaken' = mistaken
      /\ received' = received
      /\ accepted' = accepted /\ reliable' = reliable /\ lost' = lost /\ crashes' = crashes
  BY DEF post, server, fate
<1> HIDE DEF p
<1>6. TypeOK'
  BY <1>1, <1>4, <1>5 DEF TypeOK
<1>7. \A q \in Records : q # r => (InMemory(q)' <=> InMemory(q))
  <2>1. \A q \in Records : First(q) \in Jobs /\ First(q)[1] = q
    BY JobParts
  <2>2. \A q \in Records : q # r => First(q) # p
    BY <2>1 DEF p
  <2> QED
    BY <1>4, <1>5, <2>1, <2>2 DEF InMemory
<1>8. InMemory(r)'
  BY <1>4 DEF InMemory, p
<1>9. NothingForgotten' /\ SavedIsKept'
  BY <1>1, <1>5, <1>7, <1>8 DEF NothingForgotten, SavedIsKept, Stored, TypeOK
<1>10. Known'
  BY <1>1, <1>3, <1>4, <1>5, JobParts DEF Known, p
<1>11. OneAttempt'
  <2> SUFFICES ASSUME NEW q \in Records
      PROVE /\ InMemory(q)' => q \in produced' /\ ~Stored(q)'
            /\ thread'[First(q)].step # "none" => q \notin Calls /\ ~Posted(q)'
            /\ Posted(q)' => q \notin Calls
            /\ \A a, b \in Responses :
                 {<<First(q), a>>, <<First(q), b>>} \subseteq callbacks'
                   => a = b
    BY DEF OneAttempt
  <2>1. Posted(q)' <=> Posted(q)
    BY <1>5 DEF Posted
  <2>2. Stored(q)' <=> Stored(q)
    BY <1>5 DEF Stored
  <2> QED
    BY <1>1, <1>2, <1>4, <1>5, <1>7, <2>1, <2>2, JobParts DEF OneAttempt, p
<1>12. Answered'
  BY <1>4, <1>5 DEF Answered
<1>13. OwnStream'
  <2>1. \A q \in Records : Again(q) # p /\ Again(q) \in Jobs
    BY JobParts DEF p
  <2>2. \A q \in Records : thread'[Again(q)] = thread[Again(q)]
    BY <1>4, <2>1
  <2>3. \A k \in Jobs : /\ Util(k) = "service" => thread'[k] = thread[k]
                        /\ thread'[k].step = "read" => thread[k].step = "read"
    BY <1>4, JobParts DEF p, Util
  <2>4. \A k \in Jobs : thread'[k].step = "read" => in'[Util(k)] \in Jobs
    <3> SUFFICES ASSUME NEW k \in Jobs, thread'[k].step = "read" PROVE in'[Util(k)] \in Jobs
      OBVIOUS
    <3>1. thread[k].step = "read"
      BY <2>3
    <3>2. in[Util(k)] \in Jobs
      BY <3>1 DEF OwnStream
    <3> QED
      BY <1>5, <3>2
  <2>5. ASSUME NEW k \in Jobs, Util(k) = "service"
        PROVE  /\ thread'[k].step = "read" => in'["service"] = k
               /\ thread'[k].response = "true" => k[1] \in accepted'
               /\ <<k, "true">> \in callbacks' => k[1] \in accepted'
    <3>1. thread'[k] = thread[k]
      BY <2>3, <2>5
    <3>2. /\ thread[k].step = "read" => in["service"] = k
          /\ thread[k].response = "true" => k[1] \in accepted
          /\ <<k, "true">> \in callbacks => k[1] \in accepted
      BY <2>5 DEF OwnStream
    <3> QED
      BY <1>5, <3>1, <3>2
  <2>6. \A k \in Jobs : Util(k) = "service" /\ answer'[k] = "true" => k[1] \in accepted'
    BY <1>5 DEF OwnStream
  <2>7. \A q, s \in Records :
          thread'[Again(q)].step # "none" /\ thread'[Again(s)].step # "none" => q = s
    BY <2>2 DEF OwnStream
  <2> QED
    BY <2>4, <2>5, <2>6, <2>7 DEF OwnStream
<1> QED
  BY <1>6, <1>9, <1>10, <1>11, <1>12, <1>13

LEMMA GeneralUpdataKeeps ==
  ASSUME IInv, NEW r \in Records, GeneralUpdata(r)
  PROVE  IInv'
<1> USE DEF IInv, UploadInv
<1>1. r \notin produced /\ produced' = produced \cup {r} /\ r \in Calls /\ calls' = calls \cup {r}
  BY DEF GeneralUpdata, Produce
<1>2. ~InMemory(r) /\ ~Posted(r) /\ ~Stored(r)
  BY <1>1 DEF OneAttempt, Known, InMemory, Posted, Stored
<1>3. /\ thread' = thread /\ in' = in /\ answer' = answer /\ callbacks' = callbacks
      /\ queue' = queue /\ rows' = rows /\ said' = said /\ mistaken' = mistaken
      /\ received' = received
      /\ accepted' = accepted /\ reliable' = reliable /\ lost' = lost /\ crashes' = crashes
  BY DEF GeneralUpdata, sending, server, fate
<1>4. TypeOK'
  BY <1>1, <1>3 DEF TypeOK
<1>5. \A q \in Records : /\ q # r => (InMemory(q)' <=> InMemory(q))
                         /\ InMemory(r)'
                         /\ Posted(q)' <=> Posted(q)
                         /\ Stored(q)' <=> Stored(q)
  BY <1>1, <1>3 DEF InMemory, Posted, Stored
<1>6. NothingForgotten' /\ SavedIsKept'
  BY <1>1, <1>3, <1>5 DEF NothingForgotten, SavedIsKept, TypeOK
<1>7. Known'
  BY <1>1, <1>3 DEF Known
<1>8. OneAttempt'
  BY <1>1, <1>2, <1>3, <1>5 DEF OneAttempt
<1>9. Answered' /\ OwnStream'
  BY <1>3 DEF Answered, OwnStream
<1> QED
  BY <1>4, <1>6, <1>7, <1>8, <1>9

\* Nothing changes for the threads, their streams and the callbacks.
LEMMA CallEnds ==
  ASSUME IInv, NEW r \in calls,
         calls' = calls \ {r},
         UNCHANGED <<produced, sending, callbacks, queue, mistaken, said, fate>>,
         received \subseteq received', accepted \subseteq accepted',
         accepted' \subseteq received' \cup mistaken, received' \subseteq produced,
         \/ rows' = rows /\ r \in received'
         \/ rows' = Append(rows, r)
  PROVE  IInv'
<1> USE DEF IInv, UploadInv
<1>1. /\ r \in Records /\ r \in Calls /\ InMemory(r) /\ r \in produced /\ ~Stored(r)
      /\ rows \in Seq(Records) /\ IsInjective(rows)
  BY DEF TypeOK, OneAttempt, InMemory
<1>2. /\ thread' = thread /\ in' = in /\ answer' = answer /\ callbacks' = callbacks
      /\ queue' = queue /\ said' = said /\ mistaken' = mistaken /\ produced' = produced
      /\ reliable' = reliable /\ lost' = lost /\ crashes' = crashes
  BY DEF sending, fate
<1>3. /\ rows' \in Seq(Records) /\ IsInjective(rows)' /\ ToSet(rows) \subseteq ToSet(rows)'
      /\ ToSet(rows)' \subseteq ToSet(rows) \cup {r}
      /\ r \in received' \/ r \in ToSet(rows)'
  <2>1. CASE rows' = rows /\ r \in received'
    <3>1. ToSet(rows') = ToSet(rows) /\ IsInjective(rows') /\ rows' \in Seq(Records)
      BY <1>1, <2>1
    <3> QED
      BY <2>1, <3>1
  <2>2. CASE rows' = Append(rows, r)
    <3>1. /\ rows' \in Seq(Records) /\ IsInjective(rows')
          /\ ToSet(rows') = ToSet(rows) \cup {r}
      BY <1>1, <2>2, AppendRow DEF Stored
    <3> QED
      BY <3>1
  <2> QED
    BY <2>1, <2>2
<1>4. TypeOK'
  BY <1>2, <1>3 DEF TypeOK
<1>5. ~InMemory(r)'
  BY <1>1, <1>2 DEF InMemory, OneAttempt, Posted
<1>6. \A q \in Records : /\ q # r => (InMemory(q)' <=> InMemory(q)) /\ (Stored(q)' <=> Stored(q))
                         /\ Posted(q)' <=> Posted(q)
                         /\ Stored(q) => Stored(q)'
  BY <1>2, <1>3 DEF InMemory, Posted, Stored
<1>7. NothingForgotten'
  BY <1>2, <1>3, <1>6 DEF NothingForgotten, TypeOK, Stored
<1>8. SavedIsKept'
  BY <1>2, <1>6 DEF SavedIsKept
<1>9. Known'
  BY <1>1, <1>2, <1>3 DEF Known
<1>10. OneAttempt'
  <2> SUFFICES ASSUME NEW q \in Records
      PROVE /\ InMemory(q)' => q \in produced' /\ ~Stored(q)'
            /\ thread'[First(q)].step # "none" => q \notin Calls /\ ~Posted(q)'
            /\ Posted(q)' => q \notin Calls
            /\ \A a, b \in Responses :
                 {<<First(q), a>>, <<First(q), b>>} \subseteq callbacks'
                   => a = b
    BY DEF OneAttempt
  <2>1. InMemory(q)' => InMemory(q) /\ q # r
    BY <1>5, <1>6
  <2>2. InMemory(q)' => q \in produced' /\ ~Stored(q)'
    BY <1>2, <1>6, <2>1 DEF OneAttempt
  <2> QED
    BY <1>2, <1>6, <2>2 DEF OneAttempt
<1>11. Answered' /\ OwnStream'
  BY <1>2 DEF Answered, OwnStream
<1> QED
  BY <1>4, <1>7, <1>8, <1>9, <1>10, <1>11

LEMMA CallKeeps ==
  ASSUME IInv, NEW r \in Records, OnNext(r) \/ OnError(r)
  PROVE  IInv'
<1>1. /\ r \in calls /\ r \in produced /\ TypeOK
      /\ First(r) \in Jobs /\ First(r)[1] = r /\ Util(First(r)) = "activity"
  BY JobParts DEF OnNext, OnError, IInv, UploadInv, TypeOK
<1>2. CASE OnNext(r)
  <2>1. PICK a \in Answers : ServerGets(First(r), a)
    BY <1>2 DEF OnNext
  <2> QED
    BY <1>1, <1>2, <2>1, ServerGrows, CallEnds DEF OnNext
<1>3. CASE OnError(r)
  <2>1. /\ received \subseteq received' /\ accepted \subseteq accepted'
        /\ accepted' \subseteq received' \cup mistaken /\ received' \subseteq produced
    BY <1>1, <1>3, ServerGrows DEF OnError, server, TypeOK
  <2> QED
    BY <1>1, <1>3, <2>1, CallEnds DEF OnError
<1> QED
  BY <1>2, <1>3

\* A thread of either ServerConnectionUtil returns, whatever the server has got.
LEMMA ThreadEnds ==
  ASSUME IInv, NEW j \in Jobs, NEW response \in Responses, Returns(j, response),
         thread[j].step # "none",
         UNCHANGED <<produced, calls, queue, rows, mistaken, said, fate>>,
         received \subseteq received', accepted \subseteq accepted',
         accepted' \subseteq received' \cup mistaken, received' \subseteq produced,
         Util(j) = "activity" /\ response # "null" => j[1] \in received,
         Util(j) = "service" /\ response = "true" => j[1] \in accepted
  PROVE  IInv'
<1> USE DEF IInv, UploadInv
<1>1. /\ thread' \in [Jobs -> [step : {"none", "connect", "read"}, response : Responses]]
      /\ in' \in [Utils -> Jobs \cup {None}]
      /\ answer' \in [Jobs -> {"true", "other", "end"}]
      /\ callbacks' \subseteq Jobs \X Responses
      /\ thread'[j] = NoThread
      /\ \A k \in Jobs : k # j => thread'[k] = thread[k]
      /\ \A k \in Jobs : answer'[k] \in {answer[k], "end"}
      /\ callbacks' = callbacks \cup {<<j, response>>}
      /\ \A k \in Jobs : k # j /\ thread[k].step = "read" => in'[Util(k)] = in[Util(k)]
  BY ReturnsFacts
<1>2. thread'[j].step = "none" /\ thread'[j].response = "null"
  BY <1>1 DEF NoThread
<1>3. /\ produced' = produced /\ calls' = calls /\ queue' = queue /\ rows' = rows
      /\ said' = said /\ mistaken' = mistaken
      /\ reliable' = reliable /\ lost' = lost /\ crashes' = crashes
  BY DEF fate
<1>4. TypeOK'
  BY <1>1, <1>3 DEF TypeOK
<1>5. \A q \in Records : Stored(q)' <=> Stored(q)
  BY <1>3 DEF Stored
<1>6. ASSUME NEW q \in Records, First(q) # j
      PROVE  /\ thread'[First(q)] = thread[First(q)]
             /\ \A a \in Responses : <<First(q), a>> \in callbacks'
                                       <=> <<First(q), a>> \in callbacks
  BY <1>1, <1>6, JobParts
<1>7. ASSUME NEW q \in Records, First(q) # j
      PROVE  (InMemory(q)' <=> InMemory(q)) /\ (Posted(q)' <=> Posted(q))
  BY <1>3, <1>6, <1>7 DEF InMemory, Posted
<1>8. ASSUME NEW q \in Records, First(q) = j
      PROVE  /\ InMemory(q) /\ InMemory(q)'
             /\ q \notin Calls /\ ~Posted(q) /\ ~Stored(q)'
             /\ thread'[First(q)].step = "none"
             /\ \A a \in Responses : <<j, a>> \in callbacks' => a = response
  <2>1. InMemory(q) /\ q \notin Calls /\ ~Posted(q)
    BY <1>8 DEF InMemory, OneAttempt
  <2>2. InMemory(q)'
    BY <1>1, <1>8 DEF InMemory
  <2>3. ~Stored(q)'
    BY <1>5, <2>1 DEF OneAttempt
  <2>4. \A a \in Responses : <<j, a>> \in callbacks' => a = response
    BY <1>1, <1>8, <2>1 DEF Posted
  <2> QED
    BY <1>2, <1>8, <2>1, <2>2, <2>3, <2>4
<1>9. NothingForgotten'
  <2> SUFFICES ASSUME NEW q \in produced
      PROVE \/ q \in received' \/ Stored(q)' \/ InMemory(q)'
            \/ q \in lost' \/ q \in mistaken'
    BY <1>3 DEF NothingForgotten
  <2>1. q \in Records
    BY DEF TypeOK
  <2> QED
    BY <1>3, <1>5, <1>7, <1>8, <2>1 DEF NothingForgotten
<1>10. SavedIsKept'
  BY <1>3, <1>5 DEF SavedIsKept
<1>11. Known'
  BY <1>1, <1>2, <1>3 DEF Known
<1>12. OneAttempt'
  <2> SUFFICES ASSUME NEW q \in Records
      PROVE /\ InMemory(q)' => q \in produced' /\ ~Stored(q)'
            /\ thread'[First(q)].step # "none" => q \notin Calls /\ ~Posted(q)'
            /\ Posted(q)' => q \notin Calls
            /\ \A a, b \in Responses :
                 {<<First(q), a>>, <<First(q), b>>} \subseteq callbacks'
                   => a = b
    BY DEF OneAttempt
  <2>1. CASE First(q) = j
    <3>1. q \in produced'
      BY <1>3, <1>8, <2>1 DEF OneAttempt
    <3> QED
      BY <1>8, <2>1, <3>1
  <2>2. CASE First(q) # j
    <3>1. /\ InMemory(q)' => q \in produced' /\ ~Stored(q)'
      BY <1>3, <1>5, <1>7, <2>2 DEF OneAttempt
    <3>2. /\ thread'[First(q)].step # "none" => q \notin Calls /\ ~Posted(q)'
          /\ Posted(q)' => q \notin Calls
      BY <1>6, <1>7, <2>2 DEF OneAttempt
    <3>3. \A a, b \in Responses :
            {<<First(q), a>>, <<First(q), b>>} \subseteq callbacks' => a = b
      BY <1>6, <2>2 DEF OneAttempt
    <3> QED
      BY <3>1, <3>2, <3>3
  <2> QED
    BY <2>1, <2>2
<1>13. Answered'
  <2>1. \A k \in Jobs :
          Util(k) = "activity" /\ thread'[k].step = "read" => k[1] \in received'
    BY <1>1, <1>2 DEF Answered
  <2>2. ASSUME NEW q \in Records, NEW a \in {"true", "other"},
               <<First(q), a>> \in callbacks'
        PROVE  q \in received'
    <3>1. a \in Responses
      BY DEF Responses
    <3>2. CASE First(q) # j
      BY <1>6, <2>2, <3>1, <3>2 DEF Answered
    <3>3. CASE First(q) = j
      <4>1. a = response /\ j[1] = q /\ Util(j) = "activity"
        BY <1>8, <2>2, <3>1, <3>3, JobParts
      <4> QED
        BY <4>1
    <3> QED
      BY <3>2, <3>3
  <2> QED
    BY <2>1, <2>2 DEF Answered
<1>14. OwnStream'
  <2>1. \A k \in Jobs : thread'[k].step # "none" =>
                          thread[k].step # "none" /\ thread'[k] = thread[k] /\ k # j
    BY <1>1, <1>2
  <2>2. \A r, q \in Records :
          thread'[Again(r)].step # "none" /\ thread'[Again(q)].step # "none"
            => r = q
    BY <2>1, JobParts DEF OwnStream
  <2>3. ASSUME NEW k \in Jobs
        PROVE  /\ thread'[k].step = "read" => in'[Util(k)] \in Jobs
               /\ Util(k) = "service" /\ answer'[k] = "true" => k[1] \in accepted'
    BY <1>1, <2>1 DEF OwnStream
  <2>4. ASSUME NEW k \in Jobs, Util(k) = "service"
        PROVE  /\ thread'[k].step = "read" => in'["service"] = k
               /\ thread'[k].response = "true" => k[1] \in accepted'
               /\ <<k, "true">> \in callbacks' => k[1] \in accepted'
    <3>1. thread'[k].step = "read" => in'["service"] = k
      <4> SUFFICES ASSUME thread'[k].step = "read" PROVE in'["service"] = k
        OBVIOUS
      <4>1. thread[k].step = "read" /\ k # j
        BY <2>1
      <4>2. in'[Util(k)] = in[Util(k)]
        BY <1>1, <4>1
      <4>3. in["service"] = k
        BY <2>4, <4>1 DEF OwnStream
      <4> QED
        BY <2>4, <4>2, <4>3
    <3>2. thread'[k].response = "true" => k[1] \in accepted'
      BY <1>1, <1>2, <2>4 DEF OwnStream
    <3>3. <<k, "true">> \in callbacks' => k[1] \in accepted'
      BY <1>1, <2>4 DEF OwnStream
    <3> QED
      BY <3>1, <3>2, <3>3
  <2> QED
    BY <2>2, <2>3, <2>4 DEF OwnStream
<1> QED
  BY <1>4, <1>9, <1>10, <1>11, <1>12, <1>13, <1>14

LEMMA ReadsResponse ==
  ASSUME IInv, NEW j \in Jobs, thread[j].step = "read"
  PROVE  /\ thread[j].response \in Responses
         /\ Util(j) = "activity" => j[1] \in received
         /\ Util(j) = "service" /\ thread[j].response = "true" => j[1] \in accepted
  BY DEF IInv, UploadInv, TypeOK, Answered, OwnStream

LEMMA SendEndsKeep ==
  ASSUME IInv, NEW j \in Jobs,
         \/ ConnectFails(j)
         \/ ReadFails(j)
         \/ ReadLine(j) /\ answer[in[Util(j)]] = "end"
  PROVE  IInv'
<1>1. TypeOK /\ (thread[j].step # "none" => j[1] \in produced)
  BY DEF IInv, UploadInv, Known
<1>2. CASE ConnectFails(j)
  <2>1. thread[j].step # "none" /\ j[1] \in produced
    BY <1>1, <1>2 DEF ConnectFails
  <2>2. /\ received \subseteq received' /\ accepted \subseteq accepted'
        /\ accepted' \subseteq received' \cup mistaken /\ received' \subseteq produced
    BY <1>1, <1>2, <2>1, ServerGrows DEF ConnectFails, server, TypeOK
  <2>3. Returns(j, "null") /\ "null" \in Responses
    BY <1>2 DEF ConnectFails, Responses
  <2>4. UNCHANGED <<produced, calls, queue, rows, mistaken, said, fate>>
    BY <1>2 DEF ConnectFails
  <2> QED
    BY <2>1, <2>2, <2>3, <2>4, ThreadEnds
<1>3. CASE ReadFails(j) \/ (ReadLine(j) /\ answer[in[Util(j)]] = "end")
  <2>1. /\ thread[j].step = "read" /\ Returns(j, thread[j].response)
        /\ UNCHANGED <<produced, calls, queue, rows, mistaken, said, server, fate>>
    BY <1>3 DEF ReadFails, ReadLine
  <2>2. /\ received' = received /\ accepted' = accepted
        /\ accepted \subseteq received \cup mistaken /\ received \subseteq produced
    BY <1>1, <2>1 DEF server, TypeOK
  <2>3. thread[j].step # "none" /\ UNCHANGED <<produced, calls, queue, rows, mistaken, said, fate>>
    BY <2>1
  <2> QED
    BY <2>1, <2>2, <2>3, ThreadEnds, ReadsResponse
<1> QED
  BY <1>2, <1>3

LEMMA ConnectedKeeps ==
  ASSUME IInv, NEW j \in Jobs, Connected(j)
  PROVE  IInv'
<1> USE DEF IInv, UploadInv
<1>1. PICK a \in Answers : ServerGets(j, a) /\ answer' = [answer EXCEPT ![j] = a]
  BY DEF Connected
<1>2. a \in {"true", "other"}
  BY DEF Answers
<1>3. thread[j].step = "connect" /\ j[1] \in produced /\ j[1] \in Records
  BY JobParts DEF Connected, Known
<1>4. /\ received \subseteq received' /\ accepted \subseteq accepted' 
      /\ Util(j) = "activity" => j[1] \in received'
      /\ Util(j) = "service" /\ a = "true" => j[1] \in accepted'
      /\ accepted' \subseteq received' \cup mistaken /\ received' \subseteq produced
  BY <1>1, <1>3, ServerGrows
<1>5. /\ thread' \in [Jobs -> [step : {"none", "connect", "read"}, response : Responses]]
      /\ thread'[j].step = "read" /\ thread'[j].response = thread[j].response
      /\ \A k \in Jobs : k # j => thread'[k] = thread[k]
  BY DEF Connected, TypeOK
<1>6. /\ in' \in [Utils -> Jobs \cup {None}]
      /\ in'[Util(j)] = j
      /\ \A u \in Utils : u # Util(j) => in'[u] = in[u]
  <2>1. Util(j) \in Utils
    BY JobParts
  <2> QED
    BY <2>1 DEF Connected, TypeOK
<1>7. /\ answer' \in [Jobs -> {"true", "other", "end"}]
      /\ answer'[j] = a
      /\ \A k \in Jobs : k # j => answer'[k] = answer[k]
  BY <1>1, <1>2 DEF TypeOK
<1>8. /\ produced' = produced /\ calls' = calls /\ queue' = queue /\ rows' = rows
      /\ said' = said /\ mistaken' = mistaken
      /\ reliable' = reliable /\ lost' = lost /\ crashes' = crashes
      /\ callbacks' = callbacks
  BY DEF Connected, fate
<1>9. TypeOK'
  BY <1>4, <1>5, <1>6, <1>7, <1>8 DEF TypeOK
<1>10. \A k \in Jobs : thread'[k].step # "none" <=> thread[k].step # "none"
  BY <1>3, <1>5
<1>11. \A q \in Records : /\ InMemory(q)' <=> InMemory(q)
                          /\ Posted(q)' <=> Posted(q)
                          /\ Stored(q)' <=> Stored(q)
  BY <1>8, <1>10, JobParts DEF InMemory, Posted, Stored
<1>12. NothingForgotten' /\ SavedIsKept'
  BY <1>4, <1>8, <1>11 DEF NothingForgotten, SavedIsKept, TypeOK
<1>13. Known'
  BY <1>8, <1>10 DEF Known
<1>14. OneAttempt'
  BY <1>8, <1>10, <1>11, JobParts, SameAttempts
<1>15. Answered'
  BY <1>4, <1>5, <1>8 DEF Answered
<1>16. OwnStream'
  <2>1. \A r, q \in Records :
          thread'[Again(r)].step # "none" /\ thread'[Again(q)].step # "none"
            => r = q
    BY <1>10, JobParts DEF OwnStream
  <2>2. ASSUME NEW k \in Jobs
        PROVE  /\ thread'[k].step = "read" => in'[Util(k)] \in Jobs
               /\ Util(k) = "service" /\ answer'[k] = "true" => k[1] \in accepted'
    <3>1. thread'[k].step = "read" => in'[Util(k)] \in Jobs
      <4>1. CASE Util(k) = Util(j)
        BY <1>6, <4>1
      <4>2. CASE Util(k) # Util(j)
        <5>1. k # j /\ in'[Util(k)] = in[Util(k)]
          BY <1>6, <4>2, JobParts
        <5> QED
          BY <1>5, <5>1 DEF OwnStream
      <4> QED
        BY <4>1, <4>2
    <3>2. Util(k) = "service" /\ answer'[k] = "true" => k[1] \in accepted'
      BY <1>4, <1>7 DEF OwnStream
    <3> QED
      BY <3>1, <3>2
  <2>3. ASSUME NEW k \in Jobs, Util(k) = "service"
        PROVE  /\ thread'[k].step = "read" => in'["service"] = k
               /\ thread'[k].response = "true" => k[1] \in accepted'
               /\ <<k, "true">> \in callbacks' => k[1] \in accepted'
    <3>1. thread'[k].step = "read" => in'["service"] = k
      <4>1. CASE k = j
        BY <1>6, <2>3, <4>1
      <4>2. CASE k # j /\ Util(j) = "service"
        <5>1. k = Again(k[1]) /\ j = Again(j[1]) /\ k[1] \in Records
          BY <2>3, <4>2, JobParts
        <5>2. thread[j].step # "none" /\ (thread[k].step # "none" => k[1] = j[1])
          BY <1>3, <5>1 DEF OwnStream
        <5>3. thread[k].step = "none"
          BY <4>2, <5>1, <5>2, JobParts DEF TypeOK
        <5> QED
          BY <1>5, <4>2, <5>3
      <4>3. CASE k # j /\ Util(j) # "service"
        <5>1. in'["service"] = in["service"]
          BY <1>6, <4>3 DEF Utils
        <5> QED
          BY <1>5, <2>3, <4>3, <5>1 DEF OwnStream
      <4> QED
        BY <4>1, <4>2, <4>3
    <3>2. thread'[k].response = "true" => k[1] \in accepted'
      BY <1>4, <1>5, <2>3 DEF OwnStream
    <3>3. <<k, "true">> \in callbacks' => k[1] \in accepted'
      BY <1>4, <1>8, <2>3 DEF OwnStream
    <3> QED
      BY <3>1, <3>2, <3>3
  <2> QED
    BY <2>1, <2>2, <2>3 DEF OwnStream
<1> QED
  BY <1>9, <1>12, <1>13, <1>14, <1>15, <1>16

LEMMA LineKeeps ==
  ASSUME IInv, NEW j \in Jobs, ReadLine(j), answer[in[Util(j)]] # "end"
  PROVE  IInv'
<1> USE DEF IInv, UploadInv
<1> DEFINE s == in[Util(j)]
<1>1. /\ thread[j].step = "read" /\ s \in Jobs
      /\ thread' = [thread EXCEPT ![j].response = answer[s]]
      /\ answer' = [answer EXCEPT ![s] = "end"]
      /\ in' = in /\ callbacks' = callbacks
  BY DEF ReadLine, OwnStream
<1>2. /\ produced' = produced /\ calls' = calls /\ queue' = queue /\ rows' = rows
      /\ said' = said /\ mistaken' = mistaken
      /\ reliable' = reliable /\ lost' = lost /\ crashes' = crashes
      /\ received' = received /\ accepted' = accepted
  BY DEF ReadLine, server, fate
<1>3. Util(j) = "service" => s = j
  BY <1>1 DEF OwnStream
<1> HIDE DEF s
<1>4. answer[s] \in {"true", "other"} /\ answer[s] \in Responses
  BY <1>1 DEF TypeOK, Responses, s
<1>5. /\ thread' \in [Jobs -> [step : {"none", "connect", "read"}, response : Responses]]
      /\ thread'[j].response = answer[s]
      /\ \A k \in Jobs : thread'[k].step = thread[k].step
      /\ \A k \in Jobs : k # j => thread'[k] = thread[k]
  BY <1>1, <1>4 DEF TypeOK
<1>6. /\ answer' \in [Jobs -> {"true", "other", "end"}]
      /\ \A k \in Jobs : answer'[k] = "true" => answer[k] = "true"
  BY <1>1 DEF TypeOK
<1>7. TypeOK'
  BY <1>1, <1>2, <1>5, <1>6 DEF TypeOK
<1>8. \A q \in Records : /\ InMemory(q)' <=> InMemory(q)
                         /\ Posted(q)' <=> Posted(q)
                         /\ Stored(q)' <=> Stored(q)
  BY <1>1, <1>2, <1>5, JobParts DEF InMemory, Posted, Stored
<1>9. NothingForgotten' /\ SavedIsKept'
  BY <1>2, <1>8 DEF NothingForgotten, SavedIsKept, TypeOK
<1>10. Known'
  BY <1>2, <1>5 DEF Known
<1>11. OneAttempt'
  BY <1>1, <1>2, <1>5, <1>8, JobParts, SameAttempts
<1>12. Answered'
  BY <1>1, <1>2, <1>5 DEF Answered
<1>13. OwnStream'
  <2>1. \A r, q \in Records :
          thread'[Again(r)].step # "none" /\ thread'[Again(q)].step # "none"
            => r = q
    BY <1>5, JobParts DEF OwnStream
  <2>2. \A k \in Jobs : /\ thread'[k].step = "read" => in'[Util(k)] \in Jobs
                        /\ Util(k) = "service" /\ answer'[k] = "true" => k[1] \in accepted'
    BY <1>1, <1>2, <1>5, <1>6 DEF OwnStream
  <2>3. ASSUME NEW k \in Jobs, Util(k) = "service"
        PROVE  /\ thread'[k].step = "read" => in'["service"] = k
               /\ thread'[k].response = "true" => k[1] \in accepted'
               /\ <<k, "true">> \in callbacks' => k[1] \in accepted'
    <3>1. thread'[k].response = "true" => k[1] \in accepted'
      <4>1. CASE k = j
        <5>1. answer[j] = "true" => j[1] \in accepted
          BY <2>3, <4>1 DEF OwnStream
        <5> QED
          BY <1>2, <1>3, <1>5, <2>3, <4>1, <5>1
      <4>2. CASE k # j
        BY <1>2, <1>5, <2>3, <4>2 DEF OwnStream
      <4> QED
        BY <4>1, <4>2
    <3>2. /\ thread'[k].step = "read" => in'["service"] = k
          /\ <<k, "true">> \in callbacks' => k[1] \in accepted'
      BY <1>1, <1>2, <1>5, <2>3 DEF OwnStream
    <3> QED
      BY <3>1, <3>2
  <2> QED
    BY <2>1, <2>2, <2>3 DEF OwnStream
<1> QED
  BY <1>7, <1>9, <1>10, <1>11, <1>12, <1>13

LEMMA SendKeeps ==
  ASSUME IInv, NEW j \in Jobs, Send(j)
  PROVE  IInv'
  BY ConnectedKeeps, LineKeeps, SendEndsKeep DEF Send

\* A response of the activity's ServerConnectionUtil is handled: the record has no other
\* attempt under way, so its row, if any, is the only one.
LEMMA RespondKeeps ==
  ASSUME IInv, NEW r \in Records, NEW response \in Responses,
         NEW says \in {"uploaded", "failed", "saved"},
         says = "saved" => response = "null",
         Respond(r, response, says)
  PROVE  IInv'
<1> USE DEF IInv, UploadInv
<1> DEFINE m == <<First(r), response>>
<1>1. /\ m \in callbacks /\ callbacks' = callbacks \ {m}
      /\ said' = [said EXCEPT ![r] = says]
      /\ rows' = IF response = "null" THEN Append(rows, r) ELSE rows
      /\ mistaken' \in {mistaken, mistaken \cup {r}}
  BY DEF Respond, Row
<1>2. /\ produced' = produced /\ calls' = calls /\ queue' = queue /\ thread' = thread
      /\ in' = in /\ answer' = answer /\ received' = received /\ accepted' = accepted
      /\ reliable' = reliable /\ lost' = lost /\ crashes' = crashes
  BY DEF Respond, sending, server, fate
<1>3. /\ InMemory(r) /\ Posted(r) /\ r \in produced /\ ~Stored(r) /\ r \notin Calls
      /\ thread[First(r)].step = "none"
  BY <1>1 DEF InMemory, Posted, OneAttempt
<1>4. r \notin calls
  BY <1>3 DEF TypeOK
<1>5. \A a \in Responses : <<First(r), a>> \notin callbacks'
  <2> SUFFICES ASSUME NEW a \in Responses, <<First(r), a>> \in callbacks
               PROVE  a = response
    BY <1>1
  <2> QED
    BY <1>1 DEF OneAttempt
<1>6. ~InMemory(r)' /\ ~Posted(r)'
  BY <1>2, <1>3, <1>4, <1>5 DEF InMemory, Posted
<1>7. /\ rows' \in Seq(Records) /\ IsInjective(rows)' /\ ToSet(rows) \subseteq ToSet(rows)'
      /\ ToSet(rows)' \subseteq ToSet(rows) \cup {r}
      /\ response = "null" => r \in ToSet(rows)'
  <2>1. rows \in Seq(Records) /\ IsInjective(rows)
    BY DEF TypeOK
  <2>2. CASE response = "null"
    <3>1. /\ rows' \in Seq(Records) /\ IsInjective(rows')
          /\ ToSet(rows') = ToSet(rows) \cup {r}
      BY <1>1, <1>3, <2>1, <2>2, AppendRow DEF Stored
    <3> QED
      BY <3>1
  <2>3. CASE response # "null"
    <3>1. rows' = rows
      BY <1>1, <2>3
    <3>2. /\ rows' \in Seq(Records) /\ IsInjective(rows')
          /\ ToSet(rows') = ToSet(rows)
      BY <2>1, <3>1
    <3> QED
      BY <2>3, <3>2
  <2> QED
    BY <2>2, <2>3
<1>8. TypeOK'
  BY <1>1, <1>2, <1>3, <1>7 DEF TypeOK
<1>9. \A q \in Records \ {r}, a \in Responses :
         <<First(q), a>> \in callbacks' <=> <<First(q), a>> \in callbacks
  BY <1>1, JobParts
<1>10. \A q \in Records \ {r} : /\ InMemory(q)' <=> InMemory(q)
                                /\ Posted(q)' <=> Posted(q)
                                /\ Stored(q)' <=> Stored(q)
  BY <1>2, <1>7, <1>9 DEF InMemory, Posted, Stored
<1>11. NothingForgotten'
  <2>1. r \in received' \/ Stored(r)'
    <3>1. CASE response = "null"
      BY <1>7, <3>1 DEF Stored
    <3>2. CASE response \in {"true", "other"}
      BY <1>1, <1>2, <3>2 DEF Answered
    <3> QED
      BY <3>1, <3>2 DEF Responses
  <2> QED
    BY <1>1, <1>2, <1>10, <2>1 DEF NothingForgotten, TypeOK
<1>12. SavedIsKept'
  <2>1. said'[r] = "saved" => Stored(r)'
    BY <1>1, <1>7 DEF Stored, TypeOK
  <2>2. \A q \in Records \ {r} : said'[q] = said[q]
    BY <1>1 DEF TypeOK
  <2> QED
    BY <1>2, <1>10, <2>1, <2>2 DEF SavedIsKept
<1>13. Known'
  BY <1>2, <1>3, <1>7 DEF Known
<1>14. OneAttempt'
  <2> SUFFICES ASSUME NEW q \in Records
      PROVE /\ InMemory(q)' => q \in produced' /\ ~Stored(q)'
            /\ thread'[First(q)].step # "none" => q \notin Calls /\ ~Posted(q)'
            /\ Posted(q)' => q \notin Calls
            /\ \A a, b \in Responses :
                 {<<First(q), a>>, <<First(q), b>>} \subseteq callbacks'
                   => a = b
    BY DEF OneAttempt
  <2>1. CASE q = r
    BY <1>2, <1>3, <1>5, <1>6, <2>1
  <2>2. CASE q # r
    <3>1. /\ InMemory(q)' => q \in produced' /\ ~Stored(q)'
      BY <1>2, <1>10, <2>2 DEF OneAttempt
    <3>2. /\ thread'[First(q)].step # "none" => q \notin Calls /\ ~Posted(q)'
          /\ Posted(q)' => q \notin Calls
      BY <1>2, <1>10, <2>2 DEF OneAttempt
    <3>3. \A a, b \in Responses :
            {<<First(q), a>>, <<First(q), b>>} \subseteq callbacks' => a = b
      BY <1>1 DEF OneAttempt
    <3> QED
      BY <3>1, <3>2, <3>3
  <2> QED
    BY <2>1, <2>2
<1>15. Answered'
  BY <1>1, <1>2 DEF Answered
<1>16. OwnStream'
  BY <1>1, <1>2 DEF OwnStream
<1> QED
  BY <1>8, <1>11, <1>12, <1>13, <1>14, <1>15, <1>16

\* What a death of the process wipes out counts as lost, whatever the page said of it.
LEMMA RestartKeeps ==
  ASSUME IInv, Restart, said' \in [Records -> {"", "uploaded", "failed", "saved"}],
         \A r \in Records : said'[r] # said[r] => r \in produced /\ InMemory(r)
  PROVE  IInv'
<1> USE DEF IInv, UploadInv
<1>1. /\ crashes < MaxCrashes /\ Len(rows) <= MaxQueue /\ crashes' = crashes + 1
      /\ lost' = lost \cup {r \in produced : InMemory(r)}
      /\ calls' = {} /\ callbacks' = {}
      /\ thread' = [j \in Jobs |-> NoThread]
      /\ in' = [u \in Utils |-> None] /\ answer' = [j \in Jobs |-> "end"]
      /\ queue' = rows
  BY DEF Restart
<1>2. /\ produced' = produced /\ rows' = rows /\ mistaken' = mistaken /\ received' = received
      /\ accepted' = accepted /\ reliable' = reliable
  BY DEF Restart, server
<1>3. \A j \in Jobs : /\ thread'[j].step = "none" /\ thread'[j].response = "null"
                      /\ answer'[j] = "end"
  BY <1>1 DEF NoThread
<1>4. TypeOK'
  <2>1. thread' \in [Jobs -> [step : {"none", "connect", "read"}, response : Responses]]
    BY <1>1 DEF NoThread, Responses
  <2>2. in' \in [Utils -> Jobs \cup {None}] /\ answer' \in [Jobs -> {"true", "other", "end"}]
    BY <1>1
  <2>3. queue' \in Seq(Records) /\ Len(queue') <= MaxQueue /\ crashes' \in 0..MaxCrashes
    <3>1. rows \in Seq(Records) /\ crashes \in 0..MaxCrashes
      BY DEF TypeOK
    <3>2. crashes' \in 0..MaxCrashes
      <4>1. crashes' = crashes + 1 /\ crashes < MaxCrashes
        BY <1>1
      <4>2. crashes \in 0..MaxCrashes
        BY <3>1
      <4>3. MaxCrashes \in Nat
        BY UploadAssumption
      <4> HIDE DEF UploadInv, IInv
      <4> QED
        BY ONLY <4>1, <4>2, <4>3
    <3> QED
      BY <1>1, <3>1, <3>2
  <2>4. /\ calls' \subseteq produced' \cap Calls /\ callbacks' \subseteq Jobs \X Responses
        /\ lost' \subseteq produced'
    BY <1>1, <1>2 DEF TypeOK
  <2> QED
    BY <1>2, <2>1, <2>2, <2>3, <2>4 DEF TypeOK
<1>5. \A q \in Records : ~InMemory(q)' /\ ~Posted(q)' /\ (Stored(q)' <=> Stored(q))
  BY <1>1, <1>2, <1>3, JobParts DEF InMemory, Posted, Stored
<1>6. NothingForgotten' /\ SavedIsKept'
  BY <1>1, <1>2, <1>5 DEF NothingForgotten, SavedIsKept, TypeOK
<1>7. Known'
  BY <1>1, <1>2, <1>3 DEF Known
<1>8. OneAttempt'
  BY <1>1, <1>3, <1>5, JobParts DEF OneAttempt
<1>9. Answered'
  BY <1>1, <1>3 DEF Answered
<1>10. OwnStream'
  BY <1>1, <1>3, JobParts DEF OwnStream
<1> QED
  BY <1>4, <1>6, <1>7, <1>8, <1>9, <1>10

LEMMA ThrowsKeeps ==
  ASSUME IInv, NEW r \in Records, NEW response \in Responses, NEW says \in {"", "saved"},
         RespondThrows(r, response, says)
  PROVE  IInv'
<1>1. r \in produced /\ InMemory(r)
  BY DEF RespondThrows, InMemory, IInv, OneAttempt
<1>2. /\ said' \in [Records -> {"", "uploaded", "failed", "saved"}]
      /\ \A q \in Records : q # r => said'[q] = said[q]
  BY DEF RespondThrows, IInv, UploadInv, TypeOK
<1>3. Restart
  BY DEF RespondThrows
<1>4. \A q \in Records : said'[q] # said[q] => q \in produced /\ InMemory(q)
  BY <1>1, <1>2
<1> QED
  BY <1>2, <1>3, <1>4, RestartKeeps

LEMMA ResponsesKeep ==
  ASSUME IInv, NEW r \in Records, CheckResponse(r) \/ OpenResponse(r)
  PROVE  IInv'
<1>1. \/ \E response \in Responses, says \in {"uploaded", "failed", "saved"} :
            Respond(r, response, says) /\ (says = "saved" => response = "null")
      \/ \E response \in Responses, says \in {"", "saved"} : RespondThrows(r, response, says)
  <2>1. {"true", "other", "null"} \subseteq Responses
    BY DEF Responses
  <2>2. CASE CheckResponse(r)
    BY <2>1, <2>2 DEF CheckResponse
  <2>3. CASE OpenResponse(r)
    BY <2>1, <2>3 DEF OpenResponse
  <2> QED
    BY <2>2, <2>3
<1>2. CASE \E response \in Responses, says \in {"uploaded", "failed", "saved"} :
             Respond(r, response, says) /\ (says = "saved" => response = "null")
  BY <1>2, RespondKeeps
<1>3. CASE \E response \in Responses, says \in {"", "saved"} : RespondThrows(r, response, says)
  BY <1>3, ThrowsKeeps
<1> QED
  BY <1>1, <1>2, <1>3

\* The answer "true" to a row, read by the single thread from its own stream, means that
\* the server has accepted the record: the row is not missed.
LEMMA RowResponseKeeps ==
  ASSUME IInv, NEW r \in Records, RowResponse(r)
  PROVE  IInv'
<1> USE DEF IInv, UploadInv
<1>1. PICK response \in Responses :
        /\ <<Again(r), response>> \in callbacks
        /\ callbacks' = callbacks \ {<<Again(r), response>>}
        /\ IF response = "true" THEN Delete(r) ELSE UNCHANGED rows
  BY DEF RowResponse
<1>2. /\ produced' = produced /\ calls' = calls /\ queue' = queue /\ thread' = thread
      /\ in' = in /\ answer' = answer /\ received' = received /\ accepted' = accepted
      /\ reliable' = reliable /\ lost' = lost /\ crashes' = crashes
      /\ said' = said /\ mistaken' = mistaken
  BY DEF RowResponse, sending, server, fate
<1>3. response = "true" => r \in accepted
  BY <1>1, JobParts DEF OwnStream, Util
<1>4. /\ rows' \in Seq(Records) /\ IsInjective(rows)'
      /\ ToSet(rows)' \subseteq ToSet(rows)
      /\ \/ ToSet(rows) \subseteq ToSet(rows)'
         \/ response = "true" /\ ToSet(rows)' = ToSet(rows) \ {r}
  <2>1. rows \in Seq(Records) /\ IsInjective(rows)
    BY DEF TypeOK
  <2>2. CASE rows' = rows
    <3>1. ToSet(rows') = ToSet(rows) /\ IsInjective(rows') /\ rows' \in Seq(Records)
      BY <2>1, <2>2
    <3> QED
      BY <3>1
  <2>3. CASE rows' # rows
    <3>1. response = "true" /\ Delete(r)
      BY <1>1, <2>3
    <3>2. PICK i \in DOMAIN rows : rows[i] = r /\ rows' = RemoveAt(rows, i)
      BY <2>3, <3>1 DEF Delete
    <3> QED
      BY <2>1, <3>1, <3>2, RemoveRow
  <2> QED
    BY <2>2, <2>3
<1>5. TypeOK'
  BY <1>1, <1>2, <1>4 DEF TypeOK
<1>6. \A q \in Records, a \in Responses :
        <<First(q), a>> \in callbacks' <=> <<First(q), a>> \in callbacks
  BY <1>1, JobParts
<1>7. \A q \in Records : /\ InMemory(q)' <=> InMemory(q)
                         /\ Posted(q)' <=> Posted(q)
                         /\ Stored(q)' => Stored(q)
                         /\ Stored(q) => Stored(q)' \/ q \in accepted
  BY <1>2, <1>3, <1>4, <1>6 DEF InMemory, Posted, Stored
<1>8. accepted \subseteq received \cup mistaken
  BY DEF TypeOK
<1>9. NothingForgotten' /\ SavedIsKept'
  BY <1>2, <1>7, <1>8 DEF NothingForgotten, SavedIsKept, TypeOK
<1>10. Known'
  BY <1>2, <1>4 DEF Known
<1>11. OneAttempt'
  <2> SUFFICES ASSUME NEW q \in Records
      PROVE /\ InMemory(q)' => q \in produced' /\ ~Stored(q)'
            /\ thread'[First(q)].step # "none" => q \notin Calls /\ ~Posted(q)'
            /\ Posted(q)' => q \notin Calls
            /\ \A a, b \in Responses :
                 {<<First(q), a>>, <<First(q), b>>} \subseteq callbacks'
                   => a = b
    BY DEF OneAttempt
  <2>1. /\ InMemory(q)' => q \in produced' /\ ~Stored(q)'
    BY <1>2, <1>7 DEF OneAttempt
  <2>2. /\ thread'[First(q)].step # "none" => q \notin Calls /\ ~Posted(q)'
        /\ Posted(q)' => q \notin Calls
    BY <1>2, <1>7 DEF OneAttempt
  <2>3. \A a, b \in Responses :
          {<<First(q), a>>, <<First(q), b>>} \subseteq callbacks' => a = b
    BY <1>6 DEF OneAttempt
  <2> QED
    BY <2>1, <2>2, <2>3
<1>12. Answered'
  BY <1>1, <1>2 DEF Answered
<1>13. OwnStream'
  BY <1>1, <1>2 DEF OwnStream
<1> QED
  BY <1>5, <1>9, <1>10, <1>11, <1>12, <1>13

LEMMA SingleKeeps ==
  ASSUME IInv, post_SingleThread
  PROVE  IInv'
<1> USE DEF IInv, UploadInv
<1> DEFINE h == Head(queue)
           p == Again(h)
<1>1. /\ queue # <<>> /\ SingleIdle /\ queue' = Tail(queue)
      /\ thread' = [thread EXCEPT ![p].step = "connect"]
  BY DEF post_SingleThread
<1>2. /\ produced' = produced /\ calls' = calls /\ callbacks' = callbacks /\ rows' = rows
      /\ in' = in /\ answer' = answer /\ received' = received /\ accepted' = accepted
      /\ reliable' = reliable /\ lost' = lost /\ crashes' = crashes
      /\ said' = said /\ mistaken' = mistaken
  BY DEF post_SingleThread, server, fate
<1>3. queue \in Seq(Records) /\ Len(queue) <= MaxQueue /\ Len(queue) \in Nat
  <2>1. queue \in Seq(Records) /\ Len(queue) <= MaxQueue
    BY DEF TypeOK
  <2> QED
    BY <2>1
<1>4. /\ h \in ToSet(queue) /\ h \in Records /\ Tail(queue) \in Seq(Records)
      /\ Len(Tail(queue)) = Len(queue) - 1 /\ ToSet(Tail(queue)) \subseteq ToSet(queue)
  BY <1>1, <1>3, QueueParts
<1>5. /\ queue' \in Seq(Records) /\ Len(queue') <= MaxQueue
      /\ ToSet(queue)' \subseteq ToSet(queue)
  <2>1. queue' \in Seq(Records) /\ ToSet(queue)' \subseteq ToSet(queue)
    BY <1>1, <1>4
  <2>2. Len(queue') = Len(queue) - 1
    BY <1>1, <1>4
  <2>3. Len(queue) <= MaxQueue /\ Len(queue) \in Nat /\ MaxQueue \in Nat
    BY <1>3, UploadAssumption
  <2>4. Len(queue') <= MaxQueue
    BY <2>2, <2>3
  <2> QED
    BY <2>1, <2>4
<1>6. p \in Jobs /\ h \in produced
  BY <1>4, JobParts DEF Known
<1>7. \A q \in Records : First(q) # p /\ First(q) \in Jobs
  BY <1>4, JobParts
<1> HIDE DEF h, p
<1>8. /\ thread' \in [Jobs -> [step : {"none", "connect", "read"}, response : Responses]]
      /\ thread'[p].step = "connect" /\ thread'[p].response = thread[p].response
      /\ \A k \in Jobs : k # p => thread'[k] = thread[k]
  BY <1>1, <1>6 DEF TypeOK
<1>9. TypeOK'
  BY <1>2, <1>5, <1>8 DEF TypeOK
<1>10. \A q \in Records : /\ InMemory(q)' <=> InMemory(q)
                          /\ Posted(q)' <=> Posted(q)
                          /\ Stored(q)' <=> Stored(q)
                          /\ thread'[First(q)] = thread[First(q)]
  BY <1>2, <1>7, <1>8 DEF InMemory, Posted, Stored
<1>11. NothingForgotten' /\ SavedIsKept'
  BY <1>2, <1>10 DEF NothingForgotten, SavedIsKept, TypeOK
<1>12. Known'
  <2>1. p[1] = h
    BY <1>4, JobParts DEF p
  <2>2. /\ ToSet(rows)' \subseteq produced' /\ ToSet(queue)' \subseteq produced'
    BY <1>2, <1>5 DEF Known
  <2>3. \A k \in Jobs : thread'[k].step # "none" => k[1] \in produced'
    BY <1>2, <1>6, <1>8, <2>1 DEF Known
  <2> QED
    BY <2>2, <2>3 DEF Known
<1>13. OneAttempt'
  BY <1>2, <1>10, SameAttempts
<1>14. Answered'
  BY <1>2, <1>8 DEF Answered
<1>15. OwnStream'
  <2>1. ASSUME NEW k \in Jobs
        PROVE  /\ thread'[k].step = "read" => thread[k].step = "read"
               /\ thread'[k].response = thread[k].response
    BY <1>8
  <2>2. ASSUME NEW r \in Records, thread'[Again(r)].step # "none" PROVE r = h
    <3>1. thread[Again(r)].step = "none" /\ Again(r) \in Jobs
      BY <1>1, JobParts DEF SingleIdle
    <3>2. Again(r) = p
      BY <1>8, <2>2, <3>1
    <3> QED
      BY <1>4, <3>2, JobParts DEF p
  <2>3. ASSUME NEW k \in Jobs
        PROVE  /\ thread'[k].step = "read" => in'[Util(k)] \in Jobs
               /\ Util(k) = "service" /\ answer'[k] = "true" => k[1] \in accepted'
    BY <1>2, <2>1 DEF OwnStream
  <2>4. ASSUME NEW k \in Jobs, Util(k) = "service"
        PROVE  /\ thread'[k].step = "read" => in'["service"] = k
               /\ thread'[k].response = "true" => k[1] \in accepted'
               /\ <<k, "true">> \in callbacks' => k[1] \in accepted'
    BY <1>2, <2>1, <2>4 DEF OwnStream
  <2> QED
    BY <2>2, <2>3, <2>4 DEF OwnStream
<1> QED
  BY <1>9, <1>11, <1>12, <1>13, <1>14, <1>15

LEMMA TimerKeeps ==
  ASSUME IInv, DailyTimer
  PROVE  IInv'
<1> USE DEF IInv, UploadInv
<1>1. Len(queue) + Len(rows) <= MaxQueue /\ queue' = queue \o rows
  BY DEF DailyTimer
<1>2. /\ produced' = produced /\ calls' = calls /\ callbacks' = callbacks /\ rows' = rows
      /\ thread' = thread /\ in' = in /\ answer' = answer /\ received' = received
      /\ accepted' = accepted /\ reliable' = reliable /\ lost' = lost /\ crashes' = crashes
      /\ said' = said /\ mistaken' = mistaken
  BY DEF DailyTimer, sending, server, fate
<1>3. queue \in Seq(Records) /\ rows \in Seq(Records)
  BY DEF TypeOK
<1>4. /\ queue' \in Seq(Records) /\ Len(queue') <= MaxQueue
      /\ ToSet(queue)' \subseteq ToSet(queue) \cup ToSet(rows)
  BY <1>1, <1>3, QueueParts
<1>5. TypeOK'
  BY <1>2, <1>4 DEF TypeOK
<1>6. \A q \in Records : /\ InMemory(q)' <=> InMemory(q)
                         /\ Posted(q)' <=> Posted(q)
                         /\ Stored(q)' <=> Stored(q)
  BY <1>2 DEF InMemory, Posted, Stored
<1>7. NothingForgotten' /\ SavedIsKept'
  BY <1>2, <1>6 DEF NothingForgotten, SavedIsKept, TypeOK
<1>8. Known'
  BY <1>2, <1>4 DEF Known
<1>9. OneAttempt'
  BY <1>2, <1>6, SameAttempts
<1>10. Answered' /\ OwnStream'
  BY <1>2 DEF Answered, OwnStream
<1> QED
  BY <1>5, <1>7, <1>8, <1>9, <1>10

LEMMA CrashKeeps ==
  ASSUME IInv, CrashAndStart
  PROVE  IInv'
<1>1. \A r \in Records : said'[r] = said[r]
  BY DEF CrashAndStart
<1>2. said' \in [Records -> {"", "uploaded", "failed", "saved"}]
  BY DEF CrashAndStart, IInv, UploadInv, TypeOK
<1>3. Restart
  BY DEF CrashAndStart
<1> QED
  BY <1>1, <1>2, <1>3, RestartKeeps

LEMMA UnchangedKeeps ==
  ASSUME IInv, NetworkRecovers \/ UNCHANGED vars
  PROVE  IInv'
<1> USE DEF IInv, UploadInv
<1>1. /\ produced' = produced /\ calls' = calls /\ callbacks' = callbacks /\ rows' = rows
      /\ thread' = thread /\ in' = in /\ answer' = answer /\ received' = received
      /\ accepted' = accepted /\ lost' = lost /\ crashes' = crashes
      /\ said' = said /\ mistaken' = mistaken /\ queue' = queue
      /\ reliable' \in {reliable, TRUE}
  BY DEF NetworkRecovers, vars, sending, server, fate
<1>2. TypeOK'
  BY <1>1 DEF TypeOK
<1>3. \A q \in Records : /\ InMemory(q)' <=> InMemory(q)
                         /\ Posted(q)' <=> Posted(q)
                         /\ Stored(q)' <=> Stored(q)
  BY <1>1 DEF InMemory, Posted, Stored
<1>4. NothingForgotten' /\ SavedIsKept'
  BY <1>1, <1>3 DEF NothingForgotten, SavedIsKept, TypeOK
<1>5. Known'
  BY <1>1 DEF Known
<1>6. OneAttempt'
  BY <1>1, <1>3, SameAttempts
<1>7. Answered' /\ OwnStream'
  BY <1>1 DEF Answered, OwnStream
<1> QED
  BY <1>2, <1>4, <1>5, <1>6, <1>7

LEMMA NextKeeps ==
  ASSUME IInv, [Next]_vars
  PROVE  IInv'
<1>1. ASSUME NEW r \in Records, post(r) PROVE IInv'
  BY <1>1, PostKeeps
<1>2. ASSUME NEW r \in Records, GeneralUpdata(r) PROVE IInv'
  BY <1>2, GeneralUpdataKeeps
<1>3. ASSUME NEW r \in Records, OnNext(r) \/ OnError(r) PROVE IInv'
  BY <1>3, CallKeeps
<1>4. ASSUME NEW r \in Records, Respondent(r) PROVE IInv'
  BY <1>4, ResponsesKeep, RowResponseKeeps DEF Respondent
<1>5. ASSUME NEW j \in Jobs, Send(j) PROVE IInv'
  BY <1>5, SendKeeps
<1>6. CASE post_SingleThread
  BY <1>6, SingleKeeps
<1>7. CASE DailyTimer
  BY <1>7, TimerKeeps
<1>8. CASE CrashAndStart
  BY <1>8, CrashKeeps
<1>9. CASE NetworkRecovers \/ UNCHANGED vars
  BY <1>9, UnchangedKeeps
<1> QED
  BY <1>1, <1>2, <1>3, <1>4, <1>5, <1>6, <1>7, <1>8, <1>9 DEF Next

-----------------------------------------------------------------------------
(* The theorems.                                                           *)

\* Every reachable state satisfies the inductive invariant: each record has one first
\* attempt and gets its row when that is over, and the service's only thread reads the
\* answer to its own row.
THEOREM Inductive == Spec => []IInv
<1>1. Init => IInv
  BY InitIInv
<1>2. IInv /\ [Next]_vars => IInv'
  BY NextKeeps
<1> QED
  BY <1>1, <1>2, PTL DEF Spec

\* A record is forgotten only by a crash while it is in memory, or because its row was
\* built of other people; and a row of which the page says that it is saved is kept until
\* the server has accepted it, if the process outlives the saying: for any number of
\* records, rows and crashes and whatever the network does.
THEOREM UploadsKept == Spec => []UploadInv
<1>1. IInv => UploadInv
  BY DEF IInv
<1> QED
  BY <1>1, Inductive, PTL

=============================================================================
