---------------------- MODULE RegistryIndexCache_proofs ----------------------
(***************************************************************************)
(* Proofs about RegistryIndexCache, for any versions, queries, sessions    *)
(* and changes of a registry, until it says 404 for the first time.        *)
(***************************************************************************)
EXTENDS RegistryIndexCache, TLAPS

(* What a response brings was the registry's content.                      *)
BodySeen ==
    listed = "yes" => \A q \in Query : pc[q] = "applying" /\ reply[q] = "download" =>
        body[q] \in seen

(* A query that was told its key is current reads records of a content     *)
(* that this process has seen at the registry: those of its key, or newer  *)
(* ones that another query has downloaded.                                 *)
KeySeen == listed = "yes" =>
    /\ ~offline => \A q \in Query :
           pc[q] = "applying" /\ reply[q] = "in cache" =>
               key # NoKey /\ key \in seen
    /\ \A q \in Query : pc[q] = "asking" /\ sent[q] # NoKey =>
           key # NoKey /\ (key = sent[q] \/ key \in seen)
    /\ \A q \in Query : pc[q] = "applying" => reply[q] # "not found"

IInv == TypeOK /\ CacheMatchesKey /\ BodySeen /\ KeySeen /\ FreshAnswer

LEMMA NoKeyIsNoContent == NoKey \notin Content
  BY ConstantsAssumption DEF ConstantsAssumption

LEMMA CountedUp == \A m \in Nat : \A n \in 0..m : n < m => n + 1 \in 0..m
  OBVIOUS

LEMMA Bounds == MaxChanges \in Nat /\ MaxSessions \in Nat
  BY ConstantsAssumption DEF ConstantsAssumption

LEMMA RecordsOfType == \A c \in Content : RecordsOf(c) \subseteq Record
  BY DEF RecordsOf

LEMMA InitTypeOK == Init => TypeOK
<1> SUFFICES ASSUME Init PROVE TypeOK
  OBVIOUS
<1>1. pc \in [Query -> {"idle", "asking", "applying", "done", "failed"}]
      /\ reply \in [Query -> {"none", "not found", "in cache", "download"}]
  BY DEF Init
<1>2. sent \in [Query -> Content \cup {NoKey}] /\ body \in [Query -> Content]
  BY DEF Init
<1>3. tagged \in [Query -> BOOLEAN] /\ answer \in [Query -> SUBSET Record]
  BY DEF Init
<1>4. changes \in 0..MaxChanges /\ sessions \in 0..MaxSessions
  BY ConstantsAssumption DEF Init, ConstantsAssumption
<1>5. index \in Content /\ listed \in {"yes", "no", "again"} /\ records \subseteq Record
      /\ key \in Content \cup {NoKey} /\ offline \in BOOLEAN
      /\ seen \subseteq Content /\ index \in seen
  BY DEF Init
<1> QED BY <1>1, <1>2, <1>3, <1>4, <1>5 DEF TypeOK

(* The variables keep their types, whatever the registry does.             *)
LEMMA TypeStep == TypeOK /\ [Next]_vars => TypeOK'
<1> SUFFICES ASSUME TypeOK, [Next]_vars PROVE TypeOK'
  OBVIOUS
<1> USE RecordsOfType
    DEF TypeOK, registryVars, dbVars, queryVars, End, Reply
<1>1. ASSUME NEW v \in Version, Edit(v) PROVE TypeOK'
  <2>1. index' \in Content
    BY <1>1 DEF Edit, Content
  <2>2. changes' \in 0..MaxChanges
    BY <1>1, CountedUp, Bounds DEF Edit, Change
  <2>3. seen' \subseteq Content /\ index' \in seen'
    BY <1>1, <2>1 DEF Edit
  <2> QED BY <1>1, <2>1, <2>2, <2>3 DEF Edit, Change
<1>2. ASSUME Unlist \/ Relist PROVE TypeOK'
  <2>1. changes' \in 0..MaxChanges
    BY <1>2, CountedUp, Bounds DEF Unlist, Relist, Change
  <2> QED BY <1>2, <2>1 DEF Unlist, Relist, Change
<1>3. ASSUME NEW q \in Query, ReadKey(q) PROVE TypeOK'
  <2>1. PICK k \in {key, NoKey} : sent' = [sent EXCEPT ![q] = k]
    BY <1>3 DEF ReadKey
  <2>2. sent' \in [Query -> Content \cup {NoKey}]
    BY <2>1
  <2> QED BY <1>3, <2>2 DEF ReadKey
<1>4. ASSUME NEW q \in Query, UseCache(q) PROVE TypeOK'
  BY <1>4 DEF UseCache
<1>5. ASSUME NEW q \in Query, Ask(q) PROVE TypeOK'
  <2>1. CASE UNCHANGED <<body, tagged>>
    BY <1>5, <2>1 DEF Ask
  <2>2. CASE /\ Reply(q, "download")
             /\ body' = [body EXCEPT ![q] = index]
             /\ \E t \in BOOLEAN : tagged' = [tagged EXCEPT ![q] = t]
    <3>1. body' \in [Query -> Content] /\ tagged' \in [Query -> BOOLEAN]
      BY <2>2
    <3> QED BY <2>2, <3>1
  <2> QED BY <1>5, <2>1, <2>2 DEF Ask
<1>6. ASSUME NEW q \in Query, AskFails(q) PROVE TypeOK'
  BY <1>6 DEF AskFails
<1>7. ASSUME NEW q \in Query, Prune(q) PROVE TypeOK'
  BY <1>7 DEF Prune
<1>8. ASSUME NEW q \in Query, GetRecords(q) PROVE TypeOK'
  BY <1>8 DEF GetRecords, Matching
<1>9. ASSUME NEW q \in Query, Upsert(q) PROVE TypeOK'
  BY <1>9 DEF Upsert, Matching
<1>10. ASSUME NextSession PROVE TypeOK'
  <2>1. pc' \in [Query -> {"idle", "asking", "applying", "done", "failed"}]
        /\ reply' \in [Query -> {"none", "not found", "in cache", "download"}]
        /\ sent' \in [Query -> Content \cup {NoKey}]
        /\ body' \in [Query -> Content] /\ tagged' \in [Query -> BOOLEAN]
        /\ answer' \in [Query -> SUBSET Record]
    BY <1>10 DEF NextSession
  <2>2. sessions' \in 0..MaxSessions
    BY <1>10, CountedUp, Bounds DEF NextSession
  <2> QED BY <1>10, <2>1, <2>2 DEF NextSession
<1>11. CASE UNCHANGED vars
  BY <1>11 DEF vars
<1> QED BY <1>1, <1>2, <1>3, <1>4, <1>5, <1>6, <1>7, <1>8, <1>9, <1>10,
           <1>11 DEF Next, QueryStep

(* TypeOK is an invariant of the cache, also if the registry says 404.     *)
THEOREM TypeCorrect == Spec => []TypeOK
<1> QED BY InitTypeOK, TypeStep, PTL DEF Spec

-----------------------------------------------------------------------------
(* The strengthened invariant is inductive.                                *)
LEMMA Inductive == Spec => []IInv
<1>1. Init => IInv
  <2> SUFFICES ASSUME Init PROVE IInv
    OBVIOUS
  <2>1. TypeOK
    BY InitTypeOK
  <2> QED BY <2>1 DEF Init, IInv, CacheMatchesKey, BodySeen, KeySeen,
                      FreshAnswer, CurrentAnswer
<1>2. IInv /\ [Next]_vars => IInv'
  <2> SUFFICES ASSUME IInv, [Next]_vars PROVE IInv'
    OBVIOUS
  <2>0. TypeOK /\ TypeOK'
    BY TypeStep DEF IInv
  <2> USE <2>0, NoKeyIsNoContent
      DEF IInv, TypeOK, CacheMatchesKey, BodySeen, KeySeen, FreshAnswer,
          CurrentAnswer, registryVars, dbVars, queryVars, End, Reply
  <2>1. ASSUME NEW v \in Version, Edit(v) PROVE IInv'
    <3>1. seen \subseteq seen' /\ UNCHANGED <<listed, dbVars, offline, queryVars>>
      BY <2>1 DEF Edit, Change
    <3> QED BY <3>1
  <2>2. ASSUME Unlist \/ Relist PROVE IInv'
    <3>1. listed' # "yes"
      BY <2>2 DEF Unlist, Relist
    <3>2. TypeOK' /\ CacheMatchesKey' /\ BodySeen' /\ KeySeen' /\ FreshAnswer'
      BY <2>0, <3>1 DEF CacheMatchesKey, BodySeen, KeySeen, FreshAnswer
    <3> HIDE DEF TypeOK, CacheMatchesKey, BodySeen, KeySeen, FreshAnswer
    <3> QED BY <3>2
  <2>3. ASSUME NEW q \in Query, ReadKey(q) PROVE IInv'
    <3>1. PICK k \in {key, NoKey} : sent' = [sent EXCEPT ![q] = k]
      BY <2>3 DEF ReadKey
    <3>2. CacheMatchesKey' /\ BodySeen' /\ FreshAnswer'
      BY <2>3 DEF ReadKey
    <3>3. KeySeen'
      BY <2>3, <3>1 DEF ReadKey
    <3> HIDE DEF TypeOK, CacheMatchesKey, BodySeen, KeySeen, FreshAnswer
    <3> QED BY <3>2, <3>3
  <2>4. ASSUME NEW q \in Query, UseCache(q) PROVE IInv'
    BY <2>4 DEF UseCache
  <2>5. ASSUME NEW q \in Query, Ask(q) PROVE IInv'
    <3>0. CASE listed' # "yes"
      BY <3>0
    <3> SUFFICES ASSUME listed' = "yes" PROVE IInv'
      BY <3>0
    <3>1. CacheMatchesKey' /\ FreshAnswer' /\ listed = "yes"
      BY <2>5 DEF Ask
    <3>2. CASE UNCHANGED <<body, tagged>> /\ sent[q] = index /\ Reply(q, "in cache")
      <4>1. key # NoKey /\ key \in seen
        BY <2>5, <3>1, <3>2 DEF Ask
      <4>2. BodySeen' /\ KeySeen'
        BY <2>5, <3>1, <3>2, <4>1 DEF Ask
      <4> QED BY <3>1, <4>2
    <3>3. CASE Reply(q, "download") /\ body' = [body EXCEPT ![q] = index]
      <4>1. body'[q] = index
        <5> HIDE DEF IInv, CacheMatchesKey, BodySeen, KeySeen, FreshAnswer
        <5> QED BY <3>3
      <4>2. BodySeen'
        BY <3>3, <4>1
      <4>3. KeySeen'
        BY <3>3
      <4> QED BY <3>1, <4>2, <4>3
    <3> QED BY <2>5, <3>1, <3>2, <3>3 DEF Ask
  <2>6. ASSUME NEW q \in Query, AskFails(q) PROVE IInv'
    BY <2>6 DEF AskFails
  <2>7. ASSUME NEW q \in Query, Prune(q) PROVE IInv'
    BY <2>7 DEF Prune
  <2>8. ASSUME NEW q \in Query, GetRecords(q) PROVE IInv'
    <3>1. /\ pc' = [pc EXCEPT ![q] = "done"]
          /\ answer' = [answer EXCEPT ![q] = Matching(q, records)]
          /\ UNCHANGED <<registryVars, offline, sent, reply, body, tagged, seen,
                         key, records>>
      BY <2>8 DEF GetRecords
    <3>2. CacheMatchesKey' /\ BodySeen' /\ KeySeen'
      BY <3>1
    <3>3. FreshAnswer'
      <4>0. CASE offline
        BY <3>1, <4>0
      <4> SUFFICES ASSUME ~offline, listed = "yes" PROVE FreshAnswer'
        BY <3>1, <4>0
      <4>1. records = RecordsOf(key) /\ key \in seen /\ FreshAnswer
        BY <2>8 DEF GetRecords
      <4> HIDE DEF IInv, CacheMatchesKey, BodySeen, KeySeen
      <4>2. \A p \in Query : p # q => pc'[p] = pc[p] /\ answer'[p] = answer[p]
        BY <3>1
      <4>3. answer'[q] = Matching(q, RecordsOf(key)) /\ seen' = seen
        BY <3>1, <4>1
      <4>4. \A p \in Query : p # q /\ pc[p] = "done" =>
               \E c \in seen : answer'[p] = Matching(p, RecordsOf(c))
        BY <4>1, <4>2
      <4> QED BY <3>1, <4>1, <4>2, <4>3, <4>4
    <3> HIDE DEF TypeOK, CacheMatchesKey, BodySeen, KeySeen, FreshAnswer
    <3> QED BY <3>2, <3>3
  <2>9. ASSUME NEW q \in Query, Upsert(q) PROVE IInv'
    <3>a. CASE listed' # "yes"
      BY <3>a
    <3> SUFFICES ASSUME listed' = "yes" PROVE IInv'
      BY <3>a
    <3>0. pc[q] = "applying" /\ reply[q] = "download" /\ listed = "yes"
      BY <2>9 DEF Upsert
    <3>1. body[q] \in seen /\ body[q] \in Content /\ body[q] # NoKey
      BY <3>0
    <3>2. CacheMatchesKey'
      BY <2>9, <3>1 DEF Upsert
    <3>3. BodySeen' /\ KeySeen'
      BY <2>9, <3>1 DEF Upsert
    <3>4. FreshAnswer'
      <4>1. UNCHANGED <<listed, offline, seen>>
        BY <2>9 DEF Upsert
      <4>2. answer' = [answer EXCEPT ![q] = Matching(q, RecordsOf(body[q]))]
        BY <2>9 DEF Upsert
      <4>3. \A p \in Query : pc'[p] = "done" => p = q \/ pc[p] = "done"
        BY <2>9 DEF Upsert
      <4> QED BY <3>0, <3>1, <4>1, <4>2, <4>3
    <3> HIDE DEF TypeOK, CacheMatchesKey, BodySeen, KeySeen, FreshAnswer
    <3> QED BY <3>2, <3>3, <3>4
  <2>10. ASSUME NextSession PROVE IInv'
    BY <2>10 DEF NextSession
  <2>11. CASE UNCHANGED vars
    BY <2>11 DEF vars
  <2> QED BY <2>1, <2>2, <2>3, <2>4, <2>5, <2>6, <2>7, <2>8, <2>9, <2>10,
             <2>11 DEF Next, QueryStep
<1> QED BY <1>1, <1>2, PTL DEF Spec

(* The cached records are those of the cache key (cache.rs:408).           *)
THEOREM CacheConsistent ==
    Spec => []CacheMatchesKey
<1>1. Spec => []IInv
  BY Inductive
<1>2. IInv => CacheMatchesKey
  BY DEF IInv
<1> QED BY <1>1, <1>2, PTL

(* Every online answer is a content of the registry in this session        *)
(* (get_records_with_cache, cache.rs:104).                                 *)
THEOREM AnswersAreFresh ==
    Spec => []FreshAnswer
<1>1. Spec => []IInv
  BY Inductive
<1>2. IInv => FreshAnswer
  BY DEF IInv
<1> QED BY <1>1, <1>2, PTL
=============================================================================
