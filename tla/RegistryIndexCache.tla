------------------------- MODULE RegistryIndexCache -------------------------
(***************************************************************************)
(* The local cache of a registry's index: RegistryClientCache over redb    *)
(* (src/scarb/src/core/registry/client/cache.rs) on top of the HTTP client *)
(* (client/http.rs), for one package name.                                 *)
(*                                                                         *)
(* A scarb process keeps the database, and its lock, from the first query  *)
(* to its end, so that one process at a time uses it.  The queries of a    *)
(* process (one for each version requirement) run concurrently: each reads *)
(* the cache key, asks the registry, and applies the response in one       *)
(* transaction.  Meanwhile the registry changes.  The entity tag of a      *)
(* content is the content itself.                                          *)
(***************************************************************************)
EXTENDS Naturals

CONSTANTS Query,       \* the queries of a process
          Version,     \* the versions of the package
          Matches,     \* of each query: the versions that it accepts
          NoKey,
          MaxChanges,  \* how often the registry changes
          MaxSessions  \* how many processes use the cache

Content == [Version -> {"absent", "live", "yanked"}]

ASSUME ConstantsAssumption ==
    /\ Matches \in [Query -> SUBSET Version]
    /\ NoKey \notin Content
    /\ MaxChanges \in Nat /\ MaxSessions \in Nat

VARIABLES
    index,    \* the registry's content
    listed,   \* whether the registry knows the package; "again" after a 404
    records,  \* the table `records`
    key,      \* the table `records_cache_keys`
    offline,  \* the process runs with --offline
    pc,       \* the progress of each query
    sent,     \* the cache key a query has read
    reply,    \* what the client made of the response
    body,     \* the records in the response
    tagged,   \* the response has a cache key
    answer,   \* the records a query returned
    seen,     \* the contents the registry had since the process began
    changes,  \* how often the registry has changed
    sessions  \* how many processes have ended

registryVars == <<index, listed, changes>>
dbVars == <<records, key>>
queryVars == <<pc, sent, reply, body, tagged, answer>>
vars == <<registryVars, dbVars, offline, queryVars, seen, sessions>>

Record == [version : Version, status : {"live", "yanked"}]

(* The index records of a content.                                         *)
RecordsOf(c) == {r \in Record : c[r.version] = r.status}

Matching(q, rs) == {r \in rs : r.version \in Matches[q]}

TypeOK ==
    /\ index \in Content /\ listed \in {"yes", "no", "again"}
    /\ records \subseteq Record
    /\ key \in Content \cup {NoKey}
    /\ offline \in BOOLEAN
    /\ pc \in [Query -> {"idle", "asking", "applying", "done", "failed"}]
    /\ sent \in [Query -> Content \cup {NoKey}]
    /\ reply \in [Query -> {"none", "not found", "in cache", "download"}]
    /\ body \in [Query -> Content]
    /\ tagged \in [Query -> BOOLEAN]
    /\ answer \in [Query -> SUBSET Record]
    /\ seen \subseteq Content /\ index \in seen
    /\ changes \in 0..MaxChanges /\ sessions \in 0..MaxSessions

Init ==
    /\ index \in Content /\ listed = "yes"
    /\ records = {} /\ key = NoKey
    /\ offline \in BOOLEAN
    /\ pc = [q \in Query |-> "idle"]
    /\ sent = [q \in Query |-> NoKey]
    /\ reply = [q \in Query |-> "none"]
    /\ body = [q \in Query |-> index]
    /\ tagged = [q \in Query |-> FALSE]
    /\ answer = [q \in Query |-> {}]
    /\ seen = {index}
    /\ changes = 0 /\ sessions = 0

-----------------------------------------------------------------------------
(* The registry                                                            *)

Change ==
    /\ changes < MaxChanges
    /\ changes' = changes + 1
    /\ UNCHANGED <<dbVars, offline, queryVars, sessions>>

(* A version is published or yanked.                                       *)
Edit(v) ==
    /\ Change
    /\ index' = [index EXCEPT ![v] = IF @ = "absent" THEN "live" ELSE "yanked"]
    /\ seen' = seen \cup {index'}
    /\ UNCHANGED listed

Unlist == listed # "no" /\ Change /\ listed' = "no"
                         /\ UNCHANGED <<index, seen>>

(* The registry had an outage, or the package is back.                     *)
Relist == listed = "no" /\ Change /\ listed' = "again"
                        /\ UNCHANGED <<index, seen>>

-----------------------------------------------------------------------------
(* The queries of a process                                                *)

(* get_records_cache_key; a failed lookup counts as no key.                *)
ReadKey(q) ==
    /\ pc[q] = "idle"
    /\ \E k \in {key, NoKey} : sent' = [sent EXCEPT ![q] = k]
    /\ pc' = [pc EXCEPT ![q] = "asking"]
    /\ UNCHANGED <<registryVars, dbVars, offline, reply, body, tagged, answer,
                   seen, sessions>>

Reply(q, r) ==
    /\ reply' = [reply EXCEPT ![q] = r]
    /\ pc' = [pc EXCEPT ![q] = "applying"]
    /\ UNCHANGED <<registryVars, dbVars, offline, sent, answer, seen,
                   sessions>>

(* Mutant of UseCache: whoever has a cache key does not ask.               *)
UseCache_Always(q) ==
    /\ pc[q] = "asking" /\ sent[q] # NoKey
    /\ Reply(q, "in cache") /\ UNCHANGED <<body, tagged>>

(* The network is not allowed, but there is a cached record.               *)
UseCache(q) ==
    /\ pc[q] = "asking" /\ offline /\ sent[q] # NoKey
    /\ Reply(q, "in cache") /\ UNCHANGED <<body, tagged>>

(* A conditional request: 404, 304 or the records.                         *)
Ask(q) ==
    /\ pc[q] = "asking" /\ ~offline
    /\ \/ listed = "no" /\ Reply(q, "not found") /\ UNCHANGED <<body, tagged>>
       \/ /\ listed # "no" /\ sent[q] = index
          /\ Reply(q, "in cache") /\ UNCHANGED <<body, tagged>>
       \/ /\ listed # "no" /\ sent[q] # index
          /\ Reply(q, "download")
          /\ body' = [body EXCEPT ![q] = index]
          /\ \E t \in BOOLEAN : tagged' = [tagged EXCEPT ![q] = t]

(* No network, an error status, or a body that does not parse.             *)
AskFails(q) ==
    /\ pc[q] = "asking" /\ (offline => sent[q] = NoKey)
    /\ pc' = [pc EXCEPT ![q] = "failed"]
    /\ UNCHANGED <<registryVars, dbVars, offline, sent, reply, body, tagged,
                   answer, seen, sessions>>

End(q, result, rs) ==
    /\ pc' = [pc EXCEPT ![q] = result]
    /\ answer' = [answer EXCEPT ![q] = rs]
    /\ UNCHANGED <<registryVars, offline, sent, reply, body, tagged, seen,
                   sessions>>

(* prune_records; an error of the database is only a warning.              *)
Prune(q) ==
    /\ pc[q] = "applying" /\ reply[q] = "not found"
    /\ records' \in {{}, records}
    /\ UNCHANGED key
    /\ End(q, "failed", {})

GetRecords(q) ==
    /\ pc[q] = "applying" /\ reply[q] = "in cache"
    /\ UNCHANGED dbVars
    /\ End(q, "done", Matching(q, records))

(* upsert_records, if the response has a cache key; one transaction, whose *)
(* failure is only a warning.                                              *)
Upsert(q) ==
    /\ pc[q] = "applying" /\ reply[q] = "download"
    /\ \/ /\ tagged[q]
          /\ key' = body[q]
          /\ records' = RecordsOf(body[q])
       \/ UNCHANGED dbVars
    /\ End(q, "done", Matching(q, RecordsOf(body[q])))

-----------------------------------------------------------------------------
(* The process ends, and another one opens the database.  If it was not    *)
(* closed cleanly, CacheDatabase::create refuses to repair it and starts   *)
(* from an empty one.                                                      *)
NextSession ==
    /\ sessions < MaxSessions
    /\ sessions' = sessions + 1
    /\ \/ UNCHANGED dbVars
       \/ records' = {} /\ key' = NoKey
    /\ UNCHANGED registryVars
    /\ offline' \in BOOLEAN
    /\ pc' = [q \in Query |-> "idle"]
    /\ sent' = [q \in Query |-> NoKey]
    /\ reply' = [q \in Query |-> "none"]
    /\ body' = [q \in Query |-> index]
    /\ tagged' = [q \in Query |-> FALSE]
    /\ answer' = [q \in Query |-> {}]
    /\ seen' = {index}

QueryStep(q) == \/ ReadKey(q) \/ UseCache(q) \/ Ask(q) \/ AskFails(q)
                \/ Prune(q) \/ GetRecords(q) \/ Upsert(q)

Next == \/ \E v \in Version : Edit(v)
        \/ Unlist \/ Relist
        \/ \E q \in Query : QueryStep(q)
        \/ NextSession

Spec == Init /\ [][Next]_vars

-----------------------------------------------------------------------------
(* Until the first 404 the cached records are those the cache key stands   *)
(* for: the registry's "not modified" is about the key, and get_records    *)
(* then reads the records (cache.rs:121).                                  *)
CacheMatchesKey ==
    listed = "yes" =>
        records = IF key = NoKey THEN {} ELSE RecordsOf(key)

(* An online query returns what matches of a content the registry had      *)
(* while this process ran: nothing is missing and nothing is outdated,     *)
(* however the queries and the changes of the registry interleave.         *)
CurrentAnswer ==
    \A q \in Query : pc[q] = "done" /\ ~offline =>
        \E c \in seen : answer[q] = Matching(q, RecordsOf(c))

(* So it is as long as the registry never says 404.                        *)
FreshAnswer == listed = "yes" => CurrentAnswer

-----------------------------------------------------------------------------
(* Matches of an instance for TLC: one query accepts one version only.     *)
OneIsSelective ==
    [q \in Query |-> IF Query # {q} /\ q = CHOOSE p \in Query : TRUE
                     THEN {CHOOSE v \in Version : TRUE} ELSE Version]
=============================================================================
