---------------------------- MODULE MacroMemory ----------------------------
(***************************************************************************)
(* Who owns the memory that crosses the border between scarb and the       *)
(* dynamic library of a procedural macro (src/plugins/cairo-lang-macro,    *)
(* v1/ffi.rs and v2/ffi.rs of the plugin).  Each side frees what it made,  *)
(* by a function the library exports where the library made it, and reads  *)
(* what the other made before that.  The types that cross are copied by    *)
(* value and have no destructors, so nothing but the order of the calls    *)
(* keeps a block alive for as long as it is read.                          *)
(*                                                                         *)
(* Since version 2 of the interface the text of a token is not in a block  *)
(* of its own: it is in an arena, and the token has a bare pointer there   *)
(* when it crosses.  An arena lives as long as something of its side holds *)
(* it.  The arena of a macro's tokens is CONTEXT, one of each thread, and  *)
(* replaced by each expansion.                                             *)
(***************************************************************************)
EXTENDS Naturals, FiniteSetsExt, Functions

CONSTANTS
    Caller,       \* threads that expand macros of one library
    MaxExpansions \* of all threads together

VARIABLES
    library,      \* what the library is, and how far it is loaded
    heap,         \* the blocks that are allocated
    frame,        \* of each thread: the call it makes
    context,      \* of each thread: the arena in CONTEXT
    cached,       \* of each thread: arenas that a macro's own tokens hold
    expansions,   \* calls of expand so far
    aborted       \* the process has ended

memoryVars == <<library, heap, frame, context, cached, expansions, aborted>>

NoFrame == [call |-> "none", at |-> "idle", given |-> <<>>, taken |-> <<>>,
            pointers |-> {}, careful |-> TRUE]

(* What may be found at the path of a macro's library: the version it      *)
(* declares, 1 if none, whether it has every function of the version, and  *)
(* whether two of its macros have one name.                                *)
MemoryInit ==
    /\ library \in [version : 1 .. 3, complete : BOOLEAN, distinct : BOOLEAN,
                    stage : {"closed"}]
    /\ heap = {}
    /\ frame = [t \in Caller |-> NoFrame]
    /\ context = [t \in Caller |-> <<t, 0>>]
    /\ cached = [t \in Caller |-> {}]
    /\ expansions = [t \in Caller |-> 0]
    /\ aborted = FALSE

-----------------------------------------------------------------------------
(* Values that cross, by the fields that are blocks of their own           *)

StreamMetadata == {"original_file_path", "file_id", "edition"}

(* The fields of each type that into_stable or as_stable make and that     *)
(* from_stable copies: slices are always there, what is optional or in a   *)
(* slice need not be.                                                      *)
Stream     == [slices |-> {"tokens"}, rest |-> StreamMetadata]
Diagnostic == [slices |-> {"diagnostics"}, rest |-> {"message", "span"}]
Result     == [slices |-> Stream.slices \cup Diagnostic.slices \cup {"full_path_markers"},
               rest   |-> Stream.rest \cup Diagnostic.rest \cup {"aux_data", "marker"}]
Context    == [slices |-> {"aux_datas", "full_path_markers"},
               rest   |-> {"aux_data", "key", "full_path"}]
Expansion  == [slices |-> {"expansions"}, rest |-> {"name"}]
Text       == [slices |-> {"text"}, rest |-> {}]

(* A pointer per field, to a block that `side` makes for this value.       *)
Allocated(t, side, value, fields) ==
    [f \in fields |-> [thread |-> t, side |-> side, value |-> value, field |-> f]]

(* free_owned_stable, and from_owned_stable in version 1: the slices are   *)
(* taken back, then what their elements and the other fields point at.     *)
FreedStream(v) ==
    {v[f] : f \in DOMAIN v \cap ({"tokens"} \cup StreamMetadata)}

FreedDiagnostics(v) == {v[f] : f \in DOMAIN v \cap {"diagnostics", "message", "span"}}

FreedMarkers(v) ==
    {v[f] : f \in DOMAIN v \cap {"full_path_markers", "marker", "key", "full_path"}}

FreedAuxData(v) == {v[f] : f \in DOMAIN v \cap {"aux_datas", "aux_data"}}

FreedTexts(v) == {v[f] : f \in DOMAIN v \cap {"text", "expansions", "name"}}

Freed(v) == FreedStream(v) \cup FreedDiagnostics(v) \cup FreedMarkers(v)
            \cup FreedAuxData(v) \cup FreedTexts(v)

FreedAll(values) == UNION {Freed(values[n]) : n \in DOMAIN values}

BlocksOf(values) == UNION {Range(values[n]) : n \in DOMAIN values}

-----------------------------------------------------------------------------
(* Arenas                                                                  *)

(* Of the host's tokens, which are arguments of generate_code.             *)
HostArena(t) == <<t, "host", 0>>

(* The arenas that something holds: a reference count of the code.         *)
Alive(t) ==
    {context[t]} \cup cached[t] \cup
    (IF frame[t].call = "expand" THEN {HostArena(t)} ELSE {})

-----------------------------------------------------------------------------
(* The host                                                                *)

(* The values the host makes for a call, with their types.                 *)
GivenTypes(call) ==
    CASE call = "list"         -> <<>>
      [] call = "expand"       -> [input |-> Stream, attr |-> Stream, name |-> Text]
      [] call = "post_process" -> [context |-> Context]
      [] call = "doc"          -> [name |-> Text]

Values(t, side, types, full) ==
    [n \in DOMAIN types |->
        Allocated(t, side, n, types[n].slices \cup IF full THEN types[n].rest ELSE {})]

(* A token crosses as a pointer to its text, which no free follows.        *)
TokenPointers(t, call) ==
    IF call = "expand" /\ library.version = 2 THEN {HostArena(t)} ELSE {}

MakeCall(t, call) ==
    \E full \in BOOLEAN :
        LET given == Values(t, "host", GivenTypes(call), full)
        IN  /\ frame' = [frame EXCEPT ![t] =
                   [NoFrame EXCEPT !.call = call, !.at = "called", !.given = given,
                                   !.pointers = TokenPointers(t, call)]]
            /\ heap' = heap \cup BlocksOf(given)

(* SharedPluginLibrary, and the functions of the version it declares.      *)
Opens == library.version \in {1, 2} /\ library.complete

(* get_or_load, up to the list of macros.  Nothing else calls the library  *)
(* before it has ended.                                                    *)
Load(t) ==
    /\ ~aborted /\ library.stage = "closed"
    /\ IF Opens
       THEN /\ library' = [library EXCEPT !.stage = "listing"]
            /\ MakeCall(t, "list")
       ELSE /\ library' = [library EXCEPT !.stage = "refused"]
            /\ UNCHANGED <<heap, frame>>
    /\ UNCHANGED <<context, cached, expansions, aborted>>

(* generate_code, post_process_callback and doc, up to the call.           *)
UseLibrary(t, call) ==
    /\ ~aborted /\ library.stage = "loaded" /\ frame[t].at = "idle"
    /\ call = "expand" => MapThenSumSet(LAMBDA u : expansions[u], Caller) < MaxExpansions
    /\ MakeCall(t, call)
    /\ UNCHANGED <<library, context, cached, expansions, aborted>>

(* After the call: what was given is freed, before or after what came back *)
(* is copied.                                                              *)
CopyResult(t) ==
    /\ ~aborted /\ frame[t].at = "returned"
    /\ heap' = heap \ FreedAll(frame[t].given)
    /\ frame' = [frame EXCEPT ![t].at = IF frame[t].taken = <<>> THEN "done" ELSE "copied",
                              ![t].given = <<>>, ![t].pointers = {}]
    /\ UNCHANGED <<library, context, cached, expansions, aborted>>

(* free_result, free_doc or free_expansions_list of the library.           *)
GiveBack(t) ==
    /\ ~aborted /\ frame[t].at = "copied"
    /\ heap' = heap \ FreedAll(frame[t].taken)
    /\ frame' = [frame EXCEPT ![t].at = "done", ![t].taken = <<>>]
    /\ UNCHANGED <<library, context, cached, expansions, aborted>>

(* The list of macros is checked when the memory is free again.            *)
EndCall(t) ==
    /\ ~aborted /\ frame[t].at = "done"
    /\ library' = IF frame[t].call # "list" THEN library
                  ELSE [library EXCEPT !.stage = IF @ = "listing" /\ library.distinct
                                                 THEN "loaded" ELSE "refused"]
    /\ frame' = [frame EXCEPT ![t] = NoFrame]
    /\ UNCHANGED <<heap, context, cached, expansions, aborted>>

-----------------------------------------------------------------------------
(* The library                                                             *)

Called(t, call) == ~aborted /\ frame[t].at = "called" /\ frame[t].call = call

(* A value of its own returned, with pointers into arenas.                 *)
ReturnValue(t, type, pointers, careful) ==
    \E full \in BOOLEAN :
        LET taken == Values(t, "library", [result |-> type], full)
        IN  /\ frame' = [frame EXCEPT ![t].at = "returned", ![t].taken = taken,
                                      ![t].pointers = pointers, ![t].careful = careful]
            /\ heap' = heap \cup BlocksOf(taken)

ListExpansions(t) ==
    /\ Called(t, "list")
    /\ ReturnValue(t, Expansion, {}, TRUE)
    /\ UNCHANGED <<library, context, cached, expansions, aborted>>

(* Mutant of HoldContext: CONTEXT is one for the whole library.            *)
HoldContext_Shared(t, arena) == context' = [u \in Caller |-> arena]

(* CONTEXT.replace: what was there is freed unless a token is in it.       *)
HoldContext(t, arena) == context' = [context EXCEPT ![t] = arena]

(* expand of version 2: the input is copied into a new arena, and the      *)
(* macro returns tokens of it, of arenas it holds, or of one it made by    *)
(* itself, and may hold other tokens from then on.  The result points into *)
(* their arenas without a guard, for into_stable drops the guards.  A      *)
(* macro is careful if its tokens are in this arena or in one it holds.    *)
ExpandTokens(t) ==
    /\ Called(t, "expand") /\ library.version = 2
    /\ LET new == <<t, "context", expansions[t] + 1>>
           own == <<t, "own", expansions[t] + 1>>
       IN  /\ HoldContext(t, new)
           /\ \E hold \in SUBSET (cached[t] \cup {new}) :
                  cached' = [cached EXCEPT ![t] = hold]
           /\ \E tokens \in SUBSET ({new, own} \cup cached[t]) :
                  ReturnValue(t, Result, tokens, tokens \subseteq {new} \cup cached'[t])
    /\ expansions' = [expansions EXCEPT ![t] = @ + 1]
    /\ UNCHANGED <<library, aborted>>

(* expand of version 1: a stream is one string, a block of its own.        *)
ExpandText(t) ==
    /\ Called(t, "expand") /\ library.version = 1
    /\ ReturnValue(t, Result, {}, TRUE)
    /\ expansions' = [expansions EXCEPT ![t] = @ + 1]
    /\ UNCHANGED <<library, context, cached, aborted>>

(* The callbacks get copies; the context goes back as it came.             *)
CallBack(t) ==
    /\ Called(t, "post_process")
    /\ frame' = [frame EXCEPT ![t].at = "returned"]
    /\ UNCHANGED <<library, heap, context, cached, expansions, aborted>>

Doc(t) ==
    /\ Called(t, "doc")
    /\ ReturnValue(t, Text, {}, TRUE)
    /\ UNCHANGED <<library, context, cached, expansions, aborted>>

(* The functions are extern "C": a panic of the macro ends the process.    *)
Panic(t) ==
    /\ \E call \in {"expand", "post_process"} : Called(t, call)
    /\ aborted' = TRUE
    /\ UNCHANGED <<library, heap, frame, context, cached, expansions>>

MemoryNext ==
    \E t \in Caller :
        \/ Load(t)
        \/ \E call \in {"expand", "post_process", "doc"} : UseLibrary(t, call)
        \/ CopyResult(t) \/ GiveBack(t) \/ EndCall(t)
        \/ ListExpansions(t) \/ ExpandTokens(t) \/ ExpandText(t)
        \/ CallBack(t) \/ Doc(t) \/ Panic(t)

MemorySpec == MemoryInit /\ [][MemoryNext]_memoryVars

-----------------------------------------------------------------------------

(* What the next step of a thread reads is there: the blocks that crossed  *)
(* in either direction, and the arenas that tokens point into, whatever    *)
(* the macro keeps and whatever other threads expand meanwhile.  A macro   *)
(* that returns tokens of an arena nothing holds is on its own.  Each      *)
(* block is freed once and by its maker: a thread without a call has none. *)
MemoryIsLive ==
    \A t \in Caller :
        /\ BlocksOf(frame[t].given) \cup BlocksOf(frame[t].taken) \subseteq heap
        /\ frame[t].careful => frame[t].pointers \subseteq Alive(t)
        /\ frame[t].at \in {"idle", "done"} => \A b \in heap : b.thread # t
=============================================================================
