--------------------------- MODULE ExpansionSpans ---------------------------
(***************************************************************************)
(* Where the tokens of an item are while an attribute macro expands it     *)
(* (src/scarb/src/compiler/plugin/proc_macro/v2/host/attribute/            *)
(* span_adapter.rs).  The macro is not given its own attribute, and must   *)
(* see an input without gaps that starts at 0: so what precedes the        *)
(* attribute and what follows it are moved together, and the call site is  *)
(* put behind them.  What the macro returns is moved back.                 *)
(*                                                                         *)
(* One token of the item stands for all: it is moved by itself.  A span is *)
(* [start, end]; offsets are unsigned words.                               *)
(***************************************************************************)
EXTENDS Naturals, Integers

CONSTANTS MaxOffset,  \* the end of the longest file
          WordSize    \* the values of a word: 2^32

ASSUME OffsetsAssumption ==
    /\ MaxOffset \in Nat /\ WordSize \in Nat
    /\ 2 * MaxOffset < WordSize

VARIABLES
    loc,        \* the spans of the item and of the attribute, with and
                \* without the trivia around it
    token,      \* the span of a token in the file
    seen,       \* its span in the input of the macro
    emitted,    \* what the macro returned: about the token or the call site
    shown,      \* the span the compiler shows to the user
    spanStage   \* "parsed", "adapted", "expanded", "shown" or "panicked"

spanVars == <<loc, token, seen, emitted, shown, spanStage>>

Span == [start : 0 .. MaxOffset, end : 0 .. MaxOffset]

Width(span) == span.end - span.start

Moved(span, n) == [start |-> span.start + n, end |-> span.end + n]

Location ==
    {l \in [item : Span, attr : Span, bare : Span] :
        /\ l.item.start <= l.attr.start /\ l.attr.start <= l.bare.start
        /\ l.bare.start < l.bare.end
        /\ l.bare.end <= l.attr.end /\ l.attr.end <= l.item.end}

(* A token that is left of the item without the attribute.                 *)
Left(l) ==
    {s \in Span : /\ l.item.start <= s.start /\ s.start < s.end
                  /\ s.end <= l.item.end
                  /\ s.end <= l.attr.start \/ l.attr.end <= s.start}

None == [start |-> 0, end |-> 0]

SpanInit ==
    /\ loc \in Location /\ token \in Left(loc)
    /\ seen = None /\ emitted = "nothing" /\ shown = None
    /\ spanStage = "parsed"

-----------------------------------------------------------------------------
(* adapted_call_site: as if the attribute were the last token.             *)
CallSite(l) == LET start == Width(l.item) - Width(l.bare)
               IN  [start |-> start, end |-> start + Width(l.bare)]

(* adapt_token_stream                                                      *)
Adapted(l, span) ==
    IF span.start < l.attr.start THEN Moved(span, -l.item.start)
    ELSE IF span.end < l.attr.end
    THEN Moved(span, Width(l.item) - Width(l.attr) - l.attr.start)
    ELSE Moved(span, -(Width(l.attr) + l.item.start))

Adapt ==
    /\ spanStage = "parsed" /\ spanStage' = "adapted"
    /\ seen' = Adapted(loc, token)
    /\ UNCHANGED <<loc, token, emitted, shown>>

(* The macro keeps the token, or makes one of its own at the call site.    *)
Expand ==
    /\ spanStage = "adapted" /\ spanStage' = "expanded"
    /\ emitted' \in {"token", "call site"}
    /\ UNCHANGED <<loc, token, seen, shown>>

Emitted == IF emitted = "token" THEN seen ELSE CallSite(loc)

(* What both functions that move back do with a span before the call site. *)
MovedBack(l, span) ==
    IF span.start < l.attr.start - l.item.start
    THEN Moved(span, l.item.start)
    ELSE Moved(span, Width(l.attr) + l.item.start)

(* Mutant of OfInput: the offset of the item is forgotten.                 *)
OfInput_FromFileStart(l, span) == span.start < l.item.end - Width(l.attr)

OfInput(l, span) == span.start < Width(l.item) - Width(l.attr)

(* adapt_code_mappings: `move_callsite` adds before it subtracts.          *)
MapBack ==
    /\ spanStage = "expanded" /\ spanStage' = "shown"
    /\ shown' = IF OfInput(loc, Emitted) THEN MovedBack(loc, Emitted)
                ELSE Moved(Emitted, (Width(loc.bare) + loc.bare.start)
                                    - Width(loc.item))
    /\ UNCHANGED <<loc, token, seen, emitted>>

Word(n) == IF n < 0 THEN n + WordSize ELSE IF n < WordSize THEN n ELSE n - WordSize

(* adapt_diagnostics computes the distance to the call site first, and it  *)
(* may be negative: a build with checked arithmetic panics, one without    *)
(* goes around twice.                                                      *)
Diagnose ==
    /\ spanStage = "expanded"
    /\ LET distance == (Width(loc.bare) + loc.bare.start) - Width(loc.item)
           around(n) == Word(n + Word(distance))
       IN  \/ /\ OfInput(loc, Emitted)
              /\ spanStage' = "shown" /\ shown' = MovedBack(loc, Emitted)
           \/ /\ ~OfInput(loc, Emitted)
              /\ spanStage' = "shown"
              /\ shown' = [start |-> around(Emitted.start),
                           end   |-> around(Emitted.end)]
           \/ /\ ~OfInput(loc, Emitted) /\ distance < 0
              /\ spanStage' = "panicked" /\ UNCHANGED shown
    /\ UNCHANGED <<loc, token, seen, emitted>>

SpanNext == Adapt \/ Expand \/ MapBack \/ Diagnose

SpanSpec == SpanInit /\ [][SpanNext]_spanVars

-----------------------------------------------------------------------------
(* What a macro says of a token is shown at that token of the file, and    *)
(* what it says of the call site at its own attribute without the trivia,  *)
(* wherever the attribute is among the others; the input lies before the   *)
(* call site, so that the two are not confused.  A build with checked      *)
(* arithmetic panics at a diagnostic of the call site only, and only if    *)
(* the attribute ends nearer to the start of the file than the item is     *)
(* wide.                                                                   *)
SpansReturn ==
    /\ spanStage # "parsed" => 0 <= seen.start /\ seen.end <= CallSite(loc).start
    /\ spanStage = "shown" =>
           shown = IF emitted = "token" THEN token ELSE loc.bare
    /\ spanStage = "panicked" =>
           emitted = "call site" /\ loc.bare.end < Width(loc.item)
=============================================================================
