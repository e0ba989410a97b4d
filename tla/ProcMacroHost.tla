--------------------------- MODULE ProcMacroHost ---------------------------
(***************************************************************************)
(* The compiler plugin through which procedural macros act on a program    *)
(* (src/scarb/src/compiler/plugin/proc_macro).  Each component of a unit   *)
(* has a host with the macro packages the component depends on.  The       *)
(* compiler hands the host one item after the other, and what the host     *)
(* generates from an item comes back to it as a new item; so a call of the *)
(* host expands the first attribute macro only, that of a function of a    *)
(* trait or an impl before those of the item itself, and derives last.     *)
(* After the compilation every host calls every macro package back with    *)
(* the data its macros left in the program.                                *)
(*                                                                         *)
(* The hosts of both versions of the macro API, v1/host.rs and v2/host,    *)
(* have the control modelled here; a unit is modelled with one of them.    *)
(* An item is what the host reads of it: attributes, derives, functions    *)
(* and full path markers.  A macro returns anything the API allows, but    *)
(* leaves the other attributes of its input where they are.                *)
(***************************************************************************)
EXTENDS Naturals, Sequences, FiniteSets, SequencesExt

CONSTANTS
    Component,    \* of the compilation unit
    Expansions,   \* [package, name, kind] of every macro
    Units,        \* to compile: [items, macrosOf], the macro packages that
                  \* each component depends on
    Results,      \* what a macro may return: [stream, data, keys]
    Missing

(* Functions of a trait or an impl, and items.  "item" and "derive" say in *)
(* a call that the macro was not that of a function.                       *)
Func == [name : STRING \ {"item", "derive"}, attrs : Seq(STRING)]
Item == [component : Component,
         kind : {"struct", "function", "trait", "impl", "other"},
         name : STRING \cup (STRING \X {"derived"}), attrs : Seq(STRING),
         derives : Seq(STRING), funcs : Seq(Func), keys : SUBSET STRING]

(* A name is that of one item of the program and, in it, of one function.  *)
ASSUME HostAssumption ==
    /\ Results \subseteq [stream : {"empty", "same", "changed"},
                          data : BOOLEAN, keys : SUBSET STRING]
    /\ \A result \in Results : result.keys # Missing
    /\ Missing \notin [name : STRING, others : Seq(STRING), last : BOOLEAN]
    /\ \A u \in Units :
           /\ u.items \in Seq(Item)
           /\ \A i, j \in DOMAIN u.items :
                  /\ u.items[i].name \in STRING
                  /\ u.items[i].name = u.items[j].name => i = j
                  /\ <<u.items[j].name, "derived">> # u.items[i].name
           /\ \A i \in DOMAIN u.items :
                  LET funcs == u.items[i].funcs
                  IN  \A k, l \in DOMAIN funcs :
                         funcs[k].name = funcs[l].name => k = l

VARIABLES
    unit,         \* what is compiled
    hostStage,    \* "loading", "expanding" or "failed"
    pending,      \* items the compiler has not visited
    kept,         \* items it has visited and that stay in the program
    files,        \* the data attached to generated files, by its call
    registered,   \* the full path markers each host knows of each package
    macroCalls,   \* history: the calls of macros
    callbacks     \* the calls of post-processing callbacks

hostVars == <<unit, hostStage, pending, kept, files, registered,
              macroCalls, callbacks>>

HostInit ==
    /\ unit \in Units
    /\ hostStage = "loading"
    /\ pending = unit.items /\ kept = {}
    /\ files = {} /\ macroCalls = <<>> /\ callbacks = {}
    /\ registered = [c \in Component |-> [p \in unit.macrosOf[c] |-> Missing]]

-----------------------------------------------------------------------------
(* The instances of a host                                                 *)

Declared(c) == {e \in Expansions : e.package \in unit.macrosOf[c]}

(* find_expansion: names are unique in a host that was made.               *)
FindExpansion(c, name, kind) ==
    IF \E e \in Declared(c) : e.name = name /\ e.kind = kind
    THEN (CHOOSE e \in Declared(c) : e.name = name /\ e.kind = kind).package
    ELSE Missing

Macros(c, kind) == {e.name : e \in {d \in Declared(c) : d.kind = kind}}

IsAttr(c, name) == name \in Macros(c, "attr")

(* The macros of two packages that a component depends on have one name.   *)
Ambiguous(c) == \E e, f \in Declared(c) : e # f /\ e.name = f.name

(* try_from_instances and try_new                                          *)
LoadHosts ==
    /\ hostStage = "loading"
    /\ hostStage' = IF \E c \in Component : Ambiguous(c) THEN "failed"
                                                         ELSE "expanding"
    /\ UNCHANGED <<unit, pending, kept, files, registered, macroCalls,
                   callbacks>>

-----------------------------------------------------------------------------
(* Reading an item                                                         *)

AttrsWithin(item) ==
    UNION {ToSet(item.funcs[k].attrs) : k \in DOMAIN item.funcs}

UsesProcMacros(item) ==
    \/ \E e \in Declared(item.component) :
           /\ e.kind \in {"attr", "executable"}
           /\ e.name \in ToSet(item.attrs) \cup AttrsWithin(item)
    \/ item.keys # {}
    \/ item.derives # <<>>

(* Mutant of ParseAttrs: every attribute that is found is the last one.    *)
ParseAttrs_Last(c, attrs) ==
    LET i == SelectInSeq(attrs, LAMBDA a : IsAttr(c, a))
    IN  IF i = 0 THEN Missing
        ELSE [name |-> attrs[i], others |-> RemoveAt(attrs, i), last |-> TRUE]

(* The first attribute that is a macro, the attributes without it, and     *)
(* whether there is no other one among them.                               *)
ParseAttrs(c, attrs) ==
    LET i == SelectInSeq(attrs, LAMBDA a : IsAttr(c, a))
    IN  IF i = 0 THEN Missing
        ELSE [name   |-> attrs[i],
              others |-> RemoveAt(attrs, i),
              last   |-> \A j \in i + 1 .. Len(attrs) : ~IsAttr(c, attrs[j])]

(* The first function with an attribute that is a macro.                   *)
FirstInner(item) ==
    SelectInSeq(item.funcs,
                LAMBDA f : ParseAttrs(item.component, f.attrs) # Missing)

(* The names of a sequence that are in a set, in their order.              *)
Chosen(names, set) ==
    FlattenSeq([i \in 1 .. Len(names) |->
                   IF names[i] \in set THEN <<names[i]>> ELSE <<>>])

ParseDerive(item) == Chosen(item.derives, Macros(item.component, "derive"))

-----------------------------------------------------------------------------
(* Writing what a macro returned                                           *)

Call(item, at, name, kind, result) ==
    [component |-> item.component, item |-> item.name, at |-> at,
     macro |-> name, result |-> result,
     package |-> FindExpansion(item.component, name, kind)]

(* register_full_path_markers: of a package that has an entry, the closure *)
(* extends the entry by itself, for its parameter hides the new markers.   *)
Register(c, p, keys) ==
    registered' = [registered EXCEPT ![c][p] = IF @ = Missing THEN keys ELSE @]

Visited(item) == hostStage = "expanding" /\ pending # <<>> /\ item = Head(pending)

Leave(item) ==
    /\ kept' = kept \cup {item}
    /\ pending' = Tail(pending)

(* remove_original_item, and a generated file with the item as it is now.  *)
Rewrite(item) ==
    /\ pending' = Append(Tail(pending), item)
    /\ UNCHANGED kept

Marked(item, result) ==
    IF result.stream = "changed" THEN [item EXCEPT !.keys = @ \cup result.keys]
                                 ELSE item

Attach(calls) ==
    files' = files \cup {i \in calls : macroCalls'[i].result.data}

Extended(item, k, func) ==
    [item EXCEPT !.funcs = SubSeq(@, 1, k - 1) \o func]

-----------------------------------------------------------------------------
(* generate_code                                                           *)

(* The item uses no macros, or none that are left to expand.               *)
Untouched(item) ==
    /\ Visited(item)
    /\ UsesProcMacros(item) =>
           /\ FirstInner(item) = 0
           /\ ParseAttrs(item.component, item.attrs) = Missing
           /\ ParseDerive(item) = <<>>
    /\ Leave(item)
    /\ UNCHANGED <<unit, hostStage, files, registered, macroCalls,
                   callbacks>>

(* expand_inner_attr: `all_none && ..` does not look at the functions that *)
(* follow one that was expanded, and they do not get into the builder.     *)
ExpandInnerAttr(item) ==
    /\ Visited(item) /\ UsesProcMacros(item)
    /\ LET k     == FirstInner(item)
           func  == item.funcs[k]
           found == ParseAttrs(item.component, func.attrs)
       IN  /\ k # 0
           /\ \E result \in Results :
                  LET call == Call(item, func.name, found.name, "attr", result)
                  IN  /\ macroCalls' = Append(macroCalls, call)
                      /\ IF result.stream = "same" THEN UNCHANGED registered
                         ELSE Register(call.component, call.package, result.keys)
                      /\ Attach({Len(macroCalls) + 1})
                      /\ Rewrite(Extended(item, k,
                             IF result.stream = "empty" THEN <<>>
                             ELSE <<[func EXCEPT !.attrs = found.others]>>))
    /\ UNCHANGED <<unit, hostStage, callbacks>>

(* Mutant of Optimised: the data of the macro is forgotten.                *)
Optimised_WithData(found, result) == found.last /\ result.stream = "same"

(* "In essence [..] ProcMacroHost will not be called again".               *)
Optimised(found, result) ==
    found.last /\ ~result.data /\ result.stream = "same"

(* expand_attribute                                                        *)
ExpandAttribute(item) ==
    /\ Visited(item) /\ UsesProcMacros(item) /\ FirstInner(item) = 0
    /\ LET found == ParseAttrs(item.component, item.attrs)
       IN  /\ found # Missing
           /\ \E result \in Results :
                  LET call == Call(item, "item", found.name, "attr", result)
                  IN  /\ macroCalls' = Append(macroCalls, call)
                      /\ \/ /\ result.stream = "empty"
                            /\ pending' = Tail(pending)
                            /\ UNCHANGED <<kept, files, registered>>
                         \/ /\ result.stream # "empty"
                            /\ Register(call.component, call.package, result.keys)
                            /\ IF Optimised(found, result)
                               THEN Leave(item) /\ UNCHANGED files
                               ELSE /\ Rewrite(Marked([item EXCEPT
                                           !.attrs = found.others], result))
                                    /\ Attach({Len(macroCalls) + 1})
    /\ UNCHANGED <<unit, hostStage, callbacks>>

DerivedFrom(item) ==
    [item EXCEPT !.name = <<item.name, "derived">>, !.kind = "impl",
                 !.attrs = <<>>, !.derives = <<>>, !.keys = {}]

(* expand_derives: all of them in one call, and the item stays.            *)
ExpandDerives(item) ==
    /\ Visited(item) /\ UsesProcMacros(item)
    /\ FirstInner(item) = 0
    /\ ParseAttrs(item.component, item.attrs) = Missing
    /\ LET derives == ParseDerive(item)
           first   == Len(macroCalls) + 1
       IN  /\ derives # <<>>
           /\ \E result \in [DOMAIN derives -> Results] :
                  /\ macroCalls' = macroCalls \o [i \in DOMAIN derives |->
                         Call(item, "derive", derives[i], "derive", result[i])]
                  /\ kept' = kept \cup {item}
                  /\ IF \E i \in DOMAIN derives : result[i].stream # "empty"
                     THEN /\ pending' = Append(Tail(pending), DerivedFrom(item))
                          /\ Attach(first .. Len(macroCalls'))
                     ELSE pending' = Tail(pending) /\ UNCHANGED files
    /\ UNCHANGED <<unit, hostStage, registered, callbacks>>

-----------------------------------------------------------------------------
(* post_process                                                            *)

(* collect_aux_data: from the whole program, grouped by package.           *)
DataOf(p) == {i \in files : macroCalls[i].package = p}

MarkedItems(key) ==
    {item \in kept : item.kind \in {"struct", "function"} /\ key \in item.keys}

KeysOf(c, p) == IF registered[c][p] = Missing THEN {} ELSE registered[c][p]

CalledBack(c) == \E call \in callbacks : call.component = c

(* Hosts come in any order; of a key on several items any one wins.        *)
PostProcess(c) ==
    /\ hostStage = "expanding" /\ pending = <<>>
    /\ unit.macrosOf[c] # {} /\ ~CalledBack(c)
    /\ LET keys == {k \in UNION {item.keys : item \in kept} : MarkedItems(k) # {}}
       IN  \E path \in [keys -> {item.name : item \in kept}] :
               /\ \A k \in keys :
                      \E item \in MarkedItems(k) : path[k] = item.name
               /\ callbacks' = callbacks \cup
                      {[component |-> c, package |-> p, data |-> DataOf(p),
                        paths |-> {<<k, path[k]>> : k \in keys \cap KeysOf(c, p)}] :
                           p \in unit.macrosOf[c]}
    /\ UNCHANGED <<unit, hostStage, pending, kept, files, registered,
                   macroCalls>>

HostNext ==
    \/ LoadHosts
    \/ \E item \in ToSet(pending) :
           \/ Untouched(item) \/ ExpandInnerAttr(item)
           \/ ExpandAttribute(item) \/ ExpandDerives(item)
    \/ \E c \in Component : PostProcess(c)

HostSpec == HostInit /\ [][HostNext]_hostVars

-----------------------------------------------------------------------------
CallsAt(name, at) ==
    FlattenSeq([i \in 1 .. Len(macroCalls) |->
                   IF macroCalls[i].item = name /\ macroCalls[i].at = at
                   THEN <<macroCalls[i].macro>> ELSE <<>>])

LastOf(name) ==
    SelectLastInSeq(macroCalls, LAMBDA call : call.item = name)

(* The item stayed as it was after its last attribute, and never came back *)
(* to the host for its derives.                                            *)
LeftAlone(name) ==
    LET i == LastOf(name)
    IN  /\ i # 0 /\ macroCalls[i].at = "item"
        /\ macroCalls[i].result.stream = "same" /\ ~macroCalls[i].result.data

(* A function is missing from its trait or impl only when a macro took it  *)
(* away, or when it followed one with a macro of its own.                  *)
LostFunc(item, k) ==
    LET func == item.funcs[k].name
    IN  \/ \E i \in DOMAIN macroCalls :
               /\ macroCalls[i].item = item.name /\ macroCalls[i].at = func
               /\ macroCalls[i].result.stream = "empty"
        \/ FirstInner(item) \in 1 .. k - 1

(* Macros act on an item in the order they are written, each once, however *)
(* often the item comes back: those of a function, then its own, then      *)
(* derives.  None is left out of an item that stays, but for derives after *)
(* an attribute that changed nothing (host.rs:712).                        *)
MacrosExpanded ==
    hostStage = "expanding" => \A item \in ToSet(unit.items) :
        LET c       == item.component
            attrs   == Chosen(item.attrs, Macros(c, "attr"))
            derives == ParseDerive(item)
        IN  /\ IsPrefix(CallsAt(item.name, "item"), attrs)
            /\ CallsAt(item.name, "derive") \in {<<>>, derives}
            /\ \A i, j \in DOMAIN macroCalls :
                   /\ i < j /\ macroCalls[i].item = item.name
                   /\ macroCalls[j].item = item.name
                   => /\ macroCalls[i].at = "derive" => macroCalls[j].at = "derive"
                      /\ macroCalls[i].at = "item" =>
                             macroCalls[j].at \in {"item", "derive"}
            /\ \A now \in {k \in kept : k.name = item.name} :
                   /\ CallsAt(item.name, "item") = attrs
                   /\ \/ CallsAt(item.name, "derive") = derives
                      \/ LeftAlone(item.name)
                   /\ \A k \in DOMAIN item.funcs :
                          LET func == item.funcs[k]
                          IN  IF \E f \in ToSet(now.funcs) : f.name = func.name
                              THEN CallsAt(item.name, func.name) =
                                       Chosen(func.attrs, Macros(c, "attr"))
                              ELSE LostFunc(item, k)

(* Data is attached to a file: what the macro generated, or, of a derive,  *)
(* what any derive of the item did.                                        *)
HasFile(i) ==
    LET call == macroCalls[i]
    IN  CASE call.at = "item" -> call.result.stream # "empty"
          [] call.at = "derive" ->
                 \E j \in DOMAIN macroCalls :
                     /\ macroCalls[j].item = call.item /\ macroCalls[j].at = "derive"
                     /\ macroCalls[j].result.stream # "empty"
          [] OTHER -> TRUE

(* The first expansion of a package in a host that counts for its markers. *)
Registering(c, p) ==
    SelectInSeq(macroCalls, LAMBDA call :
        /\ call.component = c /\ call.package = p
        /\ CASE call.at = "item" -> call.result.stream # "empty"
             [] call.at = "derive" -> FALSE
             [] OTHER -> call.result.stream # "same")

(* Every callback of a package gets the data of all its macros in the      *)
(* program and of no other's, and the paths of the marked items its first  *)
(* expansion named in that host; it is called once for each component that *)
(* depends on it.                                                          *)
DataDelivered ==
    \A call \in callbacks :
        LET c == call.component
            p == call.package
            i == Registering(c, p)
        IN  /\ call.data = {j \in DOMAIN macroCalls :
                   /\ macroCalls[j].package = p /\ macroCalls[j].result.data
                   /\ HasFile(j)}
            /\ {path[1] : path \in call.paths} =
                   IF i = 0 THEN {}
                   ELSE {k \in macroCalls[i].result.keys : MarkedItems(k) # {}}
            /\ \A path \in call.paths :
                   \E item \in MarkedItems(path[1]) : path[2] = item.name
            /\ \A other \in callbacks :
                   other.component = c /\ other.package = p => other = call
=============================================================================
