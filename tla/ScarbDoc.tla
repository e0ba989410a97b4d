------------------------------ MODULE ScarbDoc ------------------------------
(***************************************************************************)
(* How scarb-doc turns a crate into a book (src/extensions/scarb-doc):     *)
(* types/ builds the tree of documented modules and the groups, and        *)
(* docs_generation/markdown/ the pages and SUMMARY.md.  The pages of the   *)
(* root crate, of foreign crates and of groups are generated one part      *)
(* after another, and each makes links to pages of the others by their     *)
(* names alone: nothing in the code tells whether the page is there.       *)
(*                                                                         *)
(* Elements are named by their full paths.  The kind of one is the name of *)
(* the list it is in: "structs", "modules" and so on, and "part" for what  *)
(* has no page of its own (members, variants, functions of traits).  A     *)
(* page has the name of its file, `::` and `-` alike: a path, or a path    *)
(* and a kind for a list.  No group is named as a crate, and a crate is    *)
(* not re-exported as a whole.                                             *)
(***************************************************************************)
EXTENDS Naturals, SequencesExt, TLC

CONSTANTS
    Programs, \* of each element: what the compiler knows of it
    RootCrate,
    NoGroup

VARIABLES
    program,  \* the elements of the crates
    private,  \* include_private_items
    tree,     \* the modules of root_module and foreign_crates, by path
    pending,  \* re-exported elements that are to get a place in the tree
    summary,  \* links of SUMMARY.md
    files,    \* the pages on the disk, by name
    docStage

docVars == <<program, private, tree, pending, summary, files, docStage>>

(* Private items are documented if asked, or if the edition ignores        *)
(* visibility.                                                             *)
DocInit ==
    /\ program \in Programs
    /\ private \in BOOLEAN
    /\ tree = <<>> /\ pending = {} /\ summary = {} /\ files = <<>>
    /\ docStage = "parsed"

-----------------------------------------------------------------------------
(* The items                                                               *)

Kind(e) == program[e].kind

(* find_groups_from_attributes: of the doc attribute of the element.       *)
GroupOf(e) == program[e].group

HasPage(e) == Kind(e) # "part"

Ancestors(e) == {SubSeq(e, 1, n) : n \in 1 .. Len(e)}

Children(e) == {x \in DOMAIN program : Len(x) = Len(e) + 1 /\ Front(x) = e}

(* Of a hidden trait, or if all arguments of the trait are hidden: one     *)
(* that is not a concrete type does not count, so none need be left.       *)
HideImpl(e) ==
    /\ Kind(e) = "impls"
    /\ \/ program[program[e].trait].hidden
       \/ /\ program[e].args # {}
          /\ \A a \in program[e].args \cap DOMAIN program : program[a].hidden

ShouldInclude(e) == (private \/ program[e].public) /\ ~program[e].hidden

Included(m) == {e \in Children(m) : ShouldInclude(e) /\ ~HideImpl(e)}

Members(e) == {x \in Children(e) : ShouldInclude(x)}

(* Members are filtered; variants and what is in a trait or impl are not.  *)
PartsOf(e) == IF Kind(e) = "structs" THEN Members(e) ELSE Children(e)

(* ItemData::parent_full_path: a part has the module of what it is in.     *)
ParentModule(e) == IF HasPage(e) THEN Front(e) ELSE Front(Front(e))

(* ModulePubUses: what the public `use` items resolve to.                  *)
PubUsesOf(m) == {u.target : u \in {v \in program[m].uses : v.public}}

(* aggregate_constants_groups and the like.                                *)
Aggregated(elements) == {e \in elements : GroupOf(e) # NoGroup}

(* Module::new without its submodules: what has a group is in the group    *)
(* only, and what is re-exported is in its group too, but not if private   *)
(* items are included.                                                     *)
NewModule(m) ==
    [items   |-> {e \in Included(m) \ Aggregated(Included(m)) : Kind(e) # "modules"},
     grouped |-> Aggregated(Included(m) \cup IF private THEN {} ELSE PubUsesOf(m)),
     uses    |-> PubUsesOf(m)]

NewVirtual == [items |-> {}, grouped |-> {}, uses |-> {}]

(* The submodules without a group, which Module::new calls itself for.     *)
Submodules(m) ==
    {e \in Included(m) \ Aggregated(Included(m)) : Kind(e) = "modules"}

(* What a call for m makes, by path.                                       *)
RECURSIVE Nested(_)
Nested(m) == {m} \cup UNION {Nested(s) : s \in Submodules(m)}

Documented(m) == [p \in Nested(m) |-> NewModule(p)]

-----------------------------------------------------------------------------
(* The tree                                                                *)

(* collect_pubuses, of the tree that Module::new made: the re-exports of   *)
(* modules in groups and of modules that are re-exported are not in it.    *)
PubUses(modules) == UNION {modules[m].uses : m \in DOMAIN modules}

DocumentCrate ==
    /\ docStage = "parsed"
    /\ tree' = Documented(RootCrate)
    /\ pending' = PubUses(tree')
    /\ docStage' = "reexports"
    /\ UNCHANGED <<program, private, summary, files>>

(* Mutant of EnsureModuleStructure: only the parent is made.               *)
EnsureModuleStructure_Parent(e) ==
    tree @@ [p \in {Front(e)} |-> NewVirtual]

(* A virtual module for each ancestor that is not documented.              *)
EnsureModuleStructure(e) ==
    tree @@ [p \in Ancestors(e) \ {e} |-> NewVirtual]

(* insert_struct and the like: into the group of the item, if it has one.  *)
InsertItem(e) ==
    /\ docStage = "reexports" /\ e \in pending /\ Kind(e) # "modules"
    /\ LET field == IF GroupOf(e) = NoGroup THEN "items" ELSE "grouped"
       IN  tree' = [EnsureModuleStructure(e) EXCEPT ![Front(e)][field] = @ \cup {e}]
    /\ pending' = pending \ {e}
    /\ UNCHANGED <<program, private, summary, files, docStage>>

(* merge_modules: of a module that is there already only the items are     *)
(* taken over, not the groups.                                             *)
MergeModules(modules, new) ==
    [p \in DOMAIN modules \cup DOMAIN new |->
        IF p \notin DOMAIN modules THEN new[p]
        ELSE IF p \notin DOMAIN new THEN modules[p]
        ELSE [modules[p] EXCEPT !.items = @ \cup new[p].items]]

(* Modules after all items, in the order of the source, which is any.      *)
InsertModule(m) ==
    /\ docStage = "reexports" /\ m \in pending
    /\ \A e \in pending : Kind(e) = "modules"
    /\ LET modules == EnsureModuleStructure(m)
       IN  tree' = IF m \in DOMAIN modules \/ GroupOf(m) = NoGroup
                   THEN MergeModules(modules, Documented(m)) ELSE modules
    /\ pending' = pending \ {m}
    /\ UNCHANGED <<program, private, summary, files, docStage>>

(* collect_groups: what is grouped in the tree, in modules that are in a   *)
(* group themselves, and so on.  Those are as Module::new made them.       *)
RECURSIVE AlsoGrouped(_)
AlsoGrouped(elements) ==
    LET copies == UNION {Nested(e) : e \in {x \in elements : Kind(x) = "modules"}}
        more   == elements \cup UNION {NewModule(m).grouped : m \in copies}
    IN  IF more = elements THEN elements ELSE AlsoGrouped(more)

Grouped == AlsoGrouped(UNION {tree[m].grouped : m \in DOMAIN tree})

InGroup(g, elements) == {e \in elements : GroupOf(e) = g}
GroupsOf(elements) == {GroupOf(e) : e \in elements}

(* The modules of the tree, and those that a group has a copy of.          *)
TreeModules == [m \in DOMAIN tree |->
    [own |-> tree[m],
     listed |-> tree[m].items \cup {s \in DOMAIN tree : Len(s) > 1 /\ Front(s) = m}]]

GroupModules ==
    [m \in UNION {Nested(e) : e \in {x \in Grouped : Kind(x) = "modules"}} |->
        [own |-> NewModule(m), listed |-> NewModule(m).items \cup Submodules(m)]]

-----------------------------------------------------------------------------
(* Links, as pairs of the page they name and what they are about           *)

ToPage(e)    == <<e, <<e, "page">>>>
ToList(p, k) == <<Append(p, k), <<p, k>>>>
ToGroup(g)   == <<<<g>>, <<<<g>>, "group">>>>

(* get_all_item_ids of the root module: not of what is in a group, of      *)
(* foreign crates, nor the members of structs, whose ids are not kept.     *)
AllItemIds ==
    LET own == {m \in DOMAIN tree : Head(m) = RootCrate[1]}
        all == own \cup UNION {tree[m].items : m \in own}
    IN  all \cup UNION {PartsOf(e) : e \in {x \in all : Kind(x) \notin {"structs", "modules"}}}

(* A part is looked for on the page of its parent: of the module it is in, *)
(* for that is parent_full_path.                                           *)
ResolveLink(r) ==
    IF HasPage(r) THEN ToPage(r) ELSE <<ParentModule(r), <<Front(r), "page">>>>

DocLinks(e) == {ResolveLink(r) : r \in program[e].refs \cap AllItemIds}

(* get_linked_path                                                         *)
LinkedPath(e) == {ToPage(p) : p \in Ancestors(e)}

PartOfGroup(e) == IF GroupOf(e) = NoGroup THEN {} ELSE {ToGroup(GroupOf(e))}

LocationLinks(e) == {ToPage(r) : r \in program[e].signature}

(* format_signature: nothing that SUMMARY.md does not have.                *)
SignatureLinks(e) ==
    {l \in LocationLinks(e) : \E s \in summary : s[1] = l[1]}

ItemLinks(e) == DocLinks(e) \cup PartOfGroup(e) \cup SignatureLinks(e)

PartLinks(e) == UNION {ItemLinks(x) \cup LinkedPath(e) : x \in PartsOf(e)}

(* generate_markdown_table_summary_for_top_level_subitems, for each kind.  *)
Tables(p, elements) ==
    {ToList(p, Kind(e)) : e \in elements} \cup {ToPage(e) : e \in elements}
    \cup UNION {DocLinks(e) : e \in elements}

ReexportLinks(module) ==
    {ToPage(u) : u \in module.own.uses} \cup UNION {DocLinks(u) : u \in module.own.uses}

GroupTables(elements) ==
    UNION {{ToGroup(g)} \cup Tables(<<g>>, InGroup(g, elements)) : g \in GroupsOf(elements)}

ItemPage(e) ==
    [about |-> <<e, "page">>, links |-> LinkedPath(e) \cup ItemLinks(e) \cup PartLinks(e)]

ModulePage(m, module) ==
    [about |-> <<m, "page">>,
     links |-> LinkedPath(m) \cup ItemLinks(m) \cup Tables(m, module.listed)
               \cup ReexportLinks(module) \cup GroupTables(module.own.grouped)]

ListPage(p, k, elements) ==
    [about |-> <<p, k>>,
     links |-> Tables(p, {e \in elements : Kind(e) = k})]

-----------------------------------------------------------------------------
(* The book                                                                *)

KindsOf(elements) == {Kind(e) : e \in elements}

(* generate_summary_files_for_module_items, by page.                       *)
Lists(p, elements) ==
    [f \in {Append(p, k) : k \in KindsOf(elements)} |-> ListPage(p, Last(f), elements)]

ItemPages(elements) ==
    [e \in {x \in elements : Kind(x) # "modules"} |-> ItemPage(e)]

AllOf(functions) == FoldSet(LAMBDA f, g : f @@ g, <<>>, functions)

(* generate_modules_summary_files: a page is written after the list that   *)
(* may have its name.                                                      *)
ModuleFiles(modules) ==
    AllOf({ItemPages(modules[m].own.items) : m \in DOMAIN modules})
    @@ [m \in DOMAIN modules |-> ModulePage(m, modules[m])]
    @@ AllOf({Lists(m, modules[m].listed) : m \in DOMAIN modules})

GroupFiles ==
    ModuleFiles(GroupModules)
    @@ ItemPages(Grouped)
    @@ [f \in {<<g>> : g \in GroupsOf(Grouped)} |->
           [about |-> <<f, "group">>, links |-> Tables(f, InGroup(f[1], Grouped))]]
    @@ AllOf({Lists(<<g>>, InGroup(g, Grouped)) : g \in GroupsOf(Grouped)})

(* generate_module_summary_content and generate_global_groups_...          *)
Chapters(modules) ==
    UNION {{ToPage(m)} \cup {ToPage(e) : e \in modules[m].listed}
           \cup {ToList(m, k) : k \in KindsOf(modules[m].listed)} : m \in DOMAIN modules}

GroupChapters ==
    UNION {{ToGroup(g)} \cup {ToPage(e) : e \in InGroup(g, Grouped)}
           \cup {ToList(<<g>>, k) : k \in KindsOf(InGroup(g, Grouped))} : g \in GroupsOf(Grouped)}

GenerateSummary ==
    /\ docStage = "reexports" /\ pending = {}
    /\ summary' = Chapters(TreeModules) \cup Chapters(GroupModules) \cup GroupChapters
    /\ docStage' = "book"
    /\ UNCHANGED <<program, private, tree, pending, files>>

(* save: SUMMARY.md, then the pages in order, later ones over earlier.     *)
SavePages ==
    /\ docStage = "book"
    /\ files' = ModuleFiles(TreeModules)
    /\ docStage' = "groups"
    /\ UNCHANGED <<program, private, tree, pending, summary>>

SaveGroups ==
    /\ docStage = "groups"
    /\ files' = GroupFiles @@ files
    /\ docStage' = "saved"
    /\ UNCHANGED <<program, private, tree, pending, summary>>

(* A page cannot be written: the book is left as it is.                    *)
SaveFails ==
    /\ docStage \in {"book", "groups"}
    /\ docStage' = "failed"
    /\ UNCHANGED <<program, private, tree, pending, summary, files>>

DocNext ==
    \/ DocumentCrate
    \/ \E e \in pending : InsertItem(e) \/ InsertModule(e)
    \/ GenerateSummary \/ SavePages \/ SaveGroups \/ SaveFails

-----------------------------------------------------------------------------

(* Where the code makes links that lead nowhere, or to something else.     *)

(* What is re-exported only by a module that is itself in a group or       *)
(* re-exported (crate_type.rs:133 does not look there), and its parents.   *)
FarReexport(e) ==
    \E m \in DOMAIN GroupModules \cup DOMAIN tree :
        \E u \in PubUsesOf(m) \ PubUses(Documented(RootCrate)) : e \in Ancestors(u)

(* The group of a module that is in the tree for its re-exported items, or *)
(* a re-exported module with a group when private items are included.      *)
OutOfGroup(l) ==
    \E m \in DOMAIN program :
        /\ Kind(m) = "modules" /\ GroupOf(m) # NoGroup
        /\ \/ m \in DOMAIN tree /\ l = ToGroup(GroupOf(m))
           \/ private /\ l = ToPage(m)

(* A list and an element have one name: `constants` is a common module.    *)
TwoMeanings(l) ==
    l[1] \in DOMAIN program /\ Last(l[1]) \in KindsOf(DOMAIN program)

PartLink(l) == \E e \in DOMAIN program : ~HasPage(e) /\ l = ResolveLink(e)

Leads(l) ==
    \/ l[1] \in DOMAIN files /\ files[l[1]].about = l[2]
    \/ TwoMeanings(l)

(* Public for its users, and not hidden: an impl of a trait that is not,   *)
(* for a concrete type that is not.                                        *)
IsShown(e) ==
    /\ e[1] = RootCrate[1] /\ HasPage(e)
    /\ \A p \in Ancestors(e) : p = RootCrate \/ ShouldInclude(p)
    /\ Kind(e) = "impls" =>
           /\ ~program[program[e].trait].hidden
           /\ \E a \in program[e].args \cap DOMAIN program : ~program[a].hidden

(* Every chapter of the book, and every link of a page to another, leads   *)
(* to a page that was written and is about what the link names, whatever   *)
(* is grouped, hidden or re-exported from where; and what the crate shows  *)
(* has a page.                                                             *)
LinksLead ==
    docStage = "saved" =>
        /\ \A l \in summary : Leads(l)
        /\ \A f \in DOMAIN files : \A l \in files[f].links :
              Leads(l) \/ FarReexport(l[1]) \/ OutOfGroup(l) \/ PartLink(l)
        /\ \A e \in DOMAIN program : IsShown(e) => Leads(ToPage(e))
=============================================================================
