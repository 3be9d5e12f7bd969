------------------------------- MODULE Loader -------------------------------
(***************************************************************************)
(* The kernel module loader of newland/src/module.c.  modules_init puts    *)
(* the modules linked into the kernel on a list and initialises each,      *)
(* after the modules it depends on, which module_init does by calling      *)
(* itself.  What marks a module as loaded is its link in the list of       *)
(* loaded modules: module_init takes a link that is not NULL for "loaded", *)
(* and the link of the module that was loaded first is NULL.               *)
(*                                                                         *)
(* The calls of module_init in progress are a stack of frames.  Circular   *)
(* dependencies, on which the code recurses until the stack is exhausted,  *)
(* are left out (Acyclic).                                                 *)
(***************************************************************************)
EXTENDS Slist

CONSTANTS Module,        \* the ids of modules
          Image,         \* the modules in the section __modules_start
          Dependencies,  \* what a modinfo_t may have as its deps
          NoModule       \* NULL

\* The ids in an image differ: each is part of the name of a global symbol.
ASSUME LoaderAssumption ==
    /\ Image \in Seq(Module) /\ Dependencies \subseteq Seq(Module)
    /\ NoModule \notin Module
    /\ \A i, j \in 1..Len(Image) : Image[i] = Image[j] => i = j

VARIABLES deps,            \* modinfo_t.deps, fixed when the kernel is linked
          modules_installed, modules_loaded,   \* the heads of the two lists
          mod_loaded,      \* modinfo_t.mod_loaded.sle_next
          stack,           \* calls of module_init, the innermost last
          installing,      \* modules_init: modules its first loop has seen
          cursor,          \* modules_init: position of its second loop
          phase,           \* what modules_init has returned so far
          inited           \* history: the modules whose init() returned 0

lists == <<modules_installed, modules_loaded, mod_loaded>>
vars  == <<deps, lists, stack, installing, cursor, phase, inited>>

Deps(m) == SlistElems(deps[m])
Inited  == SlistElems(inited)

\* No set of modules in which each depends on one of the set.
Acyclic == \A S \in (SUBSET Module) \ {{}} : {m \in S : Deps(m) \cap S = {}} # {}

\* A call of module_init: the module and the index into its deps.
Frame == [module : SlistElems(Image), i : Nat]
Top   == stack[Len(stack)]

TypeOK ==
    /\ deps \in [Module -> Dependencies]
    /\ modules_installed \in Seq(SlistElems(Image))
    /\ modules_loaded \in Module \cup {NoModule}
    /\ mod_loaded \in [Module -> Module \cup {NoModule}]
    /\ stack \in Seq(Frame)
    /\ installing \in 0..Len(Image)
    /\ cursor \in Nat \ {0}
    /\ phase \in {"running", "done", "failed"}
    /\ inited \in Seq(Module)
-----------------------------------------------------------------------------
\* The module list and its links are zero when modules_init starts.
Init ==
    /\ deps \in [Module -> Dependencies] /\ Acyclic
    /\ modules_installed = <<>> /\ modules_loaded = NoModule
    /\ mod_loaded = [m \in Module |-> NoModule]
    /\ stack = <<>> /\ installing = 0 /\ cursor = 1
    /\ phase = "running" /\ inited = <<>>

\* A negative result goes through every caller up to modules_init's.
Fails == phase' = "failed" /\ stack' = <<>>

module_fromid(id) == id \in SlistElems(modules_installed)

\* module_install() of the next module in the image.  An id that is there
\* already is refused with EEXIST; in an image ids differ.
module_install ==
    /\ phase = "running" /\ installing < Len(Image)
    /\ LET module == Image[installing + 1]
       IN  /\ ~module_fromid(module)
           /\ modules_installed' = SlistInsertHead(modules_installed, module)
           /\ mod_loaded' = [mod_loaded EXCEPT ![module] = NoModule]
    /\ installing' = installing + 1
    /\ UNCHANGED <<deps, modules_loaded, stack, cursor, phase, inited>>

\* Mutants: a module is never taken for loaded; the id is not looked up; the
\* last dependency is not initialised.
Loaded_never(id) == FALSE
Call_unchecked(frames, id) ==
    /\ stack' = IF mod_loaded[id] # NoModule THEN frames
                ELSE Append(frames, [module |-> id, i |-> 1])
    /\ UNCHANGED phase
Ready_early == Top.i >= Len(deps[Top.module])

Loaded(id) == mod_loaded[id] # NoModule

\* module_init(id) up to the loop over its dependencies: ENOENT, nothing to do,
\* or a new frame on top of frames.
Call(frames, id) ==
    \/ ~module_fromid(id) /\ Fails
    \/ /\ module_fromid(id) /\ Loaded(id)
       /\ stack' = frames /\ UNCHANGED phase
    \/ /\ module_fromid(id) /\ ~Loaded(id)
       /\ stack' = Append(frames, [module |-> id, i |-> 1]) /\ UNCHANGED phase

Running == phase = "running" /\ installing = Len(Image)

\* Mutant: the loop passes over every second module.
visit_alternate ==
    /\ Running /\ stack = <<>> /\ cursor <= Len(modules_installed)
    /\ Call(<<>>, modules_installed[cursor])
    /\ cursor' = cursor + 2
    /\ UNCHANGED <<deps, lists, installing, inited>>

\* The second loop of modules_init takes the next module.
visit ==
    /\ Running /\ stack = <<>> /\ cursor <= Len(modules_installed)
    /\ Call(<<>>, modules_installed[cursor])
    /\ cursor' = cursor + 1
    /\ UNCHANGED <<deps, lists, installing, inited>>

\* Every dependency of the innermost module has been seen to.
Ready == Top.i > Len(deps[Top.module])

\* Mutant: the index is not advanced.
depend_again ==
    /\ Running /\ stack # <<>> /\ ~Ready
    /\ Call(stack, deps[Top.module][Top.i])
    /\ UNCHANGED <<deps, lists, installing, cursor, inited>>

\* The loop over the dependencies calls module_init for the next one.
depend ==
    /\ Running /\ stack # <<>> /\ ~Ready
    /\ Call([stack EXCEPT ![Len(stack)].i = @ + 1], deps[Top.module][Top.i])
    /\ UNCHANGED <<deps, lists, installing, cursor, inited>>

Pop == stack' = SubSeq(stack, 1, Len(stack) - 1)

\* init() succeeds and the module goes to the head of the loaded list, wherever
\* in it it may be already.
init ==
    /\ Running /\ stack # <<>> /\ Ready
    /\ inited' = Append(inited, Top.module)
    /\ mod_loaded' = [mod_loaded EXCEPT ![Top.module] = modules_loaded]
    /\ modules_loaded' = Top.module
    /\ Pop
    /\ UNCHANGED <<deps, modules_installed, installing, cursor, phase>>

init_fails ==
    /\ Running /\ stack # <<>> /\ Ready
    /\ Fails
    /\ UNCHANGED <<deps, lists, installing, cursor, inited>>

\* modules_init returns 0.
finish ==
    /\ Running /\ stack = <<>> /\ cursor > Len(modules_installed)
    /\ phase' = "done"
    /\ UNCHANGED <<deps, lists, stack, installing, cursor, inited>>

Next == module_install \/ visit \/ depend \/ init \/ init_fails \/ finish

Spec == Init /\ [][Next]_vars

\* The boot thread keeps running.
FairSpec == Spec /\ WF_vars(Next)
-----------------------------------------------------------------------------
(***************************************************************************)
(* A module's init() is called only after init() of each module it depends *)
(* on has succeeded, in whatever order the modules are linked and however  *)
(* the dependencies are nested (module.c:59-66).                           *)
(***************************************************************************)
DepsFirst ==
    \A j \in 1..Len(inited) : \A d \in Deps(inited[j]) :
        \E i \in 1..(j - 1) : inited[i] = d

(***************************************************************************)
(* Although a NULL link does not mean that a module is not loaded, the     *)
(* only module whose init() can be called again is the one that was loaded *)
(* first, and that once: from then on its link is set (module.c:57, 68).   *)
(***************************************************************************)
OnlyFirstAgain ==
    \A i, j \in 1..Len(inited) : i < j /\ inited[i] = inited[j] => i = 1

(***************************************************************************)
(* When modules_init returns 0 every module of the image has been          *)
(* initialised (module.h:134, "Initializes all the uninitialized kernel    *)
(* modules").                                                              *)
(***************************************************************************)
AllInited == phase = "done" => SlistElems(Image) \subseteq Inited

(***************************************************************************)
(* modules_init returns: the recursion over dependencies ends although the *)
(* mark that stops it is missing on one module.                            *)
(***************************************************************************)
Returns == <>(phase # "running")
=============================================================================
