---------------------------- MODULE LoaderProofs ----------------------------
(***************************************************************************)
(* Proofs about the module loader, for any modules, any image and any      *)
(* dependencies without a circle.                                          *)
(*                                                                         *)
(* The property about re-initialisation is not inductive: it needs to know *)
(* what a link stands for (Marked), that a module in a frame has no link   *)
(* (Frames), and that no module is in two frames, which follows from the   *)
(* dependencies alone (NoRepeat).                                          *)
(***************************************************************************)
EXTENDS Loader, SlistProofs

\* A link is set just when the module was initialised, other than as the first.
Marked == \A m \in Module : Loaded(m) <=> \E j \in 2..Len(inited) : inited[j] = m

\* The loaded list is empty just when nothing was initialised.
HeadSet == modules_loaded = NoModule <=> inited = <<>>

\* What is installed, and nothing is called before all of it is.
Installed ==
    /\ SlistElems(modules_installed) = {Image[i] : i \in 1..installing}
    /\ (stack # <<>> \/ inited # <<>> \/ cursor > 1 \/ phase = "done")
         => installing = Len(Image)

\* The dependencies a frame has passed are initialised, but for the one that
\* the next frame is about, and its module has no link yet.
FrameOK(k) ==
    LET f == stack[k]
    IN  /\ f.i \in 1..(Len(deps[f.module]) + 1)
        /\ ~Loaded(f.module)
        /\ \A x \in 1..(f.i - 1) :
              deps[f.module][x] \in Inited \/ (k < Len(stack) /\ x = f.i - 1)
        /\ k < Len(stack) =>
              f.i > 1 /\ stack[k + 1].module = deps[f.module][f.i - 1]
Frames == \A k \in 1..Len(stack) : FrameOK(k)

\* Modules behind the cursor are initialised, but for the one being so.
Visited ==
    phase # "failed" =>
        \A x \in 1..Len(modules_installed) : x < cursor =>
            \/ modules_installed[x] \in Inited
            \/ stack # <<>> /\ stack[1].module = modules_installed[x]

IInv == /\ TypeOK /\ Acyclic /\ DepsFirst /\ OnlyFirstAgain /\ AllInited
        /\ Marked /\ HeadSet /\ Installed /\ Frames /\ Visited
-----------------------------------------------------------------------------
\* Module ids, links and dependency lists are what the assumptions say.
LEMMA Shapes ==
    ASSUME TypeOK
    PROVE  /\ \A m \in Module : deps[m] \in Seq(Module) /\ Len(deps[m]) \in Nat
           /\ SlistElems(Image) \subseteq Module
           /\ NoModule \notin Module
           /\ Len(stack) \in Nat /\ Len(inited) \in Nat /\ Len(modules_installed) \in Nat
           /\ Len(Image) \in Nat
           /\ \A k \in 1..Len(stack) : stack[k] \in Frame /\ stack[k].module \in Module
           /\ \A j \in 1..Len(inited) : inited[j] \in Module
  <1>1. SlistElems(Image) \subseteq Module
    BY LoaderAssumption DEF SlistElems
  <1>2. \A m \in Module : deps[m] \in Seq(Module)
    BY LoaderAssumption DEF TypeOK
  <1>3. Image \in Seq(Module) /\ NoModule \notin Module
    BY LoaderAssumption
  <1>4. stack \in Seq(Frame) /\ inited \in Seq(Module)
        /\ modules_installed \in Seq(SlistElems(Image))
    BY DEF TypeOK
  <1>5. \A k \in 1..Len(stack) : stack[k] \in Frame
    BY <1>4
  <1>6. \A f \in Frame : f.module \in SlistElems(Image)
    BY DEF Frame
  <1> QED BY <1>1, <1>2, <1>3, <1>4, <1>5, <1>6

\* Without circular dependencies no module is in two frames: the modules between
\* the two would be a set in which each depends on one of the set.
LEMMA NoRepeat ==
    ASSUME TypeOK, Acyclic, Frames, NEW j \in 1..Len(stack), NEW k \in 1..Len(stack), j < k
    PROVE  stack[j].module # stack[k].module
  <1> DEFINE S == {stack[l].module : l \in j..k}
  <1>1. SUFFICES ASSUME stack[j].module = stack[k].module PROVE FALSE
    OBVIOUS
  <1>2. Len(stack) \in Nat /\ j \in Nat /\ k \in Nat
    BY Shapes
  <1>3. S \in (SUBSET Module) \ {{}}
    <2>1. \A l \in j..k : l \in 1..Len(stack)
      BY <1>2
    <2>2. S \subseteq Module
      BY <2>1, Shapes
    <2>3. stack[j].module \in S
      BY <1>2
    <2> QED BY <2>2, <2>3
  <1>4. ASSUME NEW l \in j..k, l < k PROVE stack[l + 1].module \in Deps(stack[l].module)
    <2>1. l \in 1..Len(stack) /\ l < Len(stack)
      BY <1>2, <1>4
    <2>2. FrameOK(l)
      BY <2>1 DEF Frames
    <2>3. stack[l].i - 1 \in 1..Len(deps[stack[l].module])
          /\ stack[l + 1].module = deps[stack[l].module][stack[l].i - 1]
      <3>1. stack[l] \in Frame /\ stack[l].i \in Nat /\ stack[l].module \in Module
        BY <2>1, Shapes DEF Frame
      <3>2. Len(deps[stack[l].module]) \in Nat
        BY <3>1, Shapes
      <3> QED BY <2>1, <2>2, <3>1, <3>2 DEF FrameOK
    <2> QED BY <2>3 DEF Deps, SlistElems
  <1>5. ASSUME NEW l \in j..k PROVE Deps(stack[l].module) \cap S # {}
    <2>1. CASE l < k
      <3>1. l + 1 \in j..k
        BY <2>1, <1>2
      <3> QED BY <3>1, <2>1, <1>4
    <2>2. CASE l = k
      <3>1. j + 1 \in j..k /\ j \in j..k
        BY <1>2
      <3>2. stack[j + 1].module \in Deps(stack[j].module)
        BY <3>1, <1>4
      <3> QED BY <3>1, <3>2, <2>2, <1>1
    <2> QED BY <2>1, <2>2, <1>2
  <1>6. {m \in S : Deps(m) \cap S = {}} = {}
    BY <1>5
  <1> QED BY <1>3, <1>6 DEF Acyclic

\* A module with a link is initialised.
LEMMA LoadedInited ==
    ASSUME TypeOK, Marked, NEW m \in Module, Loaded(m)
    PROVE  m \in Inited
  <1>1. PICK j \in 2..Len(inited) : inited[j] = m
    BY DEF Marked
  <1>2. j \in 1..Len(inited)
    BY Shapes
  <1> QED BY <1>1, <1>2 DEF Inited, SlistElems

\* The initial state.
LEMMA Initial == Init => IInv
  <1> SUFFICES ASSUME Init PROVE IInv
    OBVIOUS
  <1>1. TypeOK
    BY LoaderAssumption DEF Init, TypeOK
  <1>2. Acyclic
    BY DEF Init
  <1>3. Len(inited) = 0 /\ Len(stack) = 0 /\ Len(modules_installed) = 0 /\ phase = "running"
    BY DEF Init
  <1>4. DepsFirst /\ OnlyFirstAgain /\ AllInited /\ Frames /\ Visited
    BY <1>3 DEF DepsFirst, OnlyFirstAgain, AllInited, Frames, Visited
  <1>5. Marked /\ HeadSet
    BY <1>3 DEF Init, Marked, Loaded, HeadSet
  <1>6. Installed
    BY <1>3 DEF Init, Installed, SlistElems
  <1> QED BY <1>1, <1>2, <1>4, <1>5, <1>6 DEF IInv
-----------------------------------------------------------------------------
\* The facts that depend on the history and the links alone.
History == Acyclic /\ DepsFirst /\ OnlyFirstAgain /\ Marked /\ HeadSet
LEMMA HistoryUnchanged ==
    ASSUME History, UNCHANGED <<deps, modules_loaded, mod_loaded, inited>>
    PROVE  History'
  BY DEF History, Acyclic, Deps, DepsFirst, OnlyFirstAgain, Marked, Loaded, HeadSet

\* Installing changes no link that is set: none is while modules are installed.
LEMMA InstallStep == ASSUME IInv, module_install PROVE IInv'
  <1> DEFINE module == Image[installing + 1]
  <1> USE DEF IInv
  <1>1. installing + 1 \in 1..Len(Image) /\ module \in SlistElems(Image) /\ module \in Module
    <2>1. installing + 1 \in 1..Len(Image)
      BY Shapes DEF module_install, TypeOK
    <2> QED BY <2>1, Shapes DEF SlistElems
  <1>2. stack = <<>> /\ inited = <<>> /\ cursor = 1 /\ phase = "running"
    <2>1. installing # Len(Image)
      BY Shapes DEF module_install, TypeOK
    <2> QED BY <2>1 DEF Installed, module_install, TypeOK
  <1>3. /\ modules_installed' = SlistInsertHead(modules_installed, module)
        /\ installing' = installing + 1
        /\ mod_loaded' = [mod_loaded EXCEPT ![module] = NoModule]
        /\ UNCHANGED <<deps, modules_loaded, stack, cursor, phase, inited>>
    BY DEF module_install
  <1>4. modules_installed' \in Seq(SlistElems(Image))
        /\ SlistElems(modules_installed') = SlistElems(modules_installed) \cup {module}
    <2>1. modules_installed \in Seq(SlistElems(Image))
      BY DEF TypeOK
    <2> HIDE DEF module
    <2>2. /\ SlistInsertHead(modules_installed, module) \in Seq(SlistElems(Image))
          /\ SlistElems(SlistInsertHead(modules_installed, module))
               = SlistElems(modules_installed) \cup {module}
      BY ONLY <2>1, <1>1, InsertHead
    <2> QED BY <2>2, <1>3
  <1>5. TypeOK'
    <2>1. installing' \in 0..Len(Image)
      BY <1>1, <1>3, Shapes DEF TypeOK
    <2>2. mod_loaded' \in [Module -> Module \cup {NoModule}]
      BY <1>1, <1>3 DEF TypeOK
    <2> QED BY <1>3, <1>4, <2>1, <2>2 DEF TypeOK
  <1>6. \A m \in Module : mod_loaded[m] = NoModule
    <2>1. Len(inited) = 0
      BY <1>2
    <2> QED BY <2>1 DEF Marked, Loaded
  <1>7. mod_loaded' = mod_loaded
    BY <1>1, <1>3, <1>6 DEF TypeOK
  <1>8. History'
    BY <1>3, <1>7, HistoryUnchanged DEF History
  <1>9. Installed'
    <2>1. {Image[i] : i \in 1..installing'} = {Image[i] : i \in 1..installing} \cup {module}
      <3>1. installing \in Nat
        BY Shapes DEF TypeOK
      <3>2. 1..(installing + 1) = (1..installing) \cup {installing + 1}
        BY <3>1
      <3> QED BY <3>2, <1>3
    <2> QED BY <2>1, <1>2, <1>3, <1>4 DEF Installed
  <1>10. Frames' /\ Visited' /\ AllInited'
    BY <1>2, <1>3 DEF Frames, Visited, AllInited
  <1> QED BY <1>5, <1>8, <1>9, <1>10 DEF History

\* A negative result.
LEMMA FailStep ==
    ASSUME IInv, Running, Fails, cursor' \in Nat \ {0},
           UNCHANGED <<deps, lists, installing, inited>>
    PROVE  IInv'
  <1> USE DEF IInv
  <1>1. TypeOK'
    BY DEF TypeOK, Fails, lists
  <1>2. History'
    BY HistoryUnchanged DEF History, lists
  <1>3. Installed'
    BY DEF Installed, Fails, lists, Running
  <1>4. Frames' /\ Visited' /\ AllInited'
    BY DEF Frames, Visited, AllInited, Fails
  <1> QED BY <1>1, <1>2, <1>3, <1>4 DEF History

\* The loop of modules_init calls module_init for a module that is installed.
LEMMA VisitStep == ASSUME IInv, visit PROVE IInv'
  <1> DEFINE id == modules_installed[cursor]
  <1> USE DEF IInv
  <1>1. cursor \in 1..Len(modules_installed) /\ id \in SlistElems(modules_installed)
        /\ id \in SlistElems(Image) /\ id \in Module
    <2>1. cursor \in 1..Len(modules_installed)
      BY Shapes DEF visit, TypeOK
    <2> QED BY <2>1, Shapes DEF SlistElems, TypeOK
  <1>2. /\ Running /\ stack = <<>> /\ cursor' = cursor + 1 /\ Call(<<>>, id)
        /\ UNCHANGED <<deps, lists, installing, inited>>
    BY DEF visit
  <1>3. module_fromid(id) /\ UNCHANGED phase /\ phase = "running"
    BY <1>1, <1>2 DEF module_fromid, Call, Running
  <1>4. History'
    BY <1>2, HistoryUnchanged DEF History, lists
  <1>5. \A x \in 1..Len(modules_installed) : x < cursor => modules_installed[x] \in Inited
    BY <1>2, <1>3 DEF Visited
  <1>6. Installed' /\ AllInited'
    BY <1>2, <1>3 DEF Installed, AllInited, lists, Running, Inited
  <1>7. CASE Loaded(id)
    <2>1. stack' = <<>>
      BY <1>2, <1>3, <1>7 DEF Call
    <2>2. id \in Inited
      BY <1>1, <1>7, LoadedInited
    <2>3. TypeOK'
      BY <2>1, <1>2, <1>3 DEF TypeOK, lists
    <2>4. Frames'
      BY <2>1 DEF Frames
    <2>5. Visited'
      <3>1. \A x \in 1..Len(modules_installed) : x < cursor + 1 => x < cursor \/ x = cursor
        BY <1>1
      <3> QED BY <3>1, <2>2, <1>2, <1>5 DEF Visited, lists, Inited
    <2> QED BY <1>4, <1>6, <2>3, <2>4, <2>5 DEF History
  <1>8. CASE ~Loaded(id)
    <2> DEFINE f == [module |-> id, i |-> 1]
    <2>1. stack' = Append(<<>>, f) /\ f \in Frame
      BY <1>1, <1>2, <1>3, <1>8 DEF Call, Frame
    <2>2. stack' \in Seq(Frame) /\ Len(stack') = 1 /\ stack'[1] = f /\ stack' # <<>>
      BY <2>1
    <2>3. TypeOK'
      BY <2>2, <1>2, <1>3 DEF TypeOK, lists
    <2>4. Frames'
      <3>1. Len(deps[id]) \in Nat
        BY <1>1, Shapes
      <3>2. f.i = 1 /\ f.module = id
        OBVIOUS
      <3>3. mod_loaded'[id] = NoModule /\ deps' = deps
        BY <1>2, <1>8 DEF Loaded, lists
      <3>4. FrameOK(1)'
        BY <3>1, <3>2, <3>3, <2>2 DEF FrameOK, Loaded
      <3> QED BY <3>4, <2>2 DEF Frames
    <2>5. Visited'
      <3>1. \A x \in 1..Len(modules_installed) : x < cursor + 1 => x < cursor \/ x = cursor
        BY <1>1
      <3>2. stack'[1].module = id
        BY <2>2
      <3> QED BY <3>1, <3>2, <2>2, <1>2, <1>5 DEF Visited, lists, Inited
    <2> QED BY <1>4, <1>6, <2>3, <2>4, <2>5 DEF History
  <1> QED BY <1>7, <1>8

\* A frame below the top keeps what is said of it when the one above is still
\* about the same module and nothing initialised is forgotten.
LEMMA LowerFrame ==
    ASSUME TypeOK, NEW k \in 1..Len(stack), FrameOK(k), k < Len(stack), k < Len(stack'),
           stack'[k] = stack[k], stack'[k + 1].module = stack[k + 1].module,
           deps' = deps, Inited \subseteq Inited',
           mod_loaded'[stack[k].module] = mod_loaded[stack[k].module]
    PROVE  FrameOK(k)'
  BY DEF FrameOK, Loaded

\* Advancing the index of the innermost frame.
Advanced(s) == [s EXCEPT ![Len(s)].i = @ + 1]
LEMMA Advance ==
    ASSUME NEW s \in Seq(Frame), s # <<>>
    PROVE  LET t == Advanced(s) IN
           /\ Len(s) \in Nat \ {0} /\ t \in Seq(Frame) /\ Len(t) = Len(s)
           /\ \A k \in 1..Len(s) : k < Len(s) => t[k] = s[k]
           /\ \A k \in 1..Len(s) : t[k].module = s[k].module
           /\ t[Len(s)].i = s[Len(s)].i + 1
  <1> DEFINE t == Advanced(s)
  <1>1. Len(s) \in Nat \ {0} /\ Len(s) \in 1..Len(s) /\ s \in [1..Len(s) -> Frame]
    OBVIOUS
  <1>2. s[Len(s)] \in Frame
    BY <1>1
  <1>3. t = [s EXCEPT ![Len(s)] = [s[Len(s)] EXCEPT !.i = @ + 1]]
    BY <1>1 DEF Advanced
  <1>4. [s[Len(s)] EXCEPT !.i = @ + 1] \in Frame
    BY <1>2 DEF Frame
  <1> HIDE DEF t
  <1>5. t \in [1..Len(s) -> Frame]
    BY <1>1, <1>3, <1>4
  <1>6. t \in Seq(Frame) /\ Len(t) = Len(s)
    BY <1>1, <1>5
  <1>7. \A k \in 1..Len(s) : k < Len(s) => t[k] = s[k]
    BY <1>1, <1>3
  <1>8. t[Len(s)] = [s[Len(s)] EXCEPT !.i = @ + 1]
    BY <1>1, <1>3
  <1>9. t[Len(s)].module = s[Len(s)].module /\ t[Len(s)].i = s[Len(s)].i + 1
    BY <1>2, <1>8 DEF Frame
  <1>10. \A k \in 1..Len(s) : t[k].module = s[k].module
    BY <1>1, <1>7, <1>9
  <1> QED BY <1>1, <1>6, <1>7, <1>9, <1>10 DEF t

\* The loop over the dependencies calls module_init for the next one.
LEMMA DependStep == ASSUME IInv, depend PROVE IInv'
  <1>0. PICK t \in Nat : t = Len(stack)
    BY Shapes DEF IInv
  <1> DEFINE f == stack[t]
             id == deps[f.module][f.i]
             frames == Advanced(stack)
  <1> USE DEF IInv
  <1>1. stack \in Seq(Frame) /\ stack # <<>> /\ Running /\ Call(frames, id)
        /\ UNCHANGED <<deps, lists, installing, cursor, inited>>
    BY <1>0 DEF depend, TypeOK, Top, Advanced
  <1>2. /\ t \in Nat \ {0} /\ frames \in Seq(Frame) /\ Len(frames) = t
        /\ \A k \in 1..t : k < t => frames[k] = stack[k]
        /\ \A k \in 1..t : frames[k].module = stack[k].module
        /\ frames[t].i = f.i + 1
    BY <1>0, <1>1, Advance
  <1>3. f \in Frame /\ f.module \in Module /\ f.i \in Nat /\ FrameOK(t) /\ t \in 1..t
    BY <1>0, <1>2, Shapes DEF Frames, Frame
  <1>4. f.i \in 1..Len(deps[f.module]) /\ id \in Module /\ Len(deps[f.module]) \in Nat
    <2>1. deps[f.module] \in Seq(Module) /\ Len(deps[f.module]) \in Nat
      BY <1>3, Shapes
    <2>2. f.i \in 1..Len(deps[f.module])
      BY <1>0, <1>3, <2>1 DEF FrameOK, depend, Ready, Top
    <2> QED BY <2>1, <2>2
  <1>5. cursor' \in Nat \ {0}
    BY <1>1 DEF TypeOK
  <1>6. CASE ~module_fromid(id)
    <2>1. Fails
      BY <1>1, <1>6 DEF Call
    <2> QED BY <2>1, <1>1, <1>5, FailStep
  <1>7. CASE module_fromid(id)
    <2> DEFINE g == [module |-> id, i |-> 1]
    <2> HIDE DEF frames, id
    <2>1. UNCHANGED phase /\ phase = "running"
          /\ ((stack' = frames /\ Loaded(id)) \/ (stack' = Append(frames, g) /\ ~Loaded(id)))
      BY <1>1, <1>7 DEF Call, Running
    <2>2. g \in Frame
      <3>1. modules_installed \in Seq(SlistElems(Image))
        BY DEF TypeOK
      <3>2. id \in SlistElems(Image)
        BY <3>1, <1>7, ElemsIn DEF module_fromid
      <3> QED BY <3>2 DEF Frame
    <2> HIDE DEF g
    <2> USE DEF id
    <2>3. /\ stack' \in Seq(Frame) /\ Len(stack') \in Nat /\ Len(stack') >= t /\ stack' # <<>>
          /\ \A k \in 1..t : stack'[k] = frames[k]
      BY <2>1, <2>2, <1>2
    <2>4. TypeOK'
      BY <2>1, <2>3, <1>1 DEF TypeOK, lists
    <2>5. History'
      BY <1>1, HistoryUnchanged DEF History, lists
    <2>6. Installed' /\ AllInited'
      BY <2>1, <1>1 DEF Installed, AllInited, lists, Running, Inited
    <2>7. Visited'
      <3>1. stack'[1].module = stack[1].module
        BY <2>3, <1>2
      <3> QED BY <3>1, <2>1, <2>3, <1>1 DEF Visited, lists, Inited
    <2>8. mod_loaded' = mod_loaded /\ deps' = deps /\ Inited' = Inited
      BY <1>1 DEF lists, Inited
    <2>9. ASSUME NEW k \in 1..t, k < t PROVE FrameOK(k)'
      <3>1. k + 1 \in 1..t
        BY <2>9, <1>2
      <3>2. stack'[k] = stack[k] /\ stack'[k + 1].module = stack[k + 1].module
        BY <3>1, <2>3, <2>9, <1>2
      <3>3. FrameOK(k)
        BY <1>0 DEF Frames
      <3>4. k < Len(stack')
        BY <2>3, <2>9, <1>2
      <3> QED BY <3>2, <3>3, <3>4, <2>8, <2>9, <1>0, LowerFrame
    <2>10. stack'[t].module = f.module /\ stack'[t].i = f.i + 1
      BY <2>3, <1>2, <1>3
    <2>11. ~Loaded(f.module) /\ \A x \in 1..(f.i - 1) : deps[f.module][x] \in Inited
      BY <1>0, <1>2, <1>3 DEF FrameOK
    <2>12. mod_loaded'[f.module] = NoModule
      BY <2>8, <2>11 DEF Loaded
    <2>13. \A x \in 1..f.i : x \in 1..(f.i - 1) \/ x = f.i
      BY <1>4
    <2>14. (f.i + 1) - 1 = f.i /\ f.i + 1 > 1 /\ f.i + 1 \in 1..(Len(deps[f.module]) + 1)
      BY <1>4
    <2> HIDE DEF f
    <2>15. CASE Loaded(id)
      <3>1. stack' = frames /\ Len(stack') = t
        BY <2>1, <2>15, <1>2
      <3>2. id \in Inited
        BY <2>15, <1>4, LoadedInited
      <3>3. FrameOK(t)'
        BY <3>1, <3>2, <2>8, <2>10, <2>11, <2>12, <2>13, <2>14, <1>2 DEF FrameOK, Loaded
      <3>4. \A k \in 1..Len(stack') : k \in 1..t /\ (k < t \/ k = t)
        BY <3>1, <1>2
      <3>5. Frames'
        BY <3>3, <3>4, <2>9 DEF Frames
      <3> QED BY <3>5, <2>4, <2>5, <2>6, <2>7 DEF History
    <2>16. CASE ~Loaded(id)
      <3>1. Len(stack') = t + 1 /\ stack'[t + 1] = g
        BY <2>1, <2>2, <2>16, <1>2
      <3>2. stack'[t + 1].module = id /\ stack'[t + 1].i = 1
        BY <3>1 DEF g
      <3>3. FrameOK(t)'
        BY <3>1, <3>2, <2>8, <2>10, <2>11, <2>12, <2>13, <2>14, <1>2 DEF FrameOK, Loaded
      <3>4. FrameOK(t + 1)'
        <4>1. mod_loaded'[id] = NoModule /\ Len(deps[id]) \in Nat
          BY <2>8, <2>16, <1>4, Shapes DEF Loaded
        <4> QED BY <4>1, <3>1, <3>2, <2>8, <1>2 DEF FrameOK, Loaded
      <3>5. \A k \in 1..Len(stack') : (k \in 1..t /\ k < t) \/ k = t \/ k = t + 1
        BY <3>1, <1>2
      <3>6. Frames'
        BY <3>3, <3>4, <3>5, <2>9 DEF Frames
      <3> QED BY <3>6, <2>4, <2>5, <2>6, <2>7 DEF History
    <2> QED BY <2>15, <2>16
  <1> QED BY <1>6, <1>7

\* The history grows by the module whose dependencies are all in it.
LEMMA InitHistory == ASSUME IInv, init PROVE History'
  <1>0. PICK t \in Nat : t = Len(stack)
    BY Shapes DEF IInv
  <1>1. PICK n \in Nat : n = Len(inited)
    BY Shapes DEF IInv
  <1>2. PICK m : m = stack[t].module
    OBVIOUS
  <1> USE DEF IInv
  <1>3. /\ stack # <<>> /\ stack[t].i > Len(deps[m])
        /\ inited' = Append(inited, m) /\ modules_loaded' = m
        /\ mod_loaded' = [mod_loaded EXCEPT ![m] = modules_loaded] /\ deps' = deps
    BY <1>0, <1>2 DEF init, Ready, Top
  <1>4. t \in 1..Len(stack) /\ m \in Module /\ FrameOK(t) /\ stack[t].i \in Nat
        /\ Len(deps[m]) \in Nat
    <2>1. t \in 1..Len(stack)
      BY <1>0, <1>3 DEF TypeOK
    <2>2. m \in Module /\ stack[t] \in Frame
      BY <2>1, <1>2, Shapes
    <2> QED BY <2>1, <2>2, Shapes DEF Frames, Frame
  <1>5. ~Loaded(m) /\ \A x \in 1..Len(deps[m]) : deps[m][x] \in Inited
    BY <1>0, <1>2, <1>3, <1>4 DEF FrameOK
  <1>6. /\ inited' \in Seq(Module) /\ Len(inited') = n + 1 /\ inited'[n + 1] = m
        /\ \A j \in 1..n : inited'[j] = inited[j]
    BY <1>1, <1>3, <1>4 DEF TypeOK
  <1>7. Acyclic'
    BY <1>3 DEF Acyclic, Deps
  <1>8. DepsFirst'
    <2>1. ASSUME NEW j \in 1..(n + 1), NEW d \in Deps(inited'[j])
          PROVE  \E i \in 1..(j - 1) : inited'[i] = d
      <3>1. CASE j = n + 1
        <4>1. PICK x \in 1..Len(deps[m]) : d = deps[m][x]
          BY <3>1, <1>6 DEF Deps, SlistElems
        <4>2. PICK i \in 1..n : inited[i] = d
          BY <4>1, <1>1, <1>5 DEF Inited, SlistElems
        <4> QED BY <4>2, <3>1, <1>6
      <3>2. CASE j \in 1..n
        <4>1. PICK i \in 1..(j - 1) : inited[i] = d
          BY <3>2, <1>1, <1>6 DEF DepsFirst
        <4>2. i \in 1..n
          BY <3>2
        <4> QED BY <4>1, <4>2, <1>6
      <3> QED BY <3>1, <3>2
    <2> QED BY <2>1, <1>3, <1>6 DEF DepsFirst, Deps
  <1>9. ASSUME NEW i \in 2..n PROVE inited[i] # m
    BY <1>1, <1>4, <1>5 DEF Marked
  <1>10. OnlyFirstAgain'
    <2>1. ASSUME NEW i \in 1..(n + 1), NEW j \in 1..(n + 1), i < j, inited'[i] = inited'[j]
          PROVE  i = 1
      <3>1. CASE j = n + 1
        <4>1. i \in 1..n /\ inited[i] = m
          BY <2>1, <3>1, <1>6
        <4> QED BY <4>1, <1>9
      <3>2. CASE j \in 1..n
        <4>1. i \in 1..n /\ inited[i] = inited[j]
          BY <2>1, <3>2, <1>6
        <4> QED BY <4>1, <3>2, <2>1, <1>1 DEF OnlyFirstAgain
      <3> QED BY <3>1, <3>2
    <2> QED BY <2>1, <1>6 DEF OnlyFirstAgain
  <1>11. modules_loaded = NoModule <=> n = 0
    BY <1>1 DEF HeadSet, TypeOK
  <1>12. Marked'
    <2>1. ASSUME NEW x \in Module
          PROVE  mod_loaded'[x] # NoModule <=> \E j \in 2..(n + 1) : inited'[j] = x
      <3>1. CASE x = m
        <4>1. mod_loaded'[m] = modules_loaded
          BY <1>3, <1>4 DEF TypeOK
        <4>2. n = 0 => ~\E j \in 2..(n + 1) : TRUE
          OBVIOUS
        <4>3. n # 0 => n + 1 \in 2..(n + 1)
          OBVIOUS
        <4> QED BY <4>1, <4>2, <4>3, <3>1, <1>6, <1>11
      <3>2. CASE x # m
        <4>1. mod_loaded'[x] = mod_loaded[x]
          BY <1>3, <1>4, <3>2 DEF TypeOK
        <4>2. ASSUME NEW j \in 2..(n + 1), inited'[j] = x PROVE j \in 2..n /\ inited[j] = x
          BY <4>2, <3>2, <1>6
        <4>3. ASSUME NEW j \in 2..n, inited[j] = x PROVE j \in 2..(n + 1) /\ inited'[j] = x
          BY <4>3, <1>6
        <4>4. Loaded(x) <=> \E j \in 2..n : inited[j] = x
          BY <1>1 DEF Marked
        <4> QED BY <4>1, <4>2, <4>3, <4>4 DEF Loaded
      <3> QED BY <3>1, <3>2
    <2> QED BY <2>1, <1>6 DEF Marked, Loaded
  <1>13. HeadSet'
    <2>1. modules_loaded' # NoModule
      BY <1>3, <1>4, LoaderAssumption
    <2>2. inited' # <<>>
      BY <1>1, <1>6
    <2> QED BY <2>1, <2>2 DEF HeadSet
  <1> QED BY <1>7, <1>8, <1>10, <1>12, <1>13 DEF History

\* init() succeeds and the call of module_init returns.
LEMMA InitStep == ASSUME IInv, init PROVE IInv'
  <1>0. PICK t \in Nat : t = Len(stack)
    BY Shapes DEF IInv
  <1>1. PICK m : m = stack[t].module
    OBVIOUS
  <1> USE DEF IInv
  <1>2. /\ Running /\ stack # <<>> /\ stack' = SubSeq(stack, 1, t - 1)
        /\ inited' = Append(inited, m) /\ modules_loaded' = m
        /\ mod_loaded' = [mod_loaded EXCEPT ![m] = modules_loaded]
        /\ UNCHANGED <<deps, modules_installed, installing, cursor, phase>>
    BY <1>0, <1>1 DEF init, Top, Pop
  <1>3. t \in 1..Len(stack) /\ m \in Module /\ stack \in Seq(Frame)
    <2>1. t \in 1..Len(stack) /\ stack \in Seq(Frame)
      BY <1>0, <1>2 DEF TypeOK
    <2> QED BY <2>1, <1>1, Shapes
  <1>4. stack' \in Seq(Frame) /\ Len(stack') = t - 1 /\ \A k \in 1..(t - 1) : stack'[k] = stack[k]
    BY <1>0, <1>2, <1>3
  <1>5. Inited' = Inited \cup {m}
    <2>1. inited \in Seq(Module)
      BY DEF TypeOK
    <2>2. Len(inited') = Len(inited) + 1 /\ inited'[Len(inited) + 1] = m
          /\ \A j \in 1..Len(inited) : inited'[j] = inited[j]
      BY <2>1, <1>2, <1>3
    <2>3. 1..(Len(inited) + 1) = (1..Len(inited)) \cup {Len(inited) + 1}
      BY <2>1
    <2> QED BY <2>2, <2>3 DEF Inited, SlistElems
  <1>6. TypeOK'
    <2>1. inited' \in Seq(Module)
      BY <1>2, <1>3 DEF TypeOK
    <2>2. mod_loaded' \in [Module -> Module \cup {NoModule}]
      BY <1>2, <1>3 DEF TypeOK
    <2> QED BY <2>1, <2>2, <1>2, <1>3, <1>4 DEF TypeOK
  <1>7. History'
    BY InitHistory
  <1>8. Installed' /\ AllInited'
    BY <1>2 DEF Installed, AllInited, Running
  <1>9. ASSUME NEW k \in 1..(t - 1) PROVE FrameOK(k)'
    <2>1. k \in 1..Len(stack) /\ k < Len(stack) /\ k < t /\ k + 1 \in 1..Len(stack)
      BY <1>0, <1>3
    <2>2. FrameOK(k) /\ stack[k] \in Frame /\ stack[k].module \in Module
      BY <2>1, Shapes DEF Frames
    <2>3. stack[k].module # m
      BY <2>1, <1>1, <1>3, NoRepeat
    <2>4. mod_loaded'[stack[k].module] = mod_loaded[stack[k].module]
      BY <2>2, <2>3, <1>2, <1>3 DEF TypeOK
    <2>5. Inited \subseteq Inited' /\ stack'[k] = stack[k] /\ deps' = deps
      BY <1>2, <1>4, <1>5
    <2>6. CASE k < t - 1
      <3>1. k + 1 \in 1..(t - 1) /\ k < Len(stack')
        BY <2>6, <1>4
      <3>2. stack'[k + 1].module = stack[k + 1].module
        BY <3>1, <1>4
      <3> QED BY <3>1, <3>2, <2>1, <2>2, <2>4, <2>5, LowerFrame
    <2>7. CASE k = t - 1
      <3>1. k + 1 = t /\ ~(k < Len(stack'))
        BY <2>7, <1>4
      <3>2. stack[k].i > 1 /\ m = deps[stack[k].module][stack[k].i - 1]
        BY <3>1, <2>1, <2>2, <1>1 DEF FrameOK
      <3> QED BY <3>1, <3>2, <2>2, <2>4, <2>5, <1>5 DEF FrameOK, Loaded
    <2> QED BY <2>6, <2>7
  <1>10. Frames'
    BY <1>4, <1>9 DEF Frames
  <1>11. Visited'
    <2>1. ASSUME NEW x \in 1..Len(modules_installed), x < cursor
          PROVE  \/ modules_installed[x] \in Inited'
                 \/ stack' # <<>> /\ stack'[1].module = modules_installed[x]
      <3>1. CASE modules_installed[x] \in Inited
        BY <3>1, <1>5
      <3>2. CASE stack[1].module = modules_installed[x] /\ t = 1
        BY <3>2, <1>1, <1>5
      <3>3. CASE stack[1].module = modules_installed[x] /\ t # 1
        <4>1. 1 \in 1..(t - 1)
          BY <3>3, <1>0, <1>3
        <4>2. stack'[1] = stack[1] /\ stack' # <<>>
          BY <4>1, <1>4
        <4> QED BY <4>2, <3>3
      <3> QED BY <2>1, <3>1, <3>2, <3>3, <1>2 DEF Visited, Running
    <2> QED BY <2>1, <1>2 DEF Visited
  <1> QED BY <1>6, <1>7, <1>8, <1>10, <1>11 DEF History

\* modules_init returns 0: the cursor has passed every module of the image.
LEMMA FinishStep == ASSUME IInv, finish PROVE IInv'
  <1> USE DEF IInv
  <1>1. /\ Running /\ stack = <<>> /\ cursor > Len(modules_installed) /\ phase' = "done"
        /\ UNCHANGED <<deps, lists, stack, installing, cursor, inited>>
    BY DEF finish
  <1>2. TypeOK'
    BY <1>1 DEF TypeOK, lists
  <1>3. History'
    BY <1>1, HistoryUnchanged DEF History, lists
  <1>4. Installed' /\ Frames'
    BY <1>1 DEF Installed, Frames, lists, Running
  <1>5. SlistElems(Image) \subseteq Inited
    <2>1. ASSUME NEW e \in SlistElems(Image) PROVE e \in Inited
      <3>1. e \in SlistElems(modules_installed)
        BY <2>1, <1>1 DEF Installed, Running, SlistElems
      <3>2. PICK x \in 1..Len(modules_installed) : modules_installed[x] = e
        BY <3>1 DEF SlistElems
      <3>3. x < cursor
        BY <1>1, Shapes DEF TypeOK
      <3> QED BY <3>2, <3>3, <1>1 DEF Visited, Running
    <2> QED BY <2>1
  <1>6. AllInited'
    BY <1>1, <1>5 DEF AllInited, Inited
  <1>7. Visited'
    BY <1>1 DEF Visited, lists, Inited, Running
  <1> QED BY <1>2, <1>3, <1>4, <1>6, <1>7 DEF History

\* Every step of the loader keeps the invariant.
LEMMA Preserved == IInv /\ [Next]_vars => IInv'
  <1> SUFFICES ASSUME IInv, [Next]_vars PROVE IInv'
    OBVIOUS
  <1>1. CASE module_install
    BY <1>1, InstallStep
  <1>2. CASE visit
    BY <1>2, VisitStep
  <1>3. CASE depend
    BY <1>3, DependStep
  <1>4. CASE init
    BY <1>4, InitStep
  <1>5. CASE init_fails
    <2>1. Running /\ Fails /\ UNCHANGED <<deps, lists, installing, inited>> /\ cursor' = cursor
      BY <1>5 DEF init_fails
    <2>2. cursor' \in Nat \ {0}
      BY <2>1 DEF IInv, TypeOK
    <2> QED BY <2>1, <2>2, FailStep
  <1>6. CASE finish
    BY <1>6, FinishStep
  <1>7. CASE UNCHANGED vars
    BY <1>7 DEF vars, lists, IInv, TypeOK, Acyclic, Deps, DepsFirst, OnlyFirstAgain, AllInited,
       Inited, Marked, Loaded, HeadSet, Installed, Frames, FrameOK, Visited
  <1> QED BY <1>1, <1>2, <1>3, <1>4, <1>5, <1>6, <1>7 DEF Next
-----------------------------------------------------------------------------
\* The invariant holds in every state of modules_init, whatever modules are
\* linked in and in whatever order.
THEOREM Inductive == Spec => []IInv
  BY Initial, Preserved, PTL DEF Spec

\* The lists, the links and the frames of module_init have their types: only
\* modules that are installed are ever called.
THEOREM TypeCorrect == Spec => []TypeOK
  <1>1. IInv => TypeOK
    BY DEF IInv
  <1> QED BY <1>1, Inductive, PTL

\* init() of a module is called after init() of all it depends on.
THEOREM DepsSafe == Spec => []DepsFirst
  <1>1. IInv => DepsFirst
    BY DEF IInv
  <1> QED BY <1>1, Inductive, PTL

\* No module but the first to be loaded is initialised again, and that one once
\* at most: the check of the link at the start of module_init, which is NULL for
\* the last of the list whether it is loaded or not, costs no more than that.
THEOREM OnceSafe == Spec => []OnlyFirstAgain
  <1>1. IInv => OnlyFirstAgain
    BY DEF IInv
  <1> QED BY <1>1, Inductive, PTL

\* When modules_init returns 0 all modules of the image are initialised.
THEOREM AllSafe == Spec => []AllInited
  <1>1. IInv => AllInited
    BY DEF IInv
  <1> QED BY <1>1, Inductive, PTL
=============================================================================
