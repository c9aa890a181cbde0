---------------------------- MODULE ExecutiveProofs ----------------------------
(***************************************************************************)
(* What holds of module Executive for any literals, any drivers and any    *)
(* signals: KeInitialize creates what its calls follow, the registry finds *)
(* what was registered, although ObCreateString destroys the names, and    *)
(* KiSignalInvoke calls all that listens, whatever interrupts it.          *)
(***************************************************************************)
EXTENDS Executive, SequenceTheorems, FiniteSetTheorems, WellFoundedInduction, TLAPS

-------------------------------------------------------------------------------
(* The registry *)

Things  == Objects \cup {"ThreadCarousel", "Threads"}
Vectors == [objects : Seq(Things), monitor : BOOLEAN]

\* ObCreateString leaves every namespace the empty string as its name.
Spaces == [string : {""}, objects : Vectors]

Texts == Range(Written) \cup {""}

Registries ==
  [text : [Literals -> Texts], spaces : Seq(Spaces), named : SUBSET Literals,
   filed : SUBSET (Things \X Literals)]

\* A literal holds the empty string once it was given to a namespace, and only
\* then, but for "ROOT"; so it finds the first namespace of all, where all
\* that was registered is.
Sound(r) ==
  /\ r \in Registries
  /\ \A l \in r.named : r.text[l] = ""
  /\ \A l \in Literals \ (r.named \cup {"ROOT"}) : r.text[l] # ""
  /\ r.named # {} => r.spaces # << >>
  /\ \A entry \in r.filed :
       /\ entry[2] \in r.named
       /\ entry[1] \in Range(r.spaces[1].objects.objects)

\* Which namespace a literal finds: the first, or none.
LEMMA FirstOrNone ==
  ASSUME NEW r, Sound(r), NEW name \in Literals
  PROVE  /\ r.text[name] # "" => First(r, name) = {}
         /\ r.text[name] = "" /\ r.spaces # << >> => First(r, name) = {1}
         /\ First(r, name) \subseteq DOMAIN r.spaces \cap {1}
<1>0. r.spaces \in Seq(Spaces)
  BY DEF Sound, Registries
<1>2. /\ DOMAIN r.spaces = 1 .. Len(r.spaces) /\ Len(r.spaces) \in Nat
      /\ \A k \in DOMAIN r.spaces : r.spaces[k] \in Spaces
  BY <1>0
<1>1. \A k \in DOMAIN r.spaces : r.spaces[k].string = ""
  BY <1>2 DEF Spaces
<1>3. CASE r.text[name] # ""
  <2>1. Named(r, name) = {}
    BY <1>1, <1>3 DEF Named
  <2> QED
    BY <1>3, <2>1 DEF First
<1>4. CASE r.text[name] = "" /\ r.spaces # << >>
  <2>1. Named(r, name) = 1 .. Len(r.spaces)
    BY <1>1, <1>2, <1>4 DEF Named
  <2>2. 1 \in 1 .. Len(r.spaces)
    <3>1. Len(r.spaces) \in Nat \ {0}
      BY <1>0, <1>4, EmptySeq, Zenon
    <3> QED
      BY <3>1
  <2>3. First(r, name) = {1}
    BY <1>2, <2>1, <2>2 DEF First
  <2> QED
    BY <1>2, <1>4, <2>2, <2>3
<1>5. CASE r.text[name] = "" /\ r.spaces = << >>
  <2>1. Named(r, name) = {}
    <3>1. Len(r.spaces) = 0
      BY <1>0, <1>5, EmptySeq
    <3> QED
      BY <1>2, <3>1 DEF Named
  <2> QED
    BY <1>5, <2>1 DEF First
<1> QED
  BY <1>3, <1>4, <1>5

\* A namespace more.
LEMMA NamespaceAdded ==
  ASSUME NEW r, Sound(r), NEW name \in Literals
  PROVE  Sound(WithNamespace(r, name)) /\ name \in WithNamespace(r, name).named
<1> DEFINE new == ObCreateRegistry(name)
           s == WithNamespace(r, name)
<1>1. /\ r.text \in [Literals -> Texts] /\ r.spaces \in Seq(Spaces)
      /\ r.named \in SUBSET Literals /\ r.filed \in SUBSET (Things \X Literals)
  BY DEF Sound, Registries
<1>2. << >> \in Seq(Things)
  OBVIOUS
<1>3. new \in Spaces
  BY <1>2 DEF ObCreateRegistry, ObCreateString, ObCreateVector, Spaces, Vectors
<1> HIDE DEF new
<1>4. /\ s.text = [r.text EXCEPT ![name] = ""] /\ s.spaces = Append(r.spaces, new)
      /\ s.named = r.named \cup {name} /\ s.filed = r.filed
      /\ s \in Registries
  <2> DEFINE text == [r.text EXCEPT ![name] = ""]
             spaces == Append(r.spaces, new)
             named == r.named \cup {name}
  <2>1. text \in [Literals -> Texts] /\ spaces \in Seq(Spaces) /\ named \in SUBSET Literals
    <3>1. spaces \in Seq(Spaces)
      BY <1>1, <1>3, AppendProperties
    <3>2. text \in [Literals -> Texts]
      BY <1>1 DEF Texts
    <3> QED
      BY <1>1, <3>1, <3>2
  <2>2. s = [r EXCEPT !.spaces = spaces, !.text = text, !.named = named]
    BY DEF WithNamespace, new, Sound, Registries
  <2> HIDE DEF text, spaces, named, s
  <2>3. /\ s.text = text /\ s.spaces = spaces /\ s.named = named /\ s.filed = r.filed
        /\ s \in Registries
    BY <2>1, <2>2 DEF Sound, Registries
  <2> QED
    BY <2>3 DEF text, spaces, named
<1> HIDE DEF s
<1>5. s.spaces # << >> /\ (r.spaces # << >> => s.spaces[1] = r.spaces[1])
  <2>1. /\ Append(r.spaces, new) # << >>
        /\ \A i \in 1 .. Len(r.spaces) : Append(r.spaces, new)[i] = r.spaces[i]
    BY <1>1, <1>3, AppendProperties
  <2>2. r.spaces # << >> => Len(r.spaces) \in Nat \ {0}
    BY <1>1, EmptySeq, Zenon
  <2>3. r.spaces # << >> => 1 \in 1 .. Len(r.spaces)
    BY <2>2
  <2> QED
    BY <1>4, <2>1, <2>3
<1>6. /\ \A l \in s.named : s.text[l] = ""
      /\ \A l \in Literals \ (s.named \cup {"ROOT"}) : s.text[l] # ""
  <2>1. s.text[name] = "" /\ \A l \in Literals \ {name} : s.text[l] = r.text[l]
    BY <1>1, <1>4
  <2>2. s.named = r.named \cup {name} /\ r.named \subseteq Literals
    BY <1>1, <1>4
  <2> QED
    BY <2>1, <2>2 DEF Sound
<1>7. ASSUME NEW entry \in s.filed
      PROVE  /\ entry[2] \in s.named
             /\ entry[1] \in Range(s.spaces[1].objects.objects)
  <2>1. /\ entry[2] \in r.named /\ r.spaces # << >>
        /\ entry[1] \in Range(r.spaces[1].objects.objects)
    BY <1>4, <1>7 DEF Sound
  <2> QED
    BY <1>4, <1>5, <2>1
<1> QED
  BY <1>4, <1>5, <1>6, <1>7 DEF Sound, s

\* Other vectors for namespaces: the first keeps what it has.
LEMMA VectorsReplaced ==
  ASSUME NEW r, Sound(r), NEW vectors, DOMAIN vectors \subseteq DOMAIN r.spaces \cap {1},
         \A k \in DOMAIN vectors :
           /\ vectors[k] \in Vectors
           /\ Range(r.spaces[k].objects.objects) \subseteq Range(vectors[k].objects)
  PROVE  LET s == Replaced(r, vectors) IN
         /\ Sound(s)
         /\ s.text = r.text /\ s.named = r.named /\ s.filed = r.filed
         /\ r.spaces # << >> => s.spaces # << >>
         /\ \A k \in DOMAIN vectors : s.spaces[k].objects = vectors[k]
<1> DEFINE S == DOMAIN vectors
           s == Replaced(r, vectors)
           spaces == [k \in DOMAIN r.spaces |->
                        IF k \in DOMAIN vectors THEN [r.spaces[k] EXCEPT !.objects = vectors[k]]
                        ELSE r.spaces[k]]
<1>1. /\ r.text \in [Literals -> Texts] /\ r.spaces \in Seq(Spaces)
      /\ r.named \in SUBSET Literals /\ r.filed \in SUBSET (Things \X Literals)
  BY DEF Sound, Registries
<1>2. DOMAIN r.spaces = 1 .. Len(r.spaces) /\ Len(r.spaces) \in Nat
      /\ \A k \in DOMAIN r.spaces : r.spaces[k] \in Spaces
  BY <1>1
<1>3. spaces \in [1 .. Len(r.spaces) -> Spaces]
  BY <1>2 DEF Spaces
<1>4. spaces \in Seq(Spaces)
  BY <1>2, <1>3, SeqDef
<1>5. \A k \in S : spaces[k].objects = vectors[k]
  BY <1>2 DEF Spaces
<1>6. \A k \in DOMAIN r.spaces : k \notin S => spaces[k] = r.spaces[k]
  OBVIOUS
<1>7. DOMAIN spaces = DOMAIN r.spaces
  OBVIOUS
<1>8. s.spaces = spaces /\ s.text = r.text /\ s.named = r.named /\ s.filed = r.filed
      /\ s \in Registries
  BY <1>1, <1>4 DEF Replaced, Sound, Registries
<1> HIDE DEF s, spaces
<1>9. r.spaces # << >> => s.spaces # << >> /\ 1 \in DOMAIN r.spaces
  BY <1>1, <1>2, <1>4, <1>7, <1>8
<1>10. ASSUME NEW entry \in s.filed
       PROVE  /\ entry[2] \in s.named
              /\ entry[1] \in Range(s.spaces[1].objects.objects)
  <2>1. /\ entry[2] \in r.named /\ r.spaces # << >>
        /\ entry[1] \in Range(r.spaces[1].objects.objects)
    BY <1>8, <1>10 DEF Sound
  <2>2. CASE 1 \in S
    BY <1>5, <1>8, <2>1, <2>2
  <2>3. CASE 1 \notin S
    BY <1>6, <1>8, <1>9, <2>1, <2>3
  <2> QED
    BY <2>2, <2>3
<1>11. Sound(s)
  BY <1>8, <1>9, <1>10 DEF Sound
<1> QED
  BY <1>5, <1>8, <1>9, <1>11 DEF s

\* A vector more in the first namespace that a name finds.
LEMMA ObjectAdded ==
  ASSUME NEW r, Sound(r), NEW object \in Things, NEW name \in Literals
  PROVE  LET s == WithObject(r, object, name) IN
         Sound(s) /\ s.named = r.named
<1> DEFINE S == First(r, name)
           vectors == [k \in S |-> ObVectorAdd(r.spaces[k].objects, object)]
           q == Replaced(r, vectors)
           s == WithObject(r, object, name)
<1>1. /\ S \in SUBSET (DOMAIN r.spaces \cap {1})
      /\ r.text[name] = "" /\ r.spaces # << >> => S = {1}
  BY FirstOrNone
<1>2. \A k \in DOMAIN r.spaces : r.spaces[k].objects.objects \in Seq(Things)
  <2>1. r.spaces \in Seq(Spaces)
    BY DEF Sound, Registries
  <2>2. \A k \in DOMAIN r.spaces : r.spaces[k] \in Spaces
    BY <2>1
  <2> QED
    BY <2>2 DEF Spaces, Vectors
<1>3. ASSUME NEW k \in S
      PROVE  /\ vectors[k] \in Vectors
             /\ Range(r.spaces[k].objects.objects) \subseteq Range(vectors[k].objects)
             /\ object \in Range(vectors[k].objects)
  <2> DEFINE old == r.spaces[k].objects.objects
             new == Append(old, object)
  <2>1. old \in Seq(Things)
    BY <1>1, <1>2
  <2> HIDE DEF old
  <2>2. /\ new \in Seq(Things) /\ Len(new) = Len(old) + 1
        /\ \A i \in 1 .. Len(old) : new[i] = old[i]
        /\ new[Len(old) + 1] = object
    BY <2>1, AppendProperties
  <2>3. /\ DOMAIN old = 1 .. Len(old) /\ DOMAIN new = 1 .. Len(new)
        /\ Len(old) \in Nat
    BY <2>1, <2>2, LenProperties
  <2> HIDE DEF new
  <2>4. Range(old) \subseteq Range(new) /\ object \in Range(new)
    BY <2>2, <2>3 DEF Range
  <2>5. vectors[k] = [objects |-> new, monitor |-> FALSE]
    BY <1>3 DEF ObVectorAdd, old, new
  <2> HIDE DEF vectors
  <2> QED
    BY <2>2, <2>4, <2>5 DEF Vectors, old
<1>4. vectors \in [S -> Vectors]
  BY <1>3
<1> HIDE DEF S, vectors
<1>5. /\ Sound(q) /\ q.text = r.text /\ q.named = r.named /\ q.filed = r.filed
      /\ \A k \in S : q.spaces[k].objects = vectors[k]
  <2>1. DOMAIN vectors = S
    BY <1>4
  <2>2. /\ DOMAIN vectors \subseteq DOMAIN r.spaces \cap {1}
        /\ \A k \in DOMAIN vectors :
             /\ vectors[k] \in Vectors
             /\ Range(r.spaces[k].objects.objects) \subseteq Range(vectors[k].objects)
    BY <1>1, <1>3, <2>1
  <2>3. /\ Sound(q) /\ q.text = r.text /\ q.named = r.named /\ q.filed = r.filed
        /\ \A k \in DOMAIN vectors : q.spaces[k].objects = vectors[k]
    <3>1. Sound(q)
      BY <2>2, VectorsReplaced
    <3>2. q.text = r.text /\ q.named = r.named /\ q.filed = r.filed
      BY <2>2, VectorsReplaced
    <3>3. \A k \in DOMAIN vectors : q.spaces[k].objects = vectors[k]
      BY <2>2, VectorsReplaced
    <3> QED
      BY <3>1, <3>2, <3>3
  <2> QED
    BY <2>1, <2>3
<1>6. s = [q EXCEPT !.filed = IF name \in r.named THEN @ \cup {<<object, name>>} ELSE @]
  BY DEF WithObject, S, vectors
<1> HIDE DEF q
<1>7. /\ s.text = q.text /\ s.spaces = q.spaces /\ s.named = q.named
      /\ s.filed = IF name \in r.named THEN q.filed \cup {<<object, name>>} ELSE q.filed
      /\ s \in Registries
  <2>1. q \in Registries
    BY <1>5 DEF Sound
  <2> QED
    BY <1>6, <2>1, SMTT(30) DEF Registries
<1> HIDE DEF s
<1>8. ASSUME name \in r.named PROVE object \in Range(s.spaces[1].objects.objects)
  <2>1. r.text[name] = "" /\ r.spaces # << >>
    BY <1>8 DEF Sound
  <2>2. S = {1}
    BY <1>1, <2>1
  <2> QED
    BY <1>3, <1>5, <1>7, <2>2
<1>9. Sound(s)
  <2>1. ASSUME NEW entry \in s.filed
        PROVE  /\ entry[2] \in s.named
               /\ entry[1] \in Range(s.spaces[1].objects.objects)
    <3>1. CASE entry \in q.filed
      BY <1>5, <1>7, <3>1 DEF Sound
    <3>2. CASE entry \notin q.filed
      <4>1. name \in r.named /\ entry = <<object, name>>
        BY <1>7, <3>2
      <4> QED
        BY <1>5, <1>7, <1>8, <4>1
    <3> QED
      BY <3>1, <3>2
  <2> QED
    BY <1>5, <1>7, <2>1 DEF Sound
<1> QED
  BY <1>5, <1>7, <1>9 DEF s

\* Taking an object out leaves every vector what it has.
LEMMA ObjectRemoved ==
  ASSUME NEW r, Sound(r), NEW object, NEW name \in Literals
  PROVE  Sound(WithoutObject(r, object, name))
<1> DEFINE S == First(r, name)
           vectors == [k \in S |-> ObVectorRemove(r.spaces[k].objects, object)]
<1>1. S \in SUBSET (DOMAIN r.spaces \cap {1})
  BY FirstOrNone
<1>2. \A k \in DOMAIN r.spaces : r.spaces[k].objects \in Vectors
  <2>1. r.spaces \in Seq(Spaces)
    BY DEF Sound, Registries
  <2>2. \A k \in DOMAIN r.spaces : r.spaces[k] \in Spaces
    BY <2>1
  <2> QED
    BY <2>2 DEF Spaces
<1>3. ASSUME NEW k \in S
      PROVE  /\ vectors[k] \in Vectors
             /\ vectors[k].objects = r.spaces[k].objects.objects
  <2>1. r.spaces[k].objects \in Vectors
    BY <1>1, <1>2
  <2> QED
    BY <2>1 DEF ObVectorRemove, Vectors
<1>4. vectors \in [S -> Vectors]
  BY <1>3
<1> HIDE DEF S, vectors
<1>5. Sound(Replaced(r, vectors))
  <2>1. DOMAIN vectors = S
    BY <1>4
  <2> QED
    BY <1>1, <1>3, <2>1, VectorsReplaced
<1> QED
  BY <1>5 DEF WithoutObject, S, vectors

\* CmInitialize overwrites "ROOT", which names no namespace of the root.
LEMMA RootOverwritten ==
  ASSUME NEW r, Sound(r)
  PROVE  Sound([r EXCEPT !.text["ROOT"] = ObCreateString("ROOT")])
<1> DEFINE text == [r.text EXCEPT !["ROOT"] = ""]
           s == [r EXCEPT !.text = text]
<1>1. /\ r \in Registries /\ r.text \in [Literals -> Texts]
  BY DEF Sound, Registries
<1>2. /\ text \in [Literals -> Texts]
      /\ \A l \in Literals : text[l] = IF l = "ROOT" THEN "" ELSE r.text[l]
  BY <1>1, ExecutiveAssumption DEF Texts
<1>3. [r EXCEPT !.text["ROOT"] = ObCreateString("ROOT")] = s
  BY DEF ObCreateString
<1> HIDE DEF text
<1>4. /\ s \in Registries /\ s.text = text /\ s.spaces = r.spaces
      /\ s.named = r.named /\ s.filed = r.filed
  BY <1>1, <1>2 DEF Registries
<1> HIDE DEF s
<1>5. /\ \A l \in s.named : s.text[l] = ""
      /\ \A l \in Literals \ (s.named \cup {"ROOT"}) : s.text[l] # ""
  <2>1. r.named \subseteq Literals
    BY <1>1 DEF Registries
  <2> QED
    BY <1>2, <1>4, <2>1 DEF Sound
<1>6. Sound(s)
  BY <1>4, <1>5 DEF Sound
<1> QED
  BY <1>3, <1>6

\* What a sound registry finds.
LEMMA SoundFinds == ASSUME Sound(Registry) PROVE FoundUnderItsName
<1>1. ASSUME NEW entry \in Registry.filed
      PROVE  \E v \in CmRegisterGetNamespaceVector(entry[2]) : entry[1] \in Range(v.objects)
  <2>1. /\ entry[2] \in Registry.named /\ entry[2] \in Literals
        /\ entry[1] \in Range(Registry.spaces[1].objects.objects)
    BY DEF Sound, Registries
  <2>2. Registry.text[entry[2]] = "" /\ Registry.spaces # << >>
    BY <2>1 DEF Sound
  <2>3. First(Registry, entry[2]) = {1}
    BY <2>1, <2>2, FirstOrNone
  <2> QED
    BY <2>1, <2>3 DEF CmRegisterGetNamespaceVector
<1>2. ASSUME NEW name \in Literals \ (Registry.named \cup {"ROOT"})
      PROVE  CmRegisterGetNamespaceVector(name) = {}
  <2>1. Registry.text[name] # ""
    BY DEF Sound
  <2>2. First(Registry, name) = {}
    BY <2>1, FirstOrNone
  <2> QED
    BY <2>2 DEF CmRegisterGetNamespaceVector
<1> QED
  BY <1>1, <1>2 DEF FoundUnderItsName

-------------------------------------------------------------------------------
(* The invariant *)

\* What KeInitialize has created when its next call is the one of pc.
Created ==
  /\ pc \in 1 .. 5
  /\ pc > 1 => "Registry" \in created
  /\ pc > 2 => "FwRepresentations" \in created
  /\ pc > 3 => "ThreadCarousel" \in created
  /\ missing \subseteq {"KiDI"}

IInv == Created /\ Sound(Registry)

\* The calls of KeInitialize, in their order.
LEMMA Calls4 ==
  /\ DOMAIN KeInitialize = 1 .. 4 /\ Len(KeInitialize) = 4
  /\ KeInitialize[1] = "CmInitialize" /\ KeInitialize[2] = "KiInitialize"
  /\ KeInitialize[3] = "PsInitialize" /\ KeInitialize[4] = "FwLowerControlLevel"
  BY DEF KeInitialize

\* No name has been destroyed yet, and no namespace is there.
LEMMA Initially == Init => IInv
<1> SUFFICES ASSUME Init PROVE IInv
  OBVIOUS
<1>1. /\ Registry.text = Written /\ Registry.spaces = << >>
      /\ Registry.named = {} /\ Registry.filed = {}
      /\ Registry = [text |-> Written, spaces |-> << >>, named |-> {}, filed |-> {}]
  BY DEF Init
<1>2. Written \in [Literals -> Texts] /\ \A l \in Literals : Written[l] # ""
  BY ExecutiveAssumption DEF Texts, Range
<1>3. << >> \in Seq(Spaces)
  OBVIOUS
<1>4. Registry \in Registries
  BY <1>1, <1>2, <1>3 DEF Registries
<1>5. Sound(Registry)
  BY <1>1, <1>2, <1>4 DEF Sound
<1> QED
  BY <1>5 DEF Init, IInv, Created

\* The steps of KeInitialize create in order what they follow.
LEMMA BootStep == ASSUME IInv, Boot PROVE IInv'
<1>1. CASE CmInitialize
  <2>1. Created'
    BY <1>1, Calls4 DEF CmInitialize, Booting, IInv, Created
  <2>2. Registry' = [Registry EXCEPT !.text["ROOT"] = ObCreateString("ROOT")]
    BY <1>1 DEF CmInitialize
  <2>3. Sound(Registry')
    BY <2>2, RootOverwritten DEF IInv
  <2> QED
    BY <2>1, <2>3 DEF IInv
<1>2. CASE KiInitialize
  BY <1>2, Calls4 DEF KiInitialize, Booting, IInv, Created
<1>3. CASE Booting("PsInitialize") /\ PsInitialize
  <2>1. pc = 3 /\ pc' = 4
    BY <1>3, Calls4 DEF Booting, IInv, Created
  <2>2. Created'
    <3>1. {"Registry", "FwRepresentations"} \subseteq created /\ missing \subseteq {"KiDI"}
      BY <2>1 DEF IInv, Created
    <3>2. missing' = missing
      BY <1>3, <3>1 DEF PsInitialize, Follow
    <3>3. {"Registry", "FwRepresentations", "ThreadCarousel"} \subseteq created'
      BY <1>3, <3>1 DEF PsInitialize
    <3> QED
      BY <2>1, <3>1, <3>2, <3>3 DEF Created
  <2> DEFINE named == WithNamespace(Registry, "Ps")
             queue == WithObject(named, "ThreadCarousel", "Ps")
  <2>3. /\ "Ps" \in Literals
        /\ "ThreadCarousel" \in Things /\ "Threads" \in Things
    BY ExecutiveAssumption DEF Things
  <2>4. Sound(named)
    BY <2>3, NamespaceAdded DEF IInv
  <2>5. Sound(queue)
    <3> HIDE DEF named
    <3> QED
      BY <2>3, <2>4, ObjectAdded
  <2>6. Registry' = WithObject(queue, "Threads", "Ps")
    BY <1>3 DEF PsInitialize
  <2> HIDE DEF queue
  <2>7. Sound(Registry')
    BY <2>3, <2>5, <2>6, ObjectAdded
  <2> QED
    BY <2>2, <2>7 DEF IInv
<1>4. CASE FwLowerControlLevel
  <2>1. pc = 4 /\ pc' = 5
    BY <1>4, Calls4 DEF FwLowerControlLevel, Booting, IInv, Created
  <2>2. {"Registry", "FwRepresentations", "ThreadCarousel"} \subseteq created
    BY <2>1 DEF IInv, Created
  <2>3. missing' = missing /\ created' = created /\ Registry' = Registry
    BY <1>4, <2>2 DEF FwLowerControlLevel, Follow
  <2>4. Created'
    BY <2>1, <2>2, <2>3 DEF IInv, Created
  <2> QED
    BY <2>3, <2>4 DEF IInv
<1> QED
  BY <1>1, <1>2, <1>3, <1>4 DEF Boot

\* Later calls follow what is there.
LEMMA CallStep == ASSUME IInv, pc > Len(KeInitialize), Calls PROVE IInv'
<1>0. pc = 5 /\ {"Registry", "ThreadCarousel"} \subseteq created /\ missing \subseteq {"KiDI"}
      /\ Sound(Registry)
  BY Calls4 DEF IInv, Created
<1>1. ASSUME NEW l \in Literals, CmRegisterNamespace(l) PROVE IInv'
  <2>1. Registry' = WithNamespace(Registry, l)
    BY <1>1 DEF CmRegisterNamespace
  <2>2. Sound(Registry')
    BY <1>0, <2>1, NamespaceAdded
  <2> QED
    BY <1>0, <1>1, <2>2 DEF CmRegisterNamespace, Follow, IInv, Created
<1>2. ASSUME NEW o \in Objects, NEW l \in Literals, CmRegisterObject(o, l) PROVE IInv'
  <2>1. Registry' = WithObject(Registry, o, l) /\ o \in Things
    BY <1>2 DEF CmRegisterObject, Things
  <2>2. Sound(Registry')
    BY <1>0, <2>1, ObjectAdded
  <2> QED
    BY <1>0, <1>2, <2>2 DEF CmRegisterObject, Follow, IInv, Created
<1>3. ASSUME NEW o, NEW l \in Literals, CmUnregisterObject(o, l) PROVE IInv'
  <2>1. Registry' = WithoutObject(Registry, o, l)
    BY <1>3 DEF CmUnregisterObject
  <2>2. Sound(Registry')
    BY <1>0, <2>1, ObjectRemoved
  <2> QED
    BY <1>0, <1>3, <2>2 DEF CmUnregisterObject, Follow, IInv, Created
<1>4. ASSUME PsAddProcess PROVE IInv'
  BY <1>0, <1>4 DEF PsAddProcess, Follow, IInv, Created
<1>5. ASSUME PsThreadExecute PROVE IInv'
  BY <1>5 DEF PsThreadExecute, IInv, Created
<1>6. ASSUME NEW s, KiSignalInvoke(s) PROVE IInv'
  BY <1>6 DEF KiSignalInvoke, IInv, Created
<1>7. CASE KiSignalDeffer
  BY <1>0, <1>7 DEF KiSignalDeffer, Follow, IInv, Created
<1> QED
  BY <1>1, <1>2, <1>3, <1>4, <1>5, <1>6, <1>7 DEF Calls

\* Invocations and interrupts touch neither the registry nor the globals.
LEMMA SignalStep ==
  ASSUME IInv, NextListener \/ InvokeReturn \/ Interrupts \/ UNCHANGED vars
  PROVE  IInv'
<1>1. UNCHANGED <<pc, created, missing, Registry>>
  BY DEF NextListener, InvokeReturn, Interrupts, Interrupt, KiSignalAddListener,
         KiSignalRemoveListener, vars
<1> QED
  BY <1>1 DEF IInv, Created

\* Every step keeps the invariant.
LEMMA Inductive == IInv /\ [Next]_vars => IInv'
  BY BootStep, CallStep, SignalStep DEF Next, Begin

\* Every global that KeInitialize and what runs after it follow has been
\* created before, but for KiDI: whatever drivers and interrupts do.
THEOREM CreatedBeforeUse == Spec => []UsesWhatExists
<1>1. IInv => UsesWhatExists
  BY DEF IInv, Created, UsesWhatExists
<1> QED
  BY Initially, Inductive, <1>1, PTL DEF Spec

\* For any literals and any number of namespaces and objects: what was
\* registered under a name given to a namespace is found under it, and a
\* literal that names no namespace finds none, although ObCreateString
\* destroys every name it is given.
THEOREM NamesFind == Spec => []FoundUnderItsName
<1>1. IInv => FoundUnderItsName
  BY SoundFinds DEF IInv
<1> QED
  BY Initially, Inductive, <1>1, PTL DEF Spec

-------------------------------------------------------------------------------
(* Functions that are defined by recursion *)

\* A set that has 0 and the successor of every element has all numbers.
LEMMA AllNumbers ==
  ASSUME NEW T, 0 \in T, \A n \in Nat : n \in T => n + 1 \in T
  PROVE  \A n \in Nat : n \in T
<1> DEFINE R == {pair \in Nat \X Nat : pair[1] < pair[2]}
           Out == {n \in Nat : n \notin T}
<1> SUFFICES ASSUME Out # {} PROVE FALSE
  OBVIOUS
<1>1. IsWellFoundedOn(R, Nat)
  BY NatLessThanWellFounded DEF OpToRel
<1>2. Out \subseteq Nat
  OBVIOUS
<1>3. PICK x \in Out : \A y \in Out : <<y, x>> \notin R
  <2> HIDE DEF R, Out
  <2> QED
    BY <1>1, <1>2, WFMin
<1>4. x \in Nat /\ x # 0 /\ x - 1 \in Nat /\ x - 1 + 1 = x /\ x - 1 < x
  BY <1>3
<1>5. <<x - 1, x>> \in R
  BY <1>4
<1>6. x - 1 \in T
  BY <1>3, <1>4, <1>5
<1> QED
  BY <1>3, <1>4, <1>6

\* What leads from a value and its number to the next value
Steps(X) == [Nat \X X -> X]

\* f begins with a, and goes from each value to the next by S.
Iterates(f, X, a, S) ==
  f \in [Nat -> X] /\ f[0] = a /\ \A n \in Nat : f[n + 1] = S[<<n, f[n]>>]

\* The function with a first value and a step from each value to the next
\* exists.
LEMMA Iterated ==
  ASSUME NEW X, NEW a \in X, NEW S \in Steps(X)
  PROVE  \E f : Iterates(f, X, a, S)
<1> DEFINE Up(n) == {g \in [0 .. n -> X] :
                       g[0] = a /\ \A k \in 0 .. n - 1 : g[k + 1] = S[<<k, g[k]>>]}
           E == {n \in Nat : Up(n) # {}}
           U == {k \in Nat : \A m, n \in Nat : k <= m /\ k <= n =>
                   \A g \in Up(m), h \in Up(n) : g[k] = h[k]}
<1>0. \A n \in Nat : \A g :
        g \in Up(n) <=> /\ g \in [0 .. n -> X] /\ g[0] = a
                        /\ \A k \in 0 .. n - 1 : g[k + 1] = S[<<k, g[k]>>]
  OBVIOUS
<1> HIDE DEF Up
<1>1. \A n \in Nat : \E g : g \in Up(n)
  <2>1. 0 \in E
    <3> DEFINE g == [k \in 0 .. 0 |-> a]
    <3>1. g \in [0 .. 0 -> X] /\ g[0] = a /\ 0 .. 0 - 1 = {}
      OBVIOUS
    <3> HIDE DEF g
    <3>2. g \in Up(0)
      BY <1>0, <3>1
    <3> QED
      BY <3>2
  <2>2. ASSUME NEW n \in Nat, n \in E PROVE n + 1 \in E
    <3>1. PICK g : g \in Up(n)
      BY <2>2
    <3> DEFINE h == [k \in 0 .. n + 1 |-> IF k <= n THEN g[k] ELSE S[<<n, g[n]>>]]
    <3>2. g \in [0 .. n -> X] /\ g[0] = a /\ g[n] \in X
      BY <1>0, <3>1
    <3>3. S[<<n, g[n]>>] \in X
      BY <3>2 DEF Steps
    <3>4. h \in [0 .. n + 1 -> X] /\ h[0] = a
      BY <3>2, <3>3
    <3>5. ASSUME NEW k \in 0 .. n + 1 - 1 PROVE h[k + 1] = S[<<k, h[k]>>]
      <4>1. CASE k = n
        <5>1. h[n + 1] = S[<<n, g[n]>>] /\ h[n] = g[n]
          OBVIOUS
        <5> QED
          BY <4>1, <5>1
      <4>2. CASE k # n
        <5>1. k \in 0 .. n - 1 /\ k \in 0 .. n + 1 /\ k + 1 \in 0 .. n + 1
              /\ k <= n /\ k + 1 <= n
          BY <4>2
        <5>2. g[k + 1] = S[<<k, g[k]>>]
          BY <1>0, <3>1, <5>1
        <5> QED
          BY <5>1, <5>2
      <4> QED
        BY <4>1, <4>2
    <3>6. h \in Up(n + 1)
      <4> HIDE DEF h
      <4> QED
        BY <1>0, <3>4, <3>5
    <3> QED
      BY <3>6
  <2>3. \A n \in Nat : n \in E
    <3> HIDE DEF E
    <3> QED
      BY <2>1, <2>2, AllNumbers
  <2> QED
    BY <2>3
<1>2. \A k \in Nat : k \in U
  <2>1. 0 \in U
    BY <1>0
  <2>2. ASSUME NEW k \in Nat, k \in U PROVE k + 1 \in U
    <3> SUFFICES ASSUME NEW m \in Nat, NEW n \in Nat, k + 1 <= m, k + 1 <= n,
                        NEW g \in Up(m), NEW h \in Up(n)
                 PROVE  g[k + 1] = h[k + 1]
      OBVIOUS
    <3>1. k \in 0 .. m - 1 /\ k \in 0 .. n - 1 /\ k <= m /\ k <= n
      OBVIOUS
    <3>2. g[k + 1] = S[<<k, g[k]>>] /\ h[k + 1] = S[<<k, h[k]>>]
      BY <1>0, <3>1
    <3>3. g[k] = h[k]
      BY <2>2, <3>1
    <3> QED
      BY <3>2, <3>3
  <2> HIDE DEF U
  <2> QED
    BY <2>1, <2>2, AllNumbers
<1> DEFINE c(n) == CHOOSE g : g \in Up(n)
           f == [n \in Nat |-> c(n)[n]]
<1>3. \A n \in Nat : c(n) \in Up(n)
  BY <1>1
<1> HIDE DEF c
<1>4. \A n \in Nat : \A g \in Up(n) : \A k \in 0 .. n : g[k] = f[k]
  <2> SUFFICES ASSUME NEW n \in Nat, NEW g \in Up(n), NEW k \in 0 .. n PROVE g[k] = f[k]
    OBVIOUS
  <2>1. k \in U /\ k \in Nat /\ k <= n /\ k <= k
    BY <1>2
  <2>2. c(k) \in Up(k) /\ f[k] = c(k)[k]
    BY <1>3, <2>1
  <2>3. g[k] = c(k)[k]
    BY <2>1, <2>2
  <2> QED
    BY <2>2, <2>3
<1> HIDE DEF f
<1>5. ASSUME NEW n \in Nat
      PROVE  f[n] \in X /\ f[0] = a /\ f[n + 1] = S[<<n, f[n]>>]
  <2>1. PICK g : g \in Up(n + 1)
    BY <1>1
  <2>2. g \in [0 .. n + 1 -> X] /\ g[0] = a /\ g[n + 1] = S[<<n, g[n]>>]
    BY <1>0, <2>1
  <2>3. g[0] = f[0] /\ g[n] = f[n] /\ g[n + 1] = f[n + 1]
    BY <1>4, <2>1
  <2>4. g[n] \in X
    BY <2>2
  <2> QED
    BY <2>2, <2>3, <2>4
<1>6. f \in [Nat -> X]
  <2>1. \A n \in Nat : f[n] \in X
    BY <1>5
  <2> QED
    BY <2>1 DEF f
<1>7. Iterates(f, X, a, S)
  BY <1>5, <1>6 DEF Iterates
<1> QED
  BY <1>7

\* What FlattenSeq does with a sequence that is not empty: a function of the
\* length so far.
LEMMA FlattenByLength ==
  ASSUME NEW A, NEW s \in Seq(Seq(A)), s # << >>
  PROVE  \E f : /\ f \in [1 .. Len(s) -> Seq(A)] /\ FlattenSeq(s) = f[Len(s)]
                /\ f[1] = s[1]
                /\ \A i \in 1 .. Len(s) - 1 : f[i + 1] = f[i] \o s[i + 1]
<1> DEFINE L == Len(s)
           Is(f) == f = [i \in 1 .. L |-> IF i = 1 THEN s[i] ELSE f[i - 1] \o s[i]]
           Step == [pair \in Nat \X Seq(A) |->
                      IF pair[1] + 2 \in 1 .. L THEN pair[2] \o s[pair[1] + 2] ELSE pair[2]]
<1>1. L \in Nat /\ L >= 1 /\ 1 \in 1 .. L /\ \A i \in 1 .. L : s[i] \in Seq(A)
  <2>1. L \in Nat \ {0}
    BY EmptySeq
  <2> QED
    BY <2>1
<1>2. Step \in [Nat \X Seq(A) -> Seq(A)]
  <2> SUFFICES ASSUME NEW n \in Nat, NEW q \in Seq(A), n + 2 \in 1 .. L
               PROVE  q \o s[n + 2] \in Seq(A)
    OBVIOUS
  <2> QED
    BY <1>1, ConcatProperties
<1>3. PICK h \in [Nat -> Seq(A)] :
        h[0] = s[1] /\ \A n \in Nat : h[n + 1] = Step[<<n, h[n]>>]
  <2>1. s[1] \in Seq(A) /\ Step \in Steps(Seq(A))
    BY <1>1, <1>2 DEF Steps
  <2> HIDE DEF Step
  <2>2. PICK h : Iterates(h, Seq(A), s[1], Step)
    BY <2>1, Iterated
  <2> QED
    BY <2>2 DEF Iterates
<1>4. \E f : Is(f)
  <2> DEFINE f == [i \in 1 .. L |-> h[i - 1]]
  <2>1. ASSUME NEW i \in 1 .. L
        PROVE  f[i] = IF i = 1 THEN s[i] ELSE f[i - 1] \o s[i]
    <3>1. CASE i = 1
      BY <1>3, <3>1
    <3>2. CASE i # 1
      <4>1. i - 2 \in Nat /\ i - 2 + 1 = i - 1 /\ i - 2 + 2 = i /\ i - 1 \in 1 .. L
            /\ i - 1 - 1 = i - 2
        BY <1>1, <3>2
      <4>2. h[i - 1] = Step[<<i - 2, h[i - 2]>>] /\ h[i - 2] \in Seq(A)
        <5> DEFINE p == i - 2
        <5> HIDE DEF p, Step
        <5>1. p \in Nat /\ h[p + 1] = Step[<<p, h[p]>>] /\ h[p] \in Seq(A)
          BY <1>3, <4>1 DEF p
        <5>2. p + 1 = i - 1
          BY <4>1 DEF p
        <5> QED
          BY <5>1, <5>2 DEF p
      <4>3. Step[<<i - 2, h[i - 2]>>] = h[i - 2] \o s[i]
        BY <4>1, <4>2
      <4>4. f[i] = h[i - 1] /\ f[i - 1] = h[i - 2]
        BY <4>1
      <4> QED
        BY <3>2, <4>2, <4>3, <4>4
    <3> QED
      BY <3>1, <3>2
  <2>2. Is(f)
    <3>1. f = [i \in 1 .. L |-> f[i]]
      OBVIOUS
    <3> HIDE DEF f
    <3> QED
      BY <2>1, <3>1
  <2> QED
    BY <2>2
<1> DEFINE f == CHOOSE g : Is(g)
<1>5. Is(f)
  BY <1>4
<1>6. FlattenSeq(s) = f[Len(s)]
  BY <1>1 DEF FlattenSeq
<1> HIDE DEF f
<1>7. f[1] = s[1] /\ \A i \in 1 .. L : i # 1 => f[i] = f[i - 1] \o s[i]
  <2> HIDE DEF L
  <2> QED
    BY <1>1, <1>5
<1>8. \A i \in 1 .. L - 1 : f[i + 1] = f[i] \o s[i + 1]
  <2> SUFFICES ASSUME NEW i \in 1 .. L - 1 PROVE f[i + 1] = f[i] \o s[i + 1]
    OBVIOUS
  <2>1. i + 1 \in 1 .. L /\ i + 1 # 1 /\ i + 1 - 1 = i
    BY <1>1
  <2> DEFINE k == i + 1
  <2> HIDE DEF k, L
  <2>2. f[k] = f[k - 1] \o s[k]
    BY <1>7, <2>1 DEF k
  <2>3. k - 1 = i
    BY <2>1 DEF k
  <2>4. f[k] = f[i] \o s[k]
    BY <2>2, <2>3
  <2> QED
    BY <2>4 DEF k
<1> DEFINE T == {n \in Nat : n + 1 \in 1 .. L => f[n + 1] \in Seq(A)}
<1>9. \A n \in Nat : n \in T
  <2>1. 0 \in T
    <3>1. f[1] \in Seq(A) /\ 0 + 1 = 1
      BY <1>1, <1>7
    <3> QED
      BY <3>1
  <2>2. ASSUME NEW n \in Nat, n \in T PROVE n + 1 \in T
    <3> SUFFICES ASSUME n + 1 + 1 \in 1 .. L PROVE f[n + 1 + 1] \in Seq(A)
      OBVIOUS
    <3>1. n + 1 \in 1 .. L - 1 /\ n + 1 \in 1 .. L
      BY <1>1
    <3>2. f[n + 1 + 1] = f[n + 1] \o s[n + 1 + 1] /\ f[n + 1] \in Seq(A) /\ s[n + 1 + 1] \in Seq(A)
      BY <1>1, <1>8, <2>2, <3>1
    <3> QED
      BY <3>2, ConcatProperties
  <2> HIDE DEF T
  <2> QED
    BY <2>1, <2>2, AllNumbers
<1>10. f \in [1 .. L -> Seq(A)]
  <2>1. ASSUME NEW i \in 1 .. L PROVE f[i] \in Seq(A)
    <3>1. i - 1 \in Nat /\ i - 1 + 1 = i
      BY <1>1
    <3> QED
      BY <1>9, <3>1
  <2> QED
    BY <1>5, <2>1
<1> QED
  BY <1>6, <1>7, <1>8, <1>10

\* FlattenSeq joins sequences to a sequence, and one sequence more to what it
\* made of those before.
LEMMA Flattened ==
  ASSUME NEW A, NEW s \in Seq(Seq(A))
  PROVE  /\ FlattenSeq(s) \in Seq(A)
         /\ FlattenSeq(<< >>) = << >>
         /\ \A x \in Seq(A) : FlattenSeq(Append(s, x)) = FlattenSeq(s) \o x
<1>1. FlattenSeq(<< >>) = << >>
  BY DEF FlattenSeq
<1>2. Len(s) \in Nat /\ \A i \in 1 .. Len(s) : s[i] \in Seq(A)
  OBVIOUS
<1>3. FlattenSeq(s) \in Seq(A)
  <2>1. CASE s = << >>
    <3>1. << >> \in Seq(A)
      OBVIOUS
    <3> QED
      BY <1>1, <2>1, <3>1
  <2>2. CASE s # << >>
    <3>1. Len(s) \in 1 .. Len(s)
      <4>1. Len(s) \in Nat \ {0}
        BY <2>2, EmptySeq
      <4> QED
        BY <4>1
    <3>2. PICK f : f \in [1 .. Len(s) -> Seq(A)] /\ FlattenSeq(s) = f[Len(s)]
      BY <2>2, FlattenByLength
    <3> QED
      BY <3>1, <3>2
  <2> QED
    BY <2>1, <2>2
<1>4. ASSUME NEW x \in Seq(A) PROVE FlattenSeq(Append(s, x)) = FlattenSeq(s) \o x
  <2> DEFINE t == Append(s, x)
             n == Len(s)
  <2>1. /\ t \in Seq(Seq(A)) /\ t # << >> /\ Len(t) = n + 1 /\ t[n + 1] = x
        /\ \A i \in 1 .. n : t[i] = s[i]
    BY AppendProperties
  <2> HIDE DEF t
  <2>2. PICK g : /\ FlattenSeq(t) = g[n + 1] /\ g[1] = t[1]
                 /\ \A i \in 1 .. n : g[i + 1] = g[i] \o t[i + 1]
    <3>1. n + 1 - 1 = n
      BY <1>2
    <3>2. \E g : /\ g \in [1 .. Len(t) -> Seq(A)] /\ FlattenSeq(t) = g[Len(t)]
                 /\ g[1] = t[1]
                 /\ \A i \in 1 .. Len(t) - 1 : g[i + 1] = g[i] \o t[i + 1]
      BY <2>1, FlattenByLength, Zenon
    <3>3. PICK g : /\ FlattenSeq(t) = g[Len(t)] /\ g[1] = t[1]
                   /\ \A i \in 1 .. Len(t) - 1 : g[i + 1] = g[i] \o t[i + 1]
      BY <3>2
    <3>4. Len(t) = n + 1 /\ Len(t) - 1 = n
      BY <2>1, <3>1
    <3> HIDE DEF n
    <3>5. \A i \in 1 .. n : g[i + 1] = g[i] \o t[i + 1]
      BY <3>3, <3>4
    <3> QED
      BY <3>3, <3>4, <3>5
  <2>3. CASE s = << >>
    <3>1. n = 0 /\ g[1] = x
      BY <2>1, <2>2, <2>3, EmptySeq
    <3> QED
      BY <1>1, <2>2, <2>3, <3>1, ConcatEmptySeq DEF t
  <2>4. CASE s # << >>
    <3>1. n >= 1 /\ n \in Nat
      <4>1. n \in Nat \ {0}
        BY <2>4, EmptySeq
      <4> QED
        BY <4>1
    <3>2. PICK f : /\ FlattenSeq(s) = f[n] /\ f[1] = s[1]
                   /\ \A i \in 1 .. n - 1 : f[i + 1] = f[i] \o s[i + 1]
      <4>1. \E f : /\ f \in [1 .. Len(s) -> Seq(A)] /\ FlattenSeq(s) = f[Len(s)]
                   /\ f[1] = s[1]
                   /\ \A i \in 1 .. Len(s) - 1 : f[i + 1] = f[i] \o s[i + 1]
        BY <2>4, FlattenByLength, Zenon
      <4> QED
        BY <4>1
    <3> DEFINE T == {k \in Nat : k + 1 <= n => g[k + 1] = f[k + 1]}
    <3>3. 0 \in T
      BY <2>1, <2>2, <3>1, <3>2
    <3>4. ASSUME NEW k \in Nat, k \in T PROVE k + 1 \in T
      <4> SUFFICES ASSUME k + 1 + 1 <= n PROVE g[k + 1 + 1] = f[k + 1 + 1]
        OBVIOUS
      <4>1. k + 1 \in 1 .. n /\ k + 1 \in 1 .. n - 1 /\ k + 1 + 1 \in 1 .. n /\ k + 1 <= n
        BY <3>1
      <4>2. /\ g[k + 1 + 1] = g[k + 1] \o t[k + 1 + 1]
            /\ f[k + 1 + 1] = f[k + 1] \o s[k + 1 + 1]
            /\ t[k + 1 + 1] = s[k + 1 + 1] /\ g[k + 1] = f[k + 1]
        BY <2>1, <2>2, <3>2, <3>4, <4>1
      <4> QED
        BY <4>2
    <3>5. \A k \in Nat : k \in T
      <4> HIDE DEF T
      <4> QED
        BY <3>3, <3>4, AllNumbers
    <3>6. g[n] = f[n]
      <4>1. n - 1 \in Nat /\ n - 1 + 1 = n /\ n <= n
        BY <3>1
      <4>2. n - 1 \in T
        BY <3>5, <4>1
      <4> QED
        BY <4>1, <4>2
    <3>7. g[n + 1] = g[n] \o t[n + 1]
      <4>1. n \in 1 .. n
        BY <3>1
      <4> QED
        BY <2>2, <4>1
    <3> QED
      BY <2>1, <2>2, <3>2, <3>6, <3>7 DEF t
  <2> QED
    BY <2>3, <2>4
<1> QED
  BY <1>1, <1>3, <1>4

-------------------------------------------------------------------------------
(* What a signal invokes *)

\* The vectors of listeners are sequences of signals.
Listening == [Signals -> [objects : Seq(Signals), monitor : BOOLEAN]]

\* For each signal, the signals that something invokes.
Sequences == [Signals -> Seq(Signals)]

Own(s) == IF s \in Silent THEN << >> ELSE <<s>>

\* D of the listeners of s, one after the other
Listened(L, s, D) ==
  FlattenSeq([i \in DOMAIN L[s].objects |-> D[L[s].objects[i]]])

\* A signal invokes a sequence of signals, if all that listen to it do.
LEMMA ListenedSeq ==
  ASSUME NEW L \in Listening, NEW D \in Sequences, NEW s \in Signals
  PROVE  /\ L[s].objects \in Seq(Signals)
         /\ DOMAIN L[s].objects = 1 .. Len(L[s].objects) /\ Len(L[s].objects) \in Nat
         /\ \A i \in DOMAIN L[s].objects : L[s].objects[i] \in Signals
         /\ [i \in DOMAIN L[s].objects |-> D[L[s].objects[i]]] \in Seq(Seq(Signals))
         /\ Own(s) \in Seq(Signals) /\ Listened(L, s, D) \in Seq(Signals)
         /\ Own(s) \o Listened(L, s, D) \in Seq(Signals)
<1> DEFINE o == L[s].objects
           items == [i \in DOMAIN o |-> D[o[i]]]
<1>1. o \in Seq(Signals)
  BY DEF Listening
<1> HIDE DEF o
<1>2. DOMAIN o = 1 .. Len(o) /\ Len(o) \in Nat /\ \A i \in DOMAIN o : o[i] \in Signals
  BY <1>1
<1>3. items \in [1 .. Len(o) -> Seq(Signals)]
  BY <1>2 DEF Sequences
<1>4. items \in Seq(Seq(Signals))
  BY <1>2, <1>3, SeqDef
<1>5. Own(s) \in Seq(Signals)
  BY DEF Own
<1>6. FlattenSeq(items) \in Seq(Signals)
  <2> HIDE DEF items
  <2> QED
    BY <1>4, Flattened
<1>7. Own(s) \o FlattenSeq(items) \in Seq(Signals)
  <2> HIDE DEF items
  <2> QED
    BY <1>5, <1>6, ConcatProperties
<1> QED
  BY <1>1, <1>2, <1>4, <1>5, <1>6, <1>7 DEF o, Listened

\* The recursion of DepthFirst.
LEMMA ByDepth ==
  ASSUME listeners \in Listening
  PROVE  /\ \A n \in Nat : DepthFirst[n] \in Sequences
         /\ \A s \in Signals : DepthFirst[0][s] = Own(s)
         /\ \A n \in Nat, s \in Signals :
              DepthFirst[n + 1][s] = Own(s) \o Listened(listeners, s, DepthFirst[n])
<1> DEFINE Is(f) ==
      f = [n \in Nat |->
             [s \in Signals |->
                (IF s \in Silent THEN <<>> ELSE <<s>>) \o
                IF n = 0 THEN <<>>
                ELSE FlattenSeq([i \in DOMAIN listeners[s].objects |->
                                   f[n - 1][listeners[s].objects[i]]])]]
           first == [s \in Signals |-> Own(s)]
           Step == [pair \in Nat \X Sequences |->
                      [s \in Signals |-> Own(s) \o Listened(listeners, s, pair[2])]]
<1>0. \A s \in Signals : Own(s) \in Seq(Signals) /\ Own(s) \o << >> = Own(s)
  <2> SUFFICES ASSUME NEW s \in Signals PROVE Own(s) \in Seq(Signals) /\ Own(s) \o << >> = Own(s)
    OBVIOUS
  <2>1. Own(s) \in Seq(Signals)
    BY DEF Own
  <2> QED
    BY <2>1, ConcatEmptySeq
<1>1. first \in Sequences
  BY <1>0 DEF Sequences
<1>2. Step \in Steps(Sequences)
  <2>1. \A D \in Sequences, s \in Signals : Own(s) \o Listened(listeners, s, D) \in Seq(Signals)
    BY ListenedSeq
  <2>2. \A D \in Sequences :
          [s \in Signals |-> Own(s) \o Listened(listeners, s, D)] \in Sequences
    BY <2>1 DEF Sequences
  <2> QED
    BY <2>2 DEF Steps
<1>3. PICK h : Iterates(h, Sequences, first, Step)
  <2> HIDE DEF first, Step
  <2> QED
    BY <1>1, <1>2, Iterated
<1>4. h \in [Nat -> Sequences] /\ h[0] = first /\ \A n \in Nat : h[n + 1] = Step[<<n, h[n]>>]
  BY <1>3 DEF Iterates
<1>5. Is(h)
  <2> DEFINE value(n) ==
               [s \in Signals |->
                  (IF s \in Silent THEN <<>> ELSE <<s>>) \o
                  IF n = 0 THEN <<>>
                  ELSE FlattenSeq([i \in DOMAIN listeners[s].objects |->
                                     h[n - 1][listeners[s].objects[i]]])]
  <2>1. ASSUME NEW n \in Nat PROVE h[n] = value(n)
    <3>1. CASE n = 0
      <4>1. value(0) = [s \in Signals |-> Own(s) \o << >>]
        BY DEF Own
      <4>2. value(0) = first
        BY <1>0, <4>1
      <4> QED
        BY <1>4, <3>1, <4>2
    <3>2. CASE n # 0
      <4>1. n - 1 \in Nat /\ n - 1 + 1 = n
        BY <3>2
      <4>2. h[n] = Step[<<n - 1, h[n - 1]>>] /\ h[n - 1] \in Sequences
        BY <1>4, <4>1
      <4>3. h[n] = [s \in Signals |-> Own(s) \o Listened(listeners, s, h[n - 1])]
        BY <4>1, <4>2
      <4>4. value(n) = [s \in Signals |-> Own(s) \o Listened(listeners, s, h[n - 1])]
        BY <3>2 DEF Own, Listened
      <4> QED
        BY <4>3, <4>4
    <3> QED
      BY <3>1, <3>2
  <2>2. h = [n \in Nat |-> h[n]]
    BY <1>4
  <2>3. h = [n \in Nat |-> value(n)]
    <3> HIDE DEF value
    <3> QED
      BY <2>1, <2>2
  <2> QED
    BY <2>3
<1>6. Is(DepthFirst)
  <2>1. \E f : Is(f)
    BY <1>5
  <2>2. Is(CHOOSE f : Is(f))
    <3> HIDE DEF Is
    <3> QED
      BY <2>1
  <2> QED
    BY <2>2 DEF DepthFirst
<1> DEFINE f == DepthFirst
<1> HIDE DEF f
<1>7. \A s \in Signals : f[0][s] = Own(s)
  <2>1. \A s \in Signals : f[0][s] = Own(s) \o << >>
    BY <1>6 DEF f, Own
  <2> QED
    BY <1>0, <2>1
<1>8. ASSUME NEW n \in Nat
      PROVE  f[n + 1] = [s \in Signals |-> Own(s) \o Listened(listeners, s, f[n])]
  <2>1. n + 1 \in Nat /\ n + 1 # 0 /\ n + 1 - 1 = n
    OBVIOUS
  <2> DEFINE m == n + 1
  <2> HIDE DEF m
  <2>2. m \in Nat /\ m # 0 /\ m - 1 = n
    BY <2>1 DEF m
  <2>3. f[m] = [s \in Signals |-> Own(s) \o Listened(listeners, s, f[m - 1])]
    BY <1>6, <2>2 DEF f, Own, Listened
  <2> QED
    BY <2>2, <2>3 DEF m
<1> DEFINE T == {n \in Nat : f[n] \in Sequences}
<1>9. \A n \in Nat : n \in T
  <2>1. 0 \in T
    <3>1. f[0] = first
      <4>1. f[0] = [s \in Signals |-> Own(s) \o << >>]
        BY <1>6 DEF f, Own
      <4> QED
        BY <1>0, <4>1
    <3> QED
      BY <1>1, <3>1
  <2>2. ASSUME NEW n \in Nat, n \in T PROVE n + 1 \in T
    <3>1. f[n] \in Sequences
      BY <2>2
    <3>2. \A s \in Signals : Own(s) \o Listened(listeners, s, f[n]) \in Seq(Signals)
      BY <3>1, ListenedSeq
    <3>3. f[n + 1] \in Sequences
      BY <1>8, <3>2 DEF Sequences
    <3> QED
      BY <3>3
  <2> HIDE DEF T
  <2> QED
    BY <2>1, <2>2, AllNumbers
<1> QED
  BY <1>7, <1>8, <1>9 DEF f

\* P has every signal all of whose listeners it has.
Closed(L, P) ==
  \A s \in Signals : (\A i \in DOMAIN L[s].objects : L[s].objects[i] \in P) => s \in P

\* The signals from which no path along the listeners goes on for ever
Grounded(L) == {s \in Signals : \A P \in SUBSET Signals : Closed(L, P) => s \in P}

\* Levels of them: one more listener deep with every number, and no level is
\* new once there are as many as signals.
LEMMA Levels ==
  ASSUME NEW L \in Listening
  PROVE  \E f : /\ f \in [Nat -> SUBSET Signals] /\ f[0] = {}
                /\ \A n \in Nat : f[n + 1] =
                     {s \in Signals : \A i \in DOMAIN L[s].objects : L[s].objects[i] \in f[n]}
                /\ f[Cardinality(Signals) + 1] = f[Cardinality(Signals)]
<1> DEFINE N == Cardinality(Signals)
           Above(P) == {s \in Signals : \A i \in DOMAIN L[s].objects : L[s].objects[i] \in P}
           Step == [pair \in Nat \X SUBSET Signals |-> Above(pair[2])]
<1>1. {} \in SUBSET Signals /\ Step \in Steps(SUBSET Signals)
  BY DEF Steps
<1>2. PICK f : Iterates(f, SUBSET Signals, {}, Step)
  <2> HIDE DEF Step
  <2> QED
    BY <1>1, Iterated
<1>3. f \in [Nat -> SUBSET Signals] /\ f[0] = {} /\ \A n \in Nat : f[n + 1] = Above(f[n])
  BY <1>2 DEF Iterates
<1>4. \A P, Q : P \subseteq Q => Above(P) \subseteq Above(Q)
  OBVIOUS
<1>5. \A P : Above(P) \subseteq Signals
  OBVIOUS
<1> HIDE DEF Above, Step
<1>6. IsFiniteSet(Signals) /\ N \in Nat
  BY ExecutiveAssumption, FS_CardinalityType
<1>7. \A P, Q : P \subseteq Q /\ Q \subseteq Signals =>
        /\ Cardinality(P) \in Nat /\ Cardinality(P) <= Cardinality(Q)
        /\ Cardinality(Q) \in Nat /\ (Cardinality(P) = Cardinality(Q) => P = Q)
  <2> SUFFICES ASSUME NEW Q \in SUBSET Signals, NEW P \in SUBSET Q
               PROVE  /\ Cardinality(P) \in Nat /\ Cardinality(P) <= Cardinality(Q)
                      /\ Cardinality(Q) \in Nat /\ (Cardinality(P) = Cardinality(Q) => P = Q)
    OBVIOUS
  <2>1. IsFiniteSet(Q)
    BY <1>6, FS_Subset
  <2>2. IsFiniteSet(P) /\ Cardinality(P) <= Cardinality(Q)
        /\ (Cardinality(Q) = Cardinality(P) => Q = P)
    BY <2>1, FS_Subset
  <2> QED
    BY <2>1, <2>2, FS_CardinalityType
<1> DEFINE T == {n \in Nat : f[n] \subseteq f[n + 1]
                            /\ (f[n + 1] = f[n] \/ Cardinality(f[n]) >= n)}
<1>8. \A n \in Nat : n \in T
  <2>1. 0 \in T
    BY <1>3, FS_EmptySet
  <2>2. ASSUME NEW n \in Nat, n \in T PROVE n + 1 \in T
    <3>1. /\ f[n + 1] = Above(f[n]) /\ f[n + 1 + 1] = Above(f[n + 1])
          /\ f[n] \subseteq Signals /\ f[n + 1] \subseteq Signals /\ n + 1 \in Nat
          /\ f[n] \subseteq f[n + 1]
      BY <1>3, <1>5, <2>2
    <3>2. f[n + 1] \subseteq f[n + 1 + 1]
      BY <1>4, <3>1
    <3>3. CASE f[n + 1] = f[n]
      BY <3>1, <3>2, <3>3
    <3>4. CASE f[n + 1] # f[n]
      <4> DEFINE c == Cardinality(f[n])
                 d == Cardinality(f[n + 1])
      <4>1. c >= n
        BY <2>2, <3>4
      <4>2. c \in Nat /\ d \in Nat /\ c <= d /\ c # d
        BY <1>7, <3>1, <3>4
      <4> HIDE DEF c, d
      <4>3. d >= n + 1
        BY <4>1, <4>2
      <4> QED
        BY <3>1, <3>2, <4>3 DEF d
    <3> QED
      BY <3>3, <3>4
  <2> HIDE DEF T
  <2> QED
    BY <2>1, <2>2, AllNumbers
<1>9. f[N + 1] = f[N]
  <2> SUFFICES ASSUME f[N + 1] # f[N] PROVE FALSE
    OBVIOUS
  <2>1. f[N] \subseteq f[N + 1] /\ Cardinality(f[N]) >= N
    BY <1>6, <1>8
  <2>2. f[N] \subseteq Signals /\ f[N + 1] \subseteq Signals
    BY <1>3, <1>6
  <2>3. Cardinality(f[N]) = N
    BY <1>6, <1>7, <2>1, <2>2
  <2>4. f[N] = Signals
    BY <1>7, <2>2, <2>3
  <2> QED
    BY <2>1, <2>2, <2>4
<1> QED
  BY <1>3, <1>9 DEF Above

\* What DepthFirst says, with a depth that is enough for all signals that are
\* grounded: a signal whose listeners are grounded is grounded, and invokes
\* itself and then what they invoke.
Complete(L, D) ==
  \A s \in Signals :
    (\A i \in DOMAIN L[s].objects : L[s].objects[i] \in Grounded(L)) =>
      s \in Grounded(L) /\ D[s] = Own(s) \o Listened(L, s, D)

LEMMA DeepEnough ==
  ASSUME listeners \in Listening
  PROVE  LET D == DepthFirst[Cardinality(Signals)] IN
         D \in Sequences /\ Complete(listeners, D)
<1> DEFINE N == Cardinality(Signals)
           L == listeners
           F == DepthFirst
           D == F[N]
<1>0. N \in Nat /\ IsFiniteSet(Signals)
  BY ExecutiveAssumption, FS_CardinalityType
<1>1. /\ \A n \in Nat : F[n] \in Sequences
      /\ \A s \in Signals : F[0][s] = Own(s)
      /\ \A n \in Nat, s \in Signals : F[n + 1][s] = Own(s) \o Listened(L, s, F[n])
  BY ByDepth
<1> HIDE DEF F
<1>2. PICK f : /\ f \in [Nat -> SUBSET Signals] /\ f[0] = {}
               /\ \A n \in Nat : f[n + 1] =
                    {s \in Signals : \A i \in DOMAIN L[s].objects : L[s].objects[i] \in f[n]}
               /\ f[N + 1] = f[N]
  BY Levels
<1>3. Grounded(L) \subseteq f[N]
  <2>1. Closed(L, f[N]) /\ f[N] \in SUBSET Signals
    BY <1>0, <1>2 DEF Closed
  <2> QED
    BY <2>1 DEF Grounded
<1>4. \A s \in Signals : \A P, Q :
        (\A i \in DOMAIN L[s].objects : P[L[s].objects[i]] = Q[L[s].objects[i]]) =>
          Listened(L, s, P) = Listened(L, s, Q)
  <2> SUFFICES ASSUME NEW s \in Signals, NEW P, NEW Q,
                      \A i \in DOMAIN L[s].objects : P[L[s].objects[i]] = Q[L[s].objects[i]]
               PROVE  Listened(L, s, P) = Listened(L, s, Q)
    OBVIOUS
  <2>1. [i \in DOMAIN L[s].objects |-> P[L[s].objects[i]]]
          = [i \in DOMAIN L[s].objects |-> Q[L[s].objects[i]]]
    OBVIOUS
  <2> QED
    BY <2>1 DEF Listened
<1> DEFINE T == {n \in Nat : \A t \in f[n + 1] : F[n + 1][t] = F[n][t]}
<1>5. \A n \in Nat : n \in T
  <2>1. 0 \in T
    <3> SUFFICES ASSUME NEW t \in f[0 + 1] PROVE F[0 + 1][t] = F[0][t]
      OBVIOUS
    <3>1. t \in Signals /\ \A i \in DOMAIN L[t].objects : L[t].objects[i] \in f[0]
      BY <1>2
    <3>2. L[t].objects \in Seq(Signals) /\ DOMAIN L[t].objects = {}
      BY <1>1, <1>2, <3>1, ListenedSeq
    <3>3. Listened(L, t, F[0]) = << >>
      <4>1. [i \in DOMAIN L[t].objects |-> F[0][L[t].objects[i]]] = << >>
        BY <3>2
      <4> QED
        BY <4>1 DEF Listened, FlattenSeq
    <3>4. F[0 + 1][t] = Own(t) \o << >> /\ F[0][t] = Own(t)
      BY <1>1, <3>1, <3>3
    <3>5. Own(t) \in Seq(Signals)
      BY <3>1 DEF Own
    <3> QED
      BY <3>4, <3>5, ConcatEmptySeq
  <2>2. ASSUME NEW n \in Nat, n \in T PROVE n + 1 \in T
    <3> SUFFICES ASSUME NEW t \in f[n + 1 + 1] PROVE F[n + 1 + 1][t] = F[n + 1][t]
      OBVIOUS
    <3>0. n + 1 \in Nat
      OBVIOUS
    <3>1. t \in Signals /\ \A i \in DOMAIN L[t].objects : L[t].objects[i] \in f[n + 1]
      BY <1>2, <3>0
    <3>2. \A i \in DOMAIN L[t].objects : F[n + 1][L[t].objects[i]] = F[n][L[t].objects[i]]
      BY <2>2, <3>1
    <3>3. Listened(L, t, F[n + 1]) = Listened(L, t, F[n])
      BY <1>4, <3>1, <3>2
    <3>4. /\ F[n + 1 + 1][t] = Own(t) \o Listened(L, t, F[n + 1])
          /\ F[n + 1][t] = Own(t) \o Listened(L, t, F[n])
      BY <1>1, <3>0, <3>1
    <3> QED
      BY <3>3, <3>4
  <2> HIDE DEF T
  <2> QED
    BY <2>1, <2>2, AllNumbers
<1>6. ASSUME NEW s \in Signals,
             \A i \in DOMAIN L[s].objects : L[s].objects[i] \in Grounded(L)
      PROVE  s \in Grounded(L) /\ D[s] = Own(s) \o Listened(L, s, D)
  <2>1. s \in Grounded(L)
    BY <1>6 DEF Grounded, Closed
  <2> DEFINE m == N - 1
  <2>2. m \in Nat /\ m + 1 = N
    <3>1. N # 0
      BY <1>0, FS_EmptySet
    <3> QED
      BY <1>0, <3>1
  <2> HIDE DEF m
  <2>3. \A i \in DOMAIN L[s].objects : F[N][L[s].objects[i]] = F[m][L[s].objects[i]]
    <3>1. \A t \in f[N] : F[N][t] = F[m][t]
      <4>1. m \in T
        BY <1>5, <2>2
      <4> QED
        BY <2>2, <4>1
    <3> QED
      BY <1>3, <1>6, <3>1
  <2>4. Listened(L, s, F[N]) = Listened(L, s, F[m])
    BY <1>4, <2>3
  <2>5. F[N][s] = Own(s) \o Listened(L, s, F[m])
    <3>1. F[m + 1][s] = Own(s) \o Listened(L, s, F[m])
      BY <1>1, <2>2
    <3> QED
      BY <2>2, <3>1
  <2> QED
    BY <2>1, <2>4, <2>5
<1> QED
  BY <1>0, <1>1, <1>6 DEF Complete, F

-------------------------------------------------------------------------------
(* The calls of KiSignalInvoke in progress *)

Frames ==
  [signal : Signals, i : Nat, interrupt : BOOLEAN, settled : BOOLEAN,
   invoked : Seq(Signals)]

\* The call has invoked the function of its signal and what its first n
\* listeners invoke, which are grounded.
Invoked(L, D, frame, n) ==
  /\ n \in 0 .. Len(L[frame.signal].objects)
  /\ \A j \in 1 .. n : L[frame.signal].objects[j] \in Grounded(L)
  /\ frame.invoked =
       Own(frame.signal) \o FlattenSeq([j \in 1 .. n |-> D[L[frame.signal].objects[j]]])

\* The call waits for that of its listener, and not for an interrupt.
Waits(st, k) == k < Len(st) /\ ~st[k + 1].interrupt

FrameRight(L, D, st, k) ==
  st[k].settled =>
    IF Waits(st, k)
      THEN /\ st[k].i \in 1 .. Len(L[st[k].signal].objects)
           /\ L[st[k].signal].objects[st[k].i] = st[k + 1].signal
           /\ Invoked(L, D, st[k], st[k].i - 1)
      ELSE Invoked(L, D, st[k], st[k].i)

StackRight(L, D, st) == \A k \in 1 .. Len(st) : FrameRight(L, D, st, k)

\* A frame is as right as in another stack that has it and the one above it.
LEMMA SameFrame ==
  ASSUME NEW L, NEW D, NEW st, NEW t, NEW k, FrameRight(L, D, st, k), t[k] = st[k],
         Waits(t, k) <=> Waits(st, k),
         Waits(t, k) => t[k + 1].signal = st[k + 1].signal
  PROVE  FrameRight(L, D, t, k)
BY DEF FrameRight

\* A call that begins has invoked the function of its signal.
LEMMA FrameBegins ==
  ASSUME NEW L \in Listening, NEW D, NEW s \in Signals, NEW interrupt \in BOOLEAN
  PROVE  /\ Frame(s, interrupt) \in Frames
         /\ Frame(s, interrupt).interrupt = interrupt /\ Frame(s, interrupt).signal = s
         /\ Frame(s, interrupt).i = 0
         /\ Invoked(L, D, Frame(s, interrupt), 0)
<1>1. Own(s) \in Seq(Signals)
  BY DEF Own
<1>2. Frame(s, interrupt) = [signal |-> s, i |-> 0, interrupt |-> interrupt,
                             settled |-> TRUE, invoked |-> Own(s)]
  BY DEF Frame, Own
<1>3. [j \in 1 .. 0 |-> D[L[s].objects[j]]] = << >>
  OBVIOUS
<1>4. FlattenSeq(<< >>) = << >>
  BY DEF FlattenSeq
<1>5. Own(s) \o << >> = Own(s)
  BY <1>1, ConcatEmptySeq
<1>6. L[s].objects \in Seq(Signals)
  BY DEF Listening
<1>7. 0 \in 0 .. Len(L[s].objects)
  BY <1>6
<1> DEFINE fr == Frame(s, interrupt)
<1>8. fr \in Frames /\ fr.interrupt = interrupt /\ fr.signal = s /\ fr.i = 0
      /\ fr.invoked = Own(s)
  <2> DEFINE q == Own(s)
  <2> HIDE DEF q
  <2>1. q \in Seq(Signals)
    BY <1>1 DEF q
  <2>2. fr = [signal |-> s, i |-> 0, interrupt |-> interrupt, settled |-> TRUE, invoked |-> q]
    BY <1>2 DEF q
  <2>3. fr \in Frames /\ fr.interrupt = interrupt /\ fr.signal = s /\ fr.i = 0 /\ fr.invoked = q
    BY <2>1, <2>2 DEF Frames
  <2> QED
    BY <2>3 DEF q
<1> HIDE DEF fr
<1>9. Invoked(L, D, fr, 0)
  <2>1. [j \in 1 .. 0 |-> D[L[fr.signal].objects[j]]] = << >>
    BY <1>3, <1>8
  <2>2. fr.invoked = Own(fr.signal)
               \o FlattenSeq([j \in 1 .. 0 |-> D[L[fr.signal].objects[j]]])
    BY <1>4, <1>5, <1>8, <2>1
  <2>3. 1 .. 0 = {} /\ 0 \in 0 .. Len(L[fr.signal].objects)
    BY <1>7, <1>8
  <2> QED
    BY <2>2, <2>3 DEF Invoked
<1> QED
  BY <1>8, <1>9 DEF fr

\* The call of a driver on an empty stack, and that of an interrupt on any.
LEMMA CallBegins ==
  ASSUME NEW L \in Listening, NEW D, NEW st \in Seq(Frames), StackRight(L, D, st),
         NEW s \in Signals, NEW interrupt \in BOOLEAN, st = << >> \/ interrupt
  PROVE  LET t == Append(st, Frame(s, interrupt))
         IN  t \in Seq(Frames) /\ StackRight(L, D, t)
<1> DEFINE fr == Frame(s, interrupt)
           t == Append(st, fr)
           n == Len(st)
<1>1. fr \in Frames /\ fr.interrupt = interrupt /\ fr.i = 0 /\ Invoked(L, D, fr, 0)
  BY FrameBegins
<1> HIDE DEF fr
<1>2. /\ t \in Seq(Frames) /\ Len(t) = n + 1 /\ n \in Nat /\ t[n + 1] = fr
      /\ \A k \in 1 .. n : t[k] = st[k]
  BY <1>1, AppendProperties
<1> HIDE DEF t
<1>3. ASSUME NEW k \in 1 .. n PROVE FrameRight(L, D, t, k)
  <2>1. interrupt
    BY <1>3, EmptySeq
  <2>2. CASE k = n
    <3>1. t[k + 1].interrupt /\ ~(k < n)
      <4>1. k + 1 = n + 1 /\ ~(k < n)
        BY <1>2, <2>2
      <4>2. t[k + 1] = fr
        BY <1>2, <4>1
      <4> QED
        BY <1>1, <2>1, <4>1, <4>2
    <3>2. ~Waits(t, k) /\ ~Waits(st, k)
      BY <3>1 DEF Waits
    <3> QED
      BY <1>2, <3>2, SameFrame DEF StackRight
  <2>3. CASE k # n
    <3>1. k + 1 \in 1 .. n /\ k < n /\ k < n + 1
      BY <1>2, <2>3
    <3>2. t[k + 1] = st[k + 1] /\ (Waits(t, k) <=> Waits(st, k))
      BY <1>2, <3>1 DEF Waits
    <3> QED
      BY <1>2, <3>2, SameFrame DEF StackRight
  <2> QED
    BY <2>2, <2>3
<1>4. FrameRight(L, D, t, n + 1)
  <2>1. ~Waits(t, n + 1)
    BY <1>2 DEF Waits
  <2> QED
    BY <1>1, <1>2, <2>1 DEF FrameRight
<1>5. StackRight(L, D, t)
  <2>1. \A k \in 1 .. Len(t) : k \in 1 .. n \/ k = n + 1
    BY <1>2
  <2> QED
    BY <1>3, <1>4, <2>1 DEF StackRight
<1> QED
  BY <1>2, <1>5 DEF t, fr

\* The call of the next listener.
LEMMA ListenerBegins ==
  ASSUME NEW L \in Listening, NEW D, NEW st \in Seq(Frames), StackRight(L, D, st),
         st # << >>, st[Len(st)].i < Len(L[st[Len(st)].signal].objects)
  PROVE  LET top == st[Len(st)]
             s == L[top.signal].objects[top.i + 1]
             t == Append([st EXCEPT ![Len(st)].i = @ + 1], Frame(s, FALSE))
         IN  t \in Seq(Frames) /\ StackRight(L, D, t)
<1> DEFINE n == Len(st)
           top == st[n]
           s == L[top.signal].objects[top.i + 1]
           next == [top EXCEPT !.i = @ + 1]
           below == [st EXCEPT ![n].i = @ + 1]
           fr == Frame(s, FALSE)
           t == Append(below, fr)
<1>1. n \in Nat /\ n >= 1 /\ n \in 1 .. n /\ top \in Frames
  <2>1. n \in Nat \ {0}
    BY EmptySeq
  <2>2. n \in 1 .. n
    BY <2>1
  <2> QED
    BY <2>1, <2>2, ElementOfSeq
<1>2. /\ top.signal \in Signals /\ top.i \in Nat
      /\ next \in Frames /\ next.signal = top.signal /\ next.i = top.i + 1
      /\ next.settled = top.settled /\ next.invoked = top.invoked
  BY <1>1 DEF Frames
<1>3. /\ L[top.signal].objects \in Seq(Signals) /\ Len(L[top.signal].objects) \in Nat
      /\ top.i + 1 \in 1 .. Len(L[top.signal].objects) /\ s \in Signals
  <2>1. L[top.signal].objects \in Seq(Signals)
    BY <1>2 DEF Listening
  <2>2. Len(L[top.signal].objects) \in Nat
    BY <2>1
  <2>3. top.i + 1 \in 1 .. Len(L[top.signal].objects)
    BY <1>2, <2>2
  <2> QED
    BY <2>1, <2>2, <2>3, ElementOfSeq
<1>4. below = [st EXCEPT ![n] = next]
  OBVIOUS
<1>5. below \in Seq(Frames) /\ Len(below) = n /\ below[n] = next
      /\ \A k \in 1 .. n : k # n => below[k] = st[k]
  BY <1>1, <1>2, <1>4, ExceptSeq
<1>6. fr \in Frames /\ fr.signal = s /\ fr.interrupt = FALSE /\ fr.i = 0 /\ Invoked(L, D, fr, 0)
  BY <1>3, FrameBegins
<1> HIDE DEF fr, below
<1>7. /\ t \in Seq(Frames) /\ Len(t) = n + 1 /\ t[n + 1] = fr /\ t[n] = next
      /\ \A k \in 1 .. n : k # n => t[k] = st[k]
  <2>1. /\ t \in Seq(Frames) /\ Len(t) = n + 1 /\ t[n + 1] = fr
        /\ \A k \in 1 .. n : t[k] = below[k]
    BY <1>5, <1>6, AppendProperties
  <2> QED
    BY <1>1, <1>5, <2>1
<1> HIDE DEF t, next
<1>8. ASSUME NEW k \in 1 .. n, k # n PROVE FrameRight(L, D, t, k)
  <2>1. /\ k < n /\ k < n + 1 /\ k + 1 \in 1 .. n
        /\ k + 1 # n => t[k + 1] = st[k + 1]
    BY <1>1, <1>7, <1>8
  <2>2. t[k + 1].interrupt = st[k + 1].interrupt /\ t[k + 1].signal = st[k + 1].signal
    <3>1. next.interrupt = top.interrupt
      BY <1>1 DEF Frames, next
    <3> QED
      BY <1>2, <1>7, <2>1, <3>1
  <2>3. Waits(t, k) <=> Waits(st, k)
    BY <1>7, <2>1, <2>2 DEF Waits
  <2> QED
    BY <1>7, <1>8, <2>2, <2>3, SameFrame DEF StackRight
<1>9. FrameRight(L, D, t, n)
  <2> SUFFICES ASSUME top.settled
               PROVE  /\ next.i \in 1 .. Len(L[next.signal].objects)
                      /\ L[next.signal].objects[next.i] = t[n + 1].signal
                      /\ Invoked(L, D, next, next.i - 1)
    BY <1>2, <1>6, <1>7, <1>1 DEF FrameRight, Waits
  <2>1. ~Waits(st, n) /\ FrameRight(L, D, st, n)
    BY <1>1 DEF Waits, StackRight
  <2>2. Invoked(L, D, top, top.i)
    BY <2>1 DEF FrameRight
  <2>3. next.i - 1 = top.i
    BY <1>2
  <2>4. Invoked(L, D, next, next.i - 1)
    BY <1>2, <2>2, <2>3 DEF Invoked
  <2> QED
    BY <1>2, <1>3, <1>6, <1>7, <2>4
<1>10. FrameRight(L, D, t, n + 1)
  <2>1. ~Waits(t, n + 1)
    BY <1>1, <1>7 DEF Waits
  <2> QED
    BY <1>6, <1>7, <2>1 DEF FrameRight
<1>11. StackRight(L, D, t)
  <2>1. \A k \in 1 .. Len(t) : k \in 1 .. n \/ k = n + 1
    BY <1>1, <1>7
  <2> QED
    BY <1>8, <1>9, <1>10, <2>1 DEF StackRight
<1> QED
  BY <1>7, <1>11 DEF t, below, fr

\* What a call has invoked once it went through all listeners.
LEMMA AtItsEnd ==
  ASSUME NEW L \in Listening, NEW D \in Sequences, Complete(L, D), NEW frame \in Frames,
         Invoked(L, D, frame, frame.i), frame.i = Len(L[frame.signal].objects)
  PROVE  frame.signal \in Grounded(L) /\ frame.invoked = D[frame.signal]
<1> DEFINE s == frame.signal
           o == L[s].objects
<1>1. s \in Signals /\ DOMAIN o = 1 .. Len(o)
  <2>1. s \in Signals
    BY DEF Frames
  <2> QED
    BY <2>1, ListenedSeq
<1>2. \A i \in DOMAIN o : o[i] \in Grounded(L)
  BY <1>1 DEF Invoked
<1>3. s \in Grounded(L) /\ D[s] = Own(s) \o Listened(L, s, D)
  BY <1>1, <1>2 DEF Complete
<1>4. frame.invoked = Own(s) \o FlattenSeq([j \in 1 .. Len(o) |-> D[o[j]]])
  BY DEF Invoked
<1>5. frame.invoked = Own(s) \o Listened(L, s, D)
  BY <1>1, <1>4 DEF Listened
<1> QED
  BY <1>3, <1>5

\* The call of a listener that went through its own hands over what it invoked.
LEMMA HandsOver ==
  ASSUME NEW L \in Listening, NEW D \in Sequences, NEW frame \in Frames,
         NEW m \in Nat, Invoked(L, D, frame, m), m < Len(L[frame.signal].objects),
         L[frame.signal].objects[m + 1] \in Grounded(L),
         NEW other \in Frames, other.signal = frame.signal,
         other.invoked = frame.invoked \o D[L[frame.signal].objects[m + 1]]
  PROVE  Invoked(L, D, other, m + 1)
<1> DEFINE s == frame.signal
           o == L[s].objects
           some == [j \in 1 .. m |-> D[o[j]]]
           more == [j \in 1 .. m + 1 |-> D[o[j]]]
           x == D[o[m + 1]]
<1>1. s \in Signals /\ o \in Seq(Signals) /\ Len(o) \in Nat /\ \A j \in 1 .. Len(o) : o[j] \in Signals
  <2>1. s \in Signals
    BY DEF Frames
  <2> QED
    BY <2>1, ListenedSeq
<1>2. \A j \in 1 .. m + 1 : j \in 1 .. Len(o) /\ D[o[j]] \in Seq(Signals)
  BY <1>1 DEF Sequences
<1>3. some \in Seq(Seq(Signals)) /\ Len(some) = m
  <2>1. some \in [1 .. m -> Seq(Signals)]
    BY <1>2
  <2> QED
    BY <2>1, SeqDef
<1>4. more \in Seq(Seq(Signals)) /\ Len(more) = m + 1
  <2> DEFINE p == m + 1
  <2>1. more \in [1 .. p -> Seq(Signals)] /\ p \in Nat
    BY <1>2
  <2> HIDE DEF p, more
  <2>2. more \in Seq(Seq(Signals)) /\ DOMAIN more = 1 .. p
    BY <2>1, SeqDef
  <2>3. Len(more) = p
    BY <2>1, <2>2, LenProperties
  <2> QED
    BY <2>2, <2>3 DEF p
<1>5. x \in Seq(Signals)
  BY <1>2
<1>6. more = Append(some, x)
  <2>1. /\ Append(some, x) \in Seq(Seq(Signals)) /\ Len(Append(some, x)) = m + 1
        /\ \A j \in 1 .. m : Append(some, x)[j] = some[j]
        /\ Append(some, x)[m + 1] = x
    <3> HIDE DEF some, x
    <3> QED
      BY <1>3, <1>5, AppendProperties
  <2>2. \A j \in 1 .. m + 1 : more[j] = Append(some, x)[j]
    <3> SUFFICES ASSUME NEW j \in 1 .. m + 1 PROVE more[j] = Append(some, x)[j]
      OBVIOUS
    <3>1. CASE j = m + 1
      BY <2>1, <3>1
    <3>2. CASE j \in 1 .. m
      BY <2>1, <3>2
    <3> QED
      BY <3>1, <3>2
  <2> HIDE DEF some, more, x
  <2> QED
    BY <1>4, <2>1, <2>2, SeqEqual
<1>7. Own(s) \in Seq(Signals) /\ FlattenSeq(some) \in Seq(Signals)
  <2>1. Own(s) \in Seq(Signals)
    BY <1>1 DEF Own
  <2> HIDE DEF some
  <2> QED
    BY <1>3, <2>1, Flattened
<1>8. frame.invoked = Own(s) \o FlattenSeq(some)
  BY DEF Invoked
<1>9. other.invoked = Own(s) \o FlattenSeq(more)
  <2> HIDE DEF some, more, x
  <2>1. FlattenSeq(more) = FlattenSeq(some) \o x
    BY <1>3, <1>5, <1>6, Flattened
  <2>2. other.invoked = (Own(s) \o FlattenSeq(some)) \o x
    BY <1>8 DEF x
  <2> DEFINE a == Own(s)
             b == FlattenSeq(some)
  <2> HIDE DEF a, b
  <2>3. a \in Seq(Signals) /\ b \in Seq(Signals)
    BY <1>7 DEF a, b
  <2>4. (a \o b) \o x = a \o (b \o x)
    BY <1>5, <2>3, ConcatAssociative, SMTT(30)
  <2>5. other.invoked = (a \o b) \o x
    BY <2>2 DEF a, b
  <2>6. FlattenSeq(more) = b \o x
    BY <2>1 DEF b
  <2>7. other.invoked = a \o FlattenSeq(more)
    BY <2>4, <2>5, <2>6
  <2> QED
    BY <2>7 DEF a
<1>10. \A j \in 1 .. m + 1 : o[j] \in Grounded(L)
  <2> SUFFICES ASSUME NEW j \in 1 .. m + 1 PROVE o[j] \in Grounded(L)
    OBVIOUS
  <2>1. j \in 1 .. m \/ j = m + 1
    OBVIOUS
  <2> QED
    BY <2>1 DEF Invoked
<1>11. m + 1 \in 0 .. Len(o)
  BY <1>1
<1> QED
  BY <1>9, <1>10, <1>11 DEF Invoked

\* A call returns: to the one that waits for it, or to what an interrupt found.
Returned(st) ==
  LET top == st[Len(st)]
      below == Front(st)
  IN  IF top.interrupt \/ below = << >> THEN below
      ELSE [below EXCEPT ![Len(below)].invoked = @ \o top.invoked,
                         ![Len(below)].settled = @ /\ top.settled]

LEMMA CallEnds ==
  ASSUME NEW L \in Listening, NEW D \in Sequences, Complete(L, D),
         NEW st \in Seq(Frames), StackRight(L, D, st),
         st # << >>, st[Len(st)].i = Len(L[st[Len(st)].signal].objects)
  PROVE  Returned(st) \in Seq(Frames) /\ StackRight(L, D, Returned(st))
<1> DEFINE n == Len(st)
           top == st[n]
           below == Front(st)
           m == n - 1
<1>1. n \in Nat /\ n >= 1 /\ n \in 1 .. n /\ top \in Frames /\ m \in Nat /\ m + 1 = n
  <2>1. n \in Nat \ {0}
    BY EmptySeq
  <2>2. n \in 1 .. n
    BY <2>1
  <2> QED
    BY <2>1, <2>2, ElementOfSeq
<1>2. /\ below \in Seq(Frames) /\ Len(below) = m
      /\ \A k \in 1 .. m : below[k] = st[k]
  <2>1. \A k \in 1 .. m : st[k] \in Frames
    BY <1>1, ElementOfSeq
  <2>2. /\ SubSeq(st, 1, m) \in Seq(Frames)
        /\ Len(SubSeq(st, 1, m)) = IF 1 <= m THEN m - 1 + 1 ELSE 0
        /\ \A k \in 1 .. m - 1 + 1 : SubSeq(st, 1, m)[k] = st[1 + k - 1]
    BY <1>1, <2>1, SubSeqProperties
  <2>3. below = SubSeq(st, 1, m)
    BY DEF Front
  <2>4. m - 1 + 1 = m /\ \A k \in 1 .. m : 1 + k - 1 = k
    BY <1>1
  <2> HIDE DEF below, m
  <2> QED
    BY <1>1, <2>2, <2>3, <2>4
<1> HIDE DEF below, m
<1>3. ASSUME NEW t, Len(t) = m, NEW k \in 1 .. m, k # m, t[k] = st[k],
             t[k + 1].interrupt = st[k + 1].interrupt, t[k + 1].signal = st[k + 1].signal
      PROVE  FrameRight(L, D, t, k)
  <2>1. k < m /\ k < n /\ k \in 1 .. n
    BY <1>1, <1>3
  <2>2. Waits(t, k) <=> Waits(st, k)
    BY <1>3, <2>1 DEF Waits
  <2> QED
    BY <1>3, <2>1, <2>2, SameFrame DEF StackRight
<1>4. CASE top.interrupt \/ below = << >>
  <2>1. Returned(st) = below
    BY <1>4 DEF Returned, below
  <2>2. ASSUME NEW k \in 1 .. m PROVE FrameRight(L, D, below, k)
    <3>1. CASE k # m
      <4>1. k + 1 \in 1 .. m
        BY <1>1, <3>1
      <4> QED
        BY <1>2, <1>3, <3>1, <4>1
    <3>2. CASE k = m
      <4>1. below # << >>
        BY <1>2, EmptySeq
      <4>2. st[m + 1].interrupt
        BY <1>1, <1>4, <4>1
      <4>3. ~Waits(st, m) /\ ~Waits(below, m)
        BY <1>1, <1>2, <4>2 DEF Waits
      <4>4. m \in 1 .. n /\ below[m] = st[m]
        BY <1>1, <1>2, <3>2
      <4> QED
        BY <3>2, <4>3, <4>4, SameFrame DEF StackRight
    <3> QED
      BY <3>1, <3>2
  <2> QED
    BY <1>2, <2>1, <2>2 DEF StackRight
<1>5. CASE ~top.interrupt /\ below # << >>
  <2> DEFINE frame == st[m]
             other == [frame EXCEPT !.invoked = @ \o top.invoked,
                                    !.settled = @ /\ top.settled]
             t == [below EXCEPT ![m] = other]
  <2>1. m \in 1 .. m /\ m \in 1 .. n /\ below[m] = frame /\ frame \in Frames
    <3>1. m \in Nat \ {0}
      BY <1>2, <1>5, EmptySeq
    <3>2. m \in 1 .. m /\ m \in 1 .. n
      BY <1>1, <3>1
    <3> QED
      BY <1>2, <3>2, ElementOfSeq
  <2>2. /\ top.invoked \in Seq(Signals) /\ top.settled \in BOOLEAN
        /\ frame.invoked \in Seq(Signals) /\ frame.settled \in BOOLEAN
        /\ top.signal \in Signals /\ frame.signal \in Signals /\ top.i \in Nat /\ frame.i \in Nat
    BY <1>1, <2>1 DEF Frames
  <2>3. frame.invoked \o top.invoked \in Seq(Signals)
    BY <2>2, ConcatProperties
  <2>4. /\ other \in Frames /\ other.signal = frame.signal /\ other.i = frame.i
        /\ other.interrupt = frame.interrupt
        /\ other.invoked = frame.invoked \o top.invoked
        /\ other.settled => frame.settled /\ top.settled
    <3> DEFINE q == frame.invoked \o top.invoked
               b == frame.settled /\ top.settled
    <3>1. q \in Seq(Signals) /\ b \in BOOLEAN
      BY <2>3
    <3>2. other = [frame EXCEPT !.invoked = q, !.settled = b]
      OBVIOUS
    <3> HIDE DEF q, b, other, frame
    <3>3. /\ other \in Frames /\ other.signal = frame.signal /\ other.i = frame.i
          /\ other.interrupt = frame.interrupt /\ other.invoked = q /\ other.settled = b
      BY <2>1, <3>1, <3>2 DEF Frames
    <3> QED
      BY <3>3 DEF q, b
  <2>5. Returned(st) = t
    <3>1. Returned(st) = [below EXCEPT ![m].invoked = @ \o top.invoked,
                                       ![m].settled = @ /\ top.settled]
      BY <1>2, <1>5 DEF Returned, below
    <3>2. t = [below EXCEPT ![m].invoked = @ \o top.invoked,
                            ![m].settled = @ /\ top.settled]
      BY <1>2, <2>1
    <3> QED
      BY <3>1, <3>2
  <2> HIDE DEF other
  <2>6. t \in Seq(Frames) /\ Len(t) = m /\ t[m] = other
        /\ \A k \in 1 .. m : k # m => t[k] = st[k]
    BY <1>2, <2>1, <2>4, ExceptSeq
  <2> HIDE DEF t
  <2>7. ASSUME NEW k \in 1 .. m, k # m PROVE FrameRight(L, D, t, k)
    <3>1. k + 1 \in 1 .. m
      BY <1>1, <2>7
    <3>2. t[k + 1].interrupt = st[k + 1].interrupt /\ t[k + 1].signal = st[k + 1].signal
      BY <2>4, <2>6, <3>1
    <3> QED
      BY <1>3, <2>6, <2>7, <3>2
  <2>8. FrameRight(L, D, t, m)
    <3>1. ~Waits(t, m)
      BY <1>1, <2>6 DEF Waits
    <3> SUFFICES ASSUME other.settled PROVE Invoked(L, D, other, other.i)
      BY <2>6, <3>1 DEF FrameRight
    <3>2. frame.settled /\ top.settled
      BY <2>4
    <3>3. Waits(st, m)
      BY <1>1, <1>5 DEF Waits
    <3>4. /\ frame.i \in 1 .. Len(L[frame.signal].objects)
          /\ L[frame.signal].objects[frame.i] = top.signal
          /\ Invoked(L, D, frame, frame.i - 1)
      BY <1>1, <2>1, <3>2, <3>3 DEF StackRight, FrameRight
    <3>5. ~Waits(st, n) /\ Invoked(L, D, top, top.i)
      BY <1>1, <3>2 DEF Waits, StackRight, FrameRight
    <3>6. top.signal \in Grounded(L) /\ top.invoked = D[top.signal]
      BY <1>1, <3>5, AtItsEnd
    <3> DEFINE p == frame.i - 1
    <3>7. p \in Nat /\ p + 1 = frame.i /\ p < Len(L[frame.signal].objects)
      <4>1. L[frame.signal].objects \in Seq(Signals)
        BY <2>2 DEF Listening
      <4>2. Len(L[frame.signal].objects) \in Nat
        BY <4>1
      <4> QED
        BY <2>2, <3>4, <4>2
    <3> HIDE DEF p, frame, top
    <3>8. Invoked(L, D, other, p + 1)
      <4>1. Invoked(L, D, frame, p)
        BY <3>4 DEF p
      <4>2. /\ L[frame.signal].objects[p + 1] \in Grounded(L)
            /\ other.invoked = frame.invoked \o D[L[frame.signal].objects[p + 1]]
        BY <2>4, <3>4, <3>6, <3>7
      <4> QED
        BY <2>1, <2>4, <3>7, <4>1, <4>2, HandsOver
    <3> QED
      BY <2>4, <3>7, <3>8
  <2>9. StackRight(L, D, t)
    BY <2>6, <2>7, <2>8 DEF StackRight
  <2> QED
    BY <2>5, <2>6, <2>9
<1> QED
  BY <1>4, <1>5

\* What DepthFirst says, as deep as there are signals
Expected == DepthFirst[Cardinality(Signals)]

\* Every settled call in progress has invoked what those of its listeners
\* invoke that it is through with, and waits, if it does, for the next one.
SInv ==
  /\ listeners \in Listening
  /\ stack \in Seq(Frames)
  /\ StackRight(listeners, Expected, stack)

\* Nothing is in progress and nothing listens.
LEMMA SignalsInitially == Init => SInv
<1> SUFFICES ASSUME Init PROVE SInv
  OBVIOUS
<1>1. << >> \in Seq(Signals)
  OBVIOUS
<1>2. listeners \in Listening
  BY <1>1 DEF Init, Listening, ObCreateVector
<1>3. stack = << >> /\ stack \in Seq(Frames) /\ 1 .. Len(stack) = {}
  BY DEF Init
<1> QED
  BY <1>2, <1>3 DEF SInv, StackRight

\* Steps that change neither listeners nor calls.
LEMMA SignalsUntouched ==
  ASSUME SInv, UNCHANGED <<listeners, stack>> PROVE SInv'
<1>1. listeners' = listeners /\ stack' = stack
  OBVIOUS
<1>2. Expected' = Expected
  BY <1>1 DEF Expected, DepthFirst
<1> QED
  BY <1>1, <1>2 DEF SInv

\* A call that begins, by a driver or by an interrupt.
LEMMA SignalCalled ==
  ASSUME SInv, NEW s \in Signals, KiSignalInvoke(s) \/ Interrupt(s) PROVE SInv'
<1> DEFINE D == Expected
<1>1. PICK interrupt \in BOOLEAN :
        /\ stack' = Append(stack, Frame(s, interrupt))
        /\ stack = << >> \/ interrupt
  <2>1. CASE KiSignalInvoke(s)
    BY <2>1 DEF KiSignalInvoke, Call
  <2>2. CASE Interrupt(s)
    BY <2>2 DEF Interrupt, Call
  <2> QED
    BY <2>1, <2>2
<1>2. listeners' = listeners
  BY DEF KiSignalInvoke, Interrupt
<1>3. Expected' = D
  BY <1>2 DEF Expected, DepthFirst
<1> HIDE DEF D
<1>4. listeners \in Listening /\ stack \in Seq(Frames) /\ StackRight(listeners, D, stack)
  BY DEF SInv, D
<1>5. stack' \in Seq(Frames) /\ StackRight(listeners, D, stack')
  BY <1>1, <1>4, CallBegins
<1> QED
  BY <1>2, <1>3, <1>4, <1>5 DEF SInv

\* A call of the next listener.
LEMMA ListenerCalled == ASSUME SInv, NextListener PROVE SInv'
<1> DEFINE D == Expected
           s == listeners[Top.signal].objects[Top.i + 1]
<1>1. /\ stack # << >> /\ Top.i < Len(listeners[Top.signal].objects)
      /\ stack' = Append([stack EXCEPT ![Len(stack)].i = @ + 1], Frame(s, FALSE))
      /\ listeners' = listeners
  BY DEF NextListener, Call
<1>2. Expected' = D
  BY <1>1 DEF Expected, DepthFirst
<1> HIDE DEF D
<1>3. listeners \in Listening /\ stack \in Seq(Frames) /\ StackRight(listeners, D, stack)
  BY DEF SInv, D
<1>4. stack' \in Seq(Frames) /\ StackRight(listeners, D, stack')
  BY <1>1, <1>3, ListenerBegins DEF Top
<1> QED
  BY <1>1, <1>2, <1>3, <1>4 DEF SInv

\* A call that returns.
LEMMA SignalReturned == ASSUME SInv, InvokeReturn PROVE SInv'
<1> DEFINE D == Expected
<1>1. /\ stack # << >> /\ Top.i = Len(listeners[Top.signal].objects)
      /\ listeners' = listeners
  BY DEF InvokeReturn, AtEnd
<1>2. stack' = Returned(stack)
  BY DEF InvokeReturn, Returned, Top
<1>3. Expected' = D
  BY <1>1 DEF Expected, DepthFirst
<1>4. listeners \in Listening /\ stack \in Seq(Frames) /\ StackRight(listeners, D, stack)
  BY DEF SInv
<1>5. D \in Sequences /\ Complete(listeners, D)
  BY <1>4, DeepEnough DEF Expected
<1> HIDE DEF D
<1>6. stack' \in Seq(Frames) /\ StackRight(listeners, D, stack')
  BY <1>1, <1>2, <1>4, <1>5, CallEnds DEF Top
<1> QED
  BY <1>1, <1>3, <1>4, <1>6 DEF SInv

\* Listeners that change unsettle every call in progress.
LEMMA ListenersChanged ==
  ASSUME SInv, NEW s \in Signals, NEW t \in Signals,
         KiSignalAddListener(s, t) \/ KiSignalRemoveListener(s, t)
  PROVE  SInv'
<1>1. listeners \in Listening /\ stack \in Seq(Frames)
  BY DEF SInv
<1>2. PICK vector : Listeners(s, vector) /\ vector \in [objects : Seq(Signals), monitor : BOOLEAN]
  <2>1. listeners[s] \in [objects : Seq(Signals), monitor : BOOLEAN]
    BY <1>1 DEF Listening
  <2>2. CASE KiSignalAddListener(s, t)
    <3>1. Append(listeners[s].objects, t) \in Seq(Signals)
      BY <2>1, AppendProperties
    <3>2. ObVectorAdd(listeners[s], t) \in [objects : Seq(Signals), monitor : BOOLEAN]
      BY <3>1 DEF ObVectorAdd
    <3> QED
      BY <2>2, <3>2 DEF KiSignalAddListener
  <2>3. CASE KiSignalRemoveListener(s, t)
    <3> DEFINE found == IndexIn(listeners[s], t) # 0
    <3>1. found \in BOOLEAN
      OBVIOUS
    <3>2. ObVectorRemove(listeners[s], t) = [listeners[s] EXCEPT !.monitor = found]
      BY DEF ObVectorRemove
    <3> HIDE DEF found
    <3>3. ObVectorRemove(listeners[s], t) \in [objects : Seq(Signals), monitor : BOOLEAN]
      BY <2>1, <3>1, <3>2
    <3> QED
      BY <2>3, <3>3 DEF KiSignalRemoveListener
  <2> QED
    BY <2>2, <2>3
<1>3. listeners' \in Listening
  BY <1>1, <1>2 DEF Listeners, Listening
<1>4. stack' = [n \in DOMAIN stack |-> [stack[n] EXCEPT !.settled = FALSE]]
  BY <1>2 DEF Listeners
<1>5. Len(stack) \in Nat /\ DOMAIN stack = 1 .. Len(stack)
      /\ \A n \in 1 .. Len(stack) : stack[n] \in Frames
  BY <1>1
<1>6. \A n \in 1 .. Len(stack) : stack'[n] \in Frames /\ ~stack'[n].settled
  BY <1>4, <1>5 DEF Frames
<1>7. stack' \in [1 .. Len(stack) -> Frames]
  BY <1>4, <1>5, <1>6
<1>8. stack' \in Seq(Frames) /\ DOMAIN stack' = 1 .. Len(stack)
  BY <1>5, <1>7, SeqDef
<1>9. Len(stack') = Len(stack)
  BY <1>5, <1>8, LenProperties
<1>10. StackRight(listeners', Expected', stack')
  BY <1>6, <1>9 DEF StackRight, FrameRight
<1> QED
  BY <1>3, <1>8, <1>10 DEF SInv

\* Every step keeps what is said of the calls.
LEMMA SignalsInductive == SInv /\ [Next]_vars => SInv'
<1> SUFFICES ASSUME SInv, [Next]_vars PROVE SInv'
  OBVIOUS
<1>1. CASE Boot
  BY <1>1, SignalsUntouched
     DEF Boot, CmInitialize, KiInitialize, PsInitialize, FwLowerControlLevel, kiVars
<1>2. CASE NextListener
  BY <1>2, ListenerCalled
<1>3. CASE InvokeReturn
  BY <1>3, SignalReturned
<1>4. CASE Calls
  <2>1. ASSUME NEW l, CmRegisterNamespace(l) PROVE SInv'
    BY <2>1, SignalsUntouched DEF CmRegisterNamespace, kiVars
  <2>2. ASSUME NEW o, NEW l, CmRegisterObject(o, l) \/ CmUnregisterObject(o, l) PROVE SInv'
    BY <2>2, SignalsUntouched DEF CmRegisterObject, CmUnregisterObject, kiVars
  <2>3. ASSUME PsAddProcess PROVE SInv'
    BY <2>3, SignalsUntouched DEF PsAddProcess, kiVars
  <2>4. ASSUME PsThreadExecute PROVE SInv'
    BY <2>4, SignalsUntouched DEF PsThreadExecute, kiVars
  <2>5. CASE KiSignalDeffer
    BY <2>5, SignalsUntouched DEF KiSignalDeffer, kiVars
  <2> QED
    BY <1>4, <2>1, <2>2, <2>3, <2>4, <2>5, SignalCalled DEF Calls
<1>5. CASE Interrupts
  BY <1>5, SignalCalled, ListenersChanged DEF Interrupts
<1>6. CASE UNCHANGED vars
  BY <1>6, SignalsUntouched DEF vars, kiVars
<1> QED
  BY <1>1, <1>2, <1>3, <1>4, <1>5, <1>6 DEF Next, Begin

\* For any signals, any listeners among them and any interrupts: a call of
\* KiSignalInvoke whose listeners stayed as they were has called, when it
\* returns, the function of its signal and of all that listen to it, directly
\* or not, in the order of the recursion and as often as they listen.
THEOREM InvocationsComplete == Spec => []InvokesListeners
<1>1. SInv => InvokesListeners
  <2> SUFFICES ASSUME SInv, stack # << >>, AtEnd(Top), Top.settled
               PROVE  Top.invoked = DepthFirst[Cardinality(Signals)][Top.signal]
    BY DEF InvokesListeners
  <2> DEFINE D == Expected
             n == Len(stack)
  <2>1. listeners \in Listening /\ stack \in Seq(Frames) /\ StackRight(listeners, D, stack)
    BY DEF SInv
  <2>2. D \in Sequences /\ Complete(listeners, D)
    BY <2>1, DeepEnough DEF Expected
  <2>3. n \in 1 .. n /\ n \in Nat
    <3>1. n \in Nat \ {0}
      BY <2>1, EmptySeq
    <3> QED
      BY <3>1
  <2>4. Top = stack[n] /\ Top \in Frames
    BY <2>1, <2>3, ElementOfSeq DEF Top
  <2>5. ~Waits(stack, n)
    BY <2>3 DEF Waits
  <2>6. Invoked(listeners, D, Top, Top.i)
    BY <2>1, <2>3, <2>4, <2>5 DEF StackRight, FrameRight
  <2>7. Top.invoked = D[Top.signal]
    BY <2>1, <2>2, <2>4, <2>6, AtItsEnd DEF AtEnd
  <2> QED
    BY <2>7 DEF Expected
<1> QED
  BY SignalsInitially, SignalsInductive, <1>1, PTL DEF Spec
===============================================================================
