--------------------------- MODULE Lifecycle_proofs ---------------------------
(***************************************************************************)
(* Proofs about Lifecycle for any number of cards and users and each of    *)
(* the three creators.  IInv is about the users: a transfer only touches   *)
(* what is allocated, however creating and destroying fall between its     *)
(* steps.  Account, which rests on it, is about what is allocated: exactly *)
(* what the steps still to be done, and the adapters made, say there is.   *)
(***************************************************************************)
EXTENDS Lifecycle, SequenceTheorems, TLAPS

Ending == phase \in {"rollback", "destroy"} /\ made # <<>>

(* The cards whose adapter is complete.                                    *)
Whole == {c \in adapdata : {c} \X Obj \subseteq live}

Shape ==
    /\ creator \in Creator
    /\ phase \in Phase
    /\ card \in Nat
    /\ made \in Seq(Card)
    /\ core \subseteq ToSet(made)
    /\ open \in [Holder -> Card \cup {NoCard}]
    /\ using \in [User -> [card : Card \cup {NoCard}, objs : Seq(Obj)]]
    /\ \A u \in User : using[u] # NoUse =>
          using[u].card \in Card /\ using[u].objs # <<>>

(* The cards are found in order, so that none is made twice.               *)
Order ==
    /\ \A i, j \in DOMAIN made : i < j => made[i] < made[j]
    /\ phase = "unloaded" => made = <<>>
    /\ phase = "find" => \A i \in DOMAIN made : made[i] <= card
    /\ phase \in {"create", "undo"} =>
          card \in Card /\ \A i \in DOMAIN made : made[i] < card
    /\ phase = "rollback" => creator # "hw"

(* What the steps of the creation so far have allocated.                   *)
Progress == phase = "create" =>
    \E k \in 1 .. Len(CreateSteps) :
        /\ todo = SubSeq(CreateSteps, k, Len(CreateSteps))
        /\ \A i \in 1 .. k - 1 : <<card, CreateSteps[i]>> \in live

Complete == \A i \in DOMAIN made :
    (Ending => i # Len(made)) => made[i] \in Whole

(* Where i2c_del_adapter is among the steps of a destroy.                  *)
DelAt == IF creator = "hw" THEN 5 ELSE 1

(* The adapter being destroyed is complete until i2c_del_adapter has       *)
(* returned, except hw's, and has no users any more afterwards.            *)
Leaving == Ending =>
    \E k \in 1 .. Len(DestroySteps) + 1 :
        /\ todo = SubSeq(DestroySteps, k, Len(DestroySteps))
        /\ k <= DelAt /\ creator # "hw" => Last(made) \in Whole
        /\ k > DelAt =>
              /\ Last(made) \notin core
              /\ \A u \in User : using[u].card # Last(made)
              /\ \A u \in Holder : open[u] # Last(made)

(* Users are users of what has been made.                                  *)
Held ==
    /\ \A u \in Holder : open[u] # NoCard => open[u] \in ToSet(made)
    /\ \A u \in Holder : using[u] # NoUse => open[u] = using[u].card
    /\ creator # "hw" =>
          \A u \in User : using[u] # NoUse => using[u].card \in ToSet(made)
    /\ creator = "hw" /\ phase = "destroy" => \A u \in Holder : open[u] = NoCard

IInv == Shape /\ Order /\ Progress /\ Complete /\ Leaving /\ Held

USE DEF NoCard

-----------------------------------------------------------------------------
(* The steps of creating and destroying.                                   *)
LEMMA Steps ==
    /\ CreateSteps \in Seq(StepName)
    /\ Len(CreateSteps) \in Nat \ {0}
    /\ \A i \in 1 .. Len(CreateSteps) :
          CreateSteps[i] = "add" <=> i = Len(CreateSteps)
    /\ \A o \in Obj : \E i \in 1 .. Len(CreateSteps) - 1 : CreateSteps[i] = o
    /\ DestroySteps \in Seq(StepName)
    /\ Len(DestroySteps) \in Nat
    /\ DelAt \in 1 .. Len(DestroySteps)
    /\ \A i \in 1 .. Len(DestroySteps) : DestroySteps[i] = "del" <=> i = DelAt
  <1>1. CASE creator = "hw"
    <2>1. /\ CreateSteps = <<"context", "bios", "reg", "atom", "add">>
          /\ DestroySteps = <<"bios", "reg", "atom", "adapdata", "del", "context">>
          /\ DelAt = 5
          /\ Obj = {"context", "bios", "reg", "atom"}
      BY <1>1 DEF CreateSteps, DestroySteps, DelAt, Obj
    <2> QED
      BY <2>1 DEF StepName
  <1>2. CASE creator # "hw"
    <2>1. /\ CreateSteps = <<"context", "reg", "add">>
          /\ DestroySteps = <<"del", "reg", "context">>
          /\ DelAt = 1
          /\ Obj = {"context", "reg"}
      BY <1>2 DEF CreateSteps, DestroySteps, DelAt, Obj
    <2> QED
      BY <2>1 DEF StepName
  <1> QED
    BY <1>1, <1>2

(* The rest of a sequence of steps, and its first one.                     *)
LEMMA Rest ==
    ASSUME NEW S, NEW s \in Seq(S), NEW k \in 1 .. Len(s) + 1
    PROVE  /\ SubSeq(s, k, Len(s)) = <<>> <=> k = Len(s) + 1
           /\ k # Len(s) + 1 =>
                 /\ k \in 1 .. Len(s) /\ k + 1 \in 1 .. Len(s) + 1
                 /\ Head(SubSeq(s, k, Len(s))) = s[k]
                 /\ Tail(SubSeq(s, k, Len(s))) = SubSeq(s, k + 1, Len(s))
  <1>1. Len(s) \in Nat /\ k \in Int
    BY LenProperties
  <1>2. CASE k = Len(s) + 1
    BY <1>1, <1>2, SubSeqEmpty
  <1>3. CASE k # Len(s) + 1
    <2>1. k \in 1 .. Len(s) /\ k + 1 \in 1 .. Len(s) + 1 /\ Len(s) \in k .. Len(s)
      BY <1>1, <1>3
    <2>2. /\ Head(SubSeq(s, k, Len(s))) = s[k]
          /\ Tail(SubSeq(s, k, Len(s))) = SubSeq(s, k + 1, Len(s))
      BY <2>1, HeadTailOfSubSeq
    <2>3. Len(SubSeq(s, k, Len(s))) = Len(s) - k + 1
      <3>1. \A i \in k .. Len(s) : s[i] \in S
        BY <1>1, <2>1, ElementOfSeq
      <3> QED
        BY <1>1, <2>1, <3>1, SubSeqProperties
    <2>4. Len(SubSeq(s, k, Len(s))) > 0
      BY <1>1, <2>1, <2>3
    <2>5. SubSeq(s, k, Len(s)) # <<>>
      BY <2>4
    <2> QED
      BY <1>3, <2>1, <2>2, <2>5
  <1> QED
    BY <1>2, <1>3

(* What made is made of.                                                   *)
LEMMA Made ==
    ASSUME Shape
    PROVE  /\ Len(made) \in Nat /\ DOMAIN made = 1 .. Len(made)
           /\ \A i \in DOMAIN made : made[i] \in Card /\ made[i] \in Nat
           /\ ToSet(made) = {made[i] : i \in DOMAIN made}
           /\ made # <<>> => Len(made) \in DOMAIN made
           /\ Last(made) = made[Len(made)]
  <1>1. /\ Len(made) \in Nat /\ DOMAIN made = 1 .. Len(made)
        /\ \A i \in 1 .. Len(made) : made[i] \in Card
    BY LenProperties, ElementOfSeq DEF Shape
  <1>2. made # <<>> => Len(made) \in Nat \ {0}
    BY EmptySeq DEF Shape
  <1> QED
    BY <1>1, <1>2 DEF ToSet, Last, Card

(* The last card made is none of those before it.                          *)
LEMMA LastIsAlone ==
    ASSUME Shape, Order, NEW i \in DOMAIN made, i # Len(made)
    PROVE  made[i] # Last(made)
  <1>1. /\ i \in 1 .. Len(made) /\ Len(made) \in Nat /\ DOMAIN made = 1 .. Len(made)
        /\ made[i] \in Nat /\ Last(made) = made[Len(made)]
    BY Made
  <1>2. Len(made) \in DOMAIN made /\ i < Len(made)
    BY <1>1
  <1>3. made[Len(made)] \in Nat
    BY <1>2, Made
  <1> QED
    BY <1>1, <1>2, <1>3 DEF Order

-----------------------------------------------------------------------------
(* Before the module is loaded there is nothing.                           *)
LEMMA InitIInv == Init => IInv
  <1> SUFFICES ASSUME Init PROVE IInv
    OBVIOUS
  <1>1. made = <<>> /\ made \in Seq(Card) /\ DOMAIN made = {}
    BY EmptySeq DEF Init
  <1>2. \A u \in User : using[u] = NoUse
    BY DEF Init
  <1>3. Shape
    <2>1. NoUse \in [card : Card \cup {NoCard}, objs : Seq(Obj)]
      BY EmptySeq DEF NoUse
    <2>2. using \in [User -> [card : Card \cup {NoCard}, objs : Seq(Obj)]]
      BY <2>1 DEF Init
    <2> QED
      BY <1>1, <1>2, <2>2 DEF Init, Shape, Phase
  <1>4. Order
    BY <1>1 DEF Init, Order
  <1>5. Progress /\ Complete /\ Leaving
    BY <1>1 DEF Init, Progress, Complete, Leaving, Ending
  <1>6. Held
    <2>1. \A u \in Holder : open[u] = NoCard /\ u \in User
      BY DEF Init, User
    <2> QED
      BY <1>2, <2>1 DEF Init, Held
  <1> QED
    BY <1>3, <1>4, <1>5, <1>6 DEF IInv

(* The search and the loader only look.                                    *)
LEMMA LooksOnly ==
    ASSUME IInv, Load \/ FindCard \/ FindEnds \/ CreateFails
    PROVE  IInv'
  <1>0. Shape /\ Order /\ Progress /\ Complete /\ Leaving /\ Held
    BY DEF IInv
  <1>1. /\ UNCHANGED <<creator, live, core, adapdata, made, open, using>>
        /\ phase \notin {"rollback", "destroy"}
        /\ phase' \in {"find", "create", "loaded", "undo"}
    BY DEF Load, FindCard, FindEnds, CreateFails, Users
  <1>2. card' \in Nat
    <2>1. CASE FindCard
      BY <2>1, CardAssumption DEF FindCard, SearchOn, Card
    <2>2. CASE Load \/ FindEnds \/ CreateFails
      BY <1>0, <2>2 DEF Load, FindEnds, CreateFails, Shape
    <2> QED
      BY <2>1, <2>2
  <1>3. Shape'
    BY <1>0, <1>1, <1>2 DEF Shape, Phase, Obj
  <1>4. Order'
    <2>1. CASE Load
      BY <1>0, <1>1, <2>1 DEF Load, Order
    <2>2. CASE FindCard
      <3>1. card' \in Card /\ card' > card /\ card' \in Nat /\ card \in Nat
        BY <1>0, <2>2, CardAssumption DEF FindCard, SearchOn, Card, Shape
      <3>2. \A i \in DOMAIN made : made[i] <= card /\ made[i] \in Nat
        BY <1>0, <2>2, Made DEF FindCard, Order
      <3>3. \A i \in DOMAIN made : made[i] < card'
        BY <3>1, <3>2
      <3> QED
        BY <1>0, <1>1, <2>2, <3>1, <3>3 DEF FindCard, Order
    <2>3. CASE FindEnds
      BY <1>0, <1>1, <2>3 DEF FindEnds, Order
    <2>4. CASE CreateFails
      BY <1>0, <1>1, <2>4 DEF CreateFails, Order
    <2> QED
      BY <2>1, <2>2, <2>3, <2>4
  <1>5. Progress'
    <2>1. CASE FindCard
      <3>1. /\ CreateSteps \in Seq(StepName)
            /\ Len(CreateSteps) \in Nat \ {0}
        BY Steps
      <3>2. 1 \in 1 .. Len(CreateSteps)
        BY <3>1
      <3>3. CreateSteps = SubSeq(CreateSteps, 1, Len(CreateSteps))
        BY <3>1, SubSeqFull
      <3>4. \A i \in 1 .. 1 - 1 : <<card', CreateSteps[i]>> \in live'
        OBVIOUS
      <3>5. todo' = SubSeq(CreateSteps, 1, Len(CreateSteps))
        BY <2>1, <3>3 DEF FindCard
      <3>6. CreateSteps' = CreateSteps
        BY <1>1 DEF CreateSteps
      <3> QED
        BY <3>2, <3>4, <3>5, <3>6 DEF Progress
    <2>2. CASE phase' # "create"
      BY <2>2 DEF Progress
    <2> QED
      BY <2>1, <2>2 DEF Load, FindEnds, CreateFails
  <1>6. Complete' /\ Leaving'
    BY <1>0, <1>1 DEF Complete, Leaving, Ending, Whole, Obj
  <1>7. Held'
    BY <1>0, <1>1 DEF Held
  <1> QED
    BY <1>3, <1>4, <1>5, <1>6, <1>7 DEF IInv

(* An allocation is the next step of the creation.                         *)
LEMMA AllocateKeeps ==
    ASSUME IInv, Allocate
    PROVE  IInv'
  <1>0. Shape /\ Order /\ Progress /\ Complete /\ Leaving /\ Held
    BY DEF IInv
  <1>1. /\ phase = "create" /\ Head(todo) \in Obj
        /\ live' = live \cup {<<card, Head(todo)>>}
        /\ todo' = Tail(todo)
        /\ UNCHANGED <<creator, phase, card, core, adapdata, made, open, using>>
    BY DEF Allocate, Users
  <1>2. Shape' /\ Order' /\ Held'
    BY <1>0, <1>1 DEF Shape, Order, Held, Obj
  <1>3. Progress'
    <2> DEFINE C == CreateSteps
    <2>1. PICK k \in 1 .. Len(C) :
            /\ todo = SubSeq(C, k, Len(C))
            /\ \A i \in 1 .. k - 1 : <<card, C[i]>> \in live
      BY <1>0, <1>1 DEF Progress
    <2>2. /\ C \in Seq(StepName) /\ Len(C) \in Nat \ {0}
          /\ \A i \in 1 .. Len(C) : C[i] = "add" <=> i = Len(C)
      BY Steps
    <2> HIDE DEF C
    <2>3. k \in 1 .. Len(C) + 1 /\ k # Len(C) + 1
      BY <2>2
    <2>4. Head(todo) = C[k] /\ Tail(todo) = SubSeq(C, k + 1, Len(C))
      BY <2>1, <2>2, <2>3, Rest
    <2>5. k # Len(C)
      <3>1. "add" \notin Obj
        BY DEF Obj
      <3> QED
        BY <1>1, <2>2, <2>4, <3>1
    <2>6. k + 1 \in 1 .. Len(C)
      BY <2>2, <2>5
    <2>7. \A i \in 1 .. (k + 1) - 1 : <<card', C[i]>> \in live'
      <3>1. \A i \in 1 .. (k + 1) - 1 : i \in 1 .. k - 1 \/ i = k
        BY <2>2
      <3> QED
        BY <1>1, <2>1, <2>4, <3>1
    <2>8. todo' = SubSeq(C, k + 1, Len(C))
      BY <1>1, <2>4
    <2>9. C' = C
      BY <1>1 DEF C, CreateSteps
    <2> QED
      BY <2>6, <2>7, <2>8, <2>9 DEF Progress, C
  <1>4. Complete' /\ Leaving'
    BY <1>0, <1>1 DEF Complete, Leaving, Ending, Whole, Obj
  <1> QED
    BY <1>2, <1>3, <1>4 DEF IInv

(* What is registered has been allocated, and comes after what was made.   *)
LEMMA RegisterKeeps ==
    ASSUME IInv, Register
    PROVE  IInv'
  <1>0. Shape /\ Order /\ Progress /\ Complete /\ Leaving /\ Held
    BY DEF IInv
  <1> DEFINE n == Len(made)
  <1>1. /\ phase = "create" /\ Head(todo) = "add"
        /\ adapdata' = adapdata \cup {card}
        /\ core' = core \cup {card}
        /\ made' = Append(made, card)
        /\ phase' \in {"loaded", "find"}
        /\ UNCHANGED <<creator, card, live, open, using>>
    BY DEF Register, Users
  <1>2. /\ n \in Nat /\ DOMAIN made = 1 .. n /\ made \in Seq(Card)
        /\ \A i \in DOMAIN made : made[i] \in Card /\ made[i] \in Nat
        /\ ToSet(made) = {made[i] : i \in DOMAIN made}
        /\ card \in Card /\ card \in Nat
        /\ \A i \in DOMAIN made : made[i] < card
    BY <1>0, <1>1, Made DEF Order, Shape
  <1>3. /\ made' \in Seq(Card)
        /\ Len(made') = n + 1
        /\ \A i \in 1 .. n : made'[i] = made[i]
        /\ made'[n + 1] = card
        /\ DOMAIN made' = 1 .. n + 1
    BY <1>1, <1>2, AppendProperties, LenProperties
  <1>4. ToSet(made') = ToSet(made) \cup {card}
    <2>1. \A i : i \in 1 .. n + 1 <=> i \in 1 .. n \/ i = n + 1
      BY <1>2
    <2> QED
      BY <1>2, <1>3, <2>1 DEF ToSet
  <1>5. Shape'
    BY <1>0, <1>1, <1>3, <1>4 DEF Shape, Phase, Obj
  <1>6. Order'
    <2>1. \A i, j \in DOMAIN made' : i < j => made'[i] < made'[j]
      <3>1. ASSUME NEW i \in 1 .. n + 1, NEW j \in 1 .. n + 1, i < j
            PROVE  made'[i] < made'[j]
        <4>1. i \in 1 .. n /\ (j \in 1 .. n \/ j = n + 1)
          BY <1>2, <3>1
        <4> QED
          BY <1>0, <1>2, <1>3, <3>1, <4>1 DEF Order
      <3> QED
        BY <1>3, <3>1
    <2>2. \A i \in DOMAIN made' : made'[i] <= card
      <3>1. \A i \in 1 .. n + 1 : i \in 1 .. n \/ i = n + 1
        BY <1>2
      <3> QED
        BY <1>2, <1>3, <3>1
    <2> QED
      BY <1>1, <2>1, <2>2 DEF Order
  <1>7. Progress' /\ Leaving'
    BY <1>1 DEF Progress, Leaving, Ending
  <1>8. Complete'
    <2>1. {card} \X Obj \subseteq live
      <3> DEFINE C == CreateSteps
      <3>1. PICK k \in 1 .. Len(C) :
              /\ todo = SubSeq(C, k, Len(C))
              /\ \A i \in 1 .. k - 1 : <<card, C[i]>> \in live
        BY <1>0, <1>1 DEF Progress
      <3>2. /\ C \in Seq(StepName) /\ Len(C) \in Nat \ {0}
            /\ \A i \in 1 .. Len(C) : C[i] = "add" <=> i = Len(C)
            /\ \A o \in Obj : \E i \in 1 .. Len(C) - 1 : C[i] = o
        BY Steps
      <3> HIDE DEF C
      <3>3. k \in 1 .. Len(C) + 1 /\ k # Len(C) + 1
        BY <3>2
      <3>4. Head(todo) = C[k]
        BY <3>1, <3>2, <3>3, Rest
      <3>5. k = Len(C)
        BY <1>1, <3>2, <3>4
      <3>6. \A o \in Obj : <<card, o>> \in live
        BY <3>1, <3>2, <3>5
      <3> QED
        BY <3>6
    <2>2. card \in Whole'
      BY <1>1, <2>1 DEF Whole, Obj
    <2>3. \A i \in 1 .. n : made[i] \in Whole'
      BY <1>0, <1>1, <1>2 DEF Complete, Whole, Ending, Obj
    <2>4. \A i \in 1 .. n + 1 : i \in 1 .. n \/ i = n + 1
      BY <1>2
    <2>5. \A i \in 1 .. n + 1 : made'[i] \in Whole'
      BY <1>3, <2>2, <2>3, <2>4
    <2> QED
      BY <1>3, <2>5 DEF Complete
  <1>9. Held'
    BY <1>0, <1>1, <1>4 DEF Held
  <1> QED
    BY <1>5, <1>6, <1>7, <1>8, <1>9 DEF IInv

(* The rest of a destroy begins with all of it, where the last adapter is  *)
(* complete.                                                               *)
LEMMA WholeDestroy ==
    ASSUME creator' = creator, todo' = DestroySteps,
           Last(made') \in Whole', made' # <<>>
    PROVE  Leaving'
  <1> DEFINE D == DestroySteps
  <1>1. /\ D \in Seq(StepName) /\ Len(D) \in Nat /\ DelAt \in 1 .. Len(D)
    BY Steps
  <1>2. D' = D /\ DelAt' = DelAt
    BY DEF DestroySteps, DelAt
  <1> HIDE DEF D
  <1>3. 1 \in 1 .. Len(D) + 1 /\ ~ (1 > DelAt)
    BY <1>1
  <1>4. todo' = SubSeq(D, 1, Len(D))
    BY <1>1, SubSeqFull DEF D
  <1> QED
    BY <1>2, <1>3, <1>4 DEF Leaving, D

(* After an error path the adapters made before are still complete.        *)
LEMMA UndoEndsKeeps ==
    ASSUME IInv, UndoEnds
    PROVE  IInv'
  <1>0. Shape /\ Order /\ Progress /\ Complete /\ Leaving /\ Held
    BY DEF IInv
  <1>1. /\ phase = "undo" /\ todo = <<>>
        /\ phase' = AfterUndo
        /\ todo' = IF AfterUndo = "rollback" THEN DestroySteps ELSE <<>>
        /\ UNCHANGED <<creator, card, live, core, adapdata, made, open, using>>
    BY DEF UndoEnds, Users
  <1>2. /\ AfterUndo \in {"find", "rollback", "loaded"}
        /\ AfterUndo = "rollback" => creator = "two" /\ made # <<>>
    BY DEF AfterUndo
  <1>3. Shape'
    BY <1>0, <1>1, <1>2 DEF Shape, Phase, Obj
  <1>4. Order'
    <2>1. \A i \in DOMAIN made : made[i] <= card
      <3>1. \A i \in DOMAIN made : made[i] < card /\ made[i] \in Nat /\ card \in Nat
        BY <1>0, <1>1, Made DEF Order, Shape
      <3> QED
        BY <3>1
    <2> QED
      BY <1>0, <1>1, <1>2, <2>1 DEF Order
  <1>5. Progress'
    BY <1>1, <1>2 DEF Progress
  <1>6. \A i \in DOMAIN made : made[i] \in Whole'
    BY <1>0, <1>1 DEF Complete, Ending, Whole, Obj
  <1>7. Complete'
    BY <1>1, <1>6 DEF Complete
  <1>8. Leaving'
    <2>1. CASE AfterUndo = "rollback"
      <3>1. Last(made') \in Whole'
        BY <1>0, <1>1, <1>2, <1>6, <2>1, Made
      <3> QED
        BY <1>1, <1>2, <2>1, <3>1, WholeDestroy
    <2>2. CASE AfterUndo # "rollback"
      BY <1>1, <1>2, <2>2 DEF Leaving, Ending
    <2> QED
      BY <2>1, <2>2
  <1>9. Held'
    BY <1>0, <1>1, <1>2 DEF Held
  <1> QED
    BY <1>3, <1>4, <1>5, <1>7, <1>8, <1>9 DEF IInv

(* The module goes when no holder has a device open.                       *)
LEMMA UnloadKeeps ==
    ASSUME IInv, Unload
    PROVE  IInv'
  <1>0. Shape /\ Order /\ Progress /\ Complete /\ Leaving /\ Held
    BY DEF IInv
  <1>1. /\ phase = "loaded"
        /\ \A u \in Holder : open[u] = NoCard
        /\ phase' = "destroy"
        /\ todo' = IF made = <<>> THEN <<>> ELSE DestroySteps
        /\ UNCHANGED <<creator, card, live, core, adapdata, made, open, using>>
    BY DEF Unload, Users
  <1>2. Shape' /\ Order' /\ Progress'
    BY <1>0, <1>1 DEF Shape, Phase, Obj, Order, Progress
  <1>3. \A i \in DOMAIN made : made[i] \in Whole'
    BY <1>0, <1>1 DEF Complete, Ending, Whole, Obj
  <1>4. Complete'
    BY <1>1, <1>3 DEF Complete
  <1>5. Leaving'
    <2>1. CASE made # <<>>
      <3>1. Last(made') \in Whole'
        BY <1>0, <1>1, <1>3, <2>1, Made
      <3> QED
        BY <1>1, <2>1, <3>1, WholeDestroy
    <2>2. CASE made = <<>>
      BY <1>1, <2>2 DEF Leaving, Ending
    <2> QED
      BY <2>1, <2>2
  <1>6. Held'
    BY <1>0, <1>1 DEF Held
  <1> QED
    BY <1>2, <1>4, <1>5, <1>6 DEF IInv

-----------------------------------------------------------------------------
(* Where a destroy is, and what its next step is.                          *)
LEMMA NextOfDestroy ==
    ASSUME Leaving, Ending, todo # <<>>
    PROVE  \E k \in 1 .. Len(DestroySteps) :
             /\ todo = SubSeq(DestroySteps, k, Len(DestroySteps))
             /\ Head(todo) = DestroySteps[k]
             /\ Tail(todo) = SubSeq(DestroySteps, k + 1, Len(DestroySteps))
             /\ k + 1 \in 1 .. Len(DestroySteps) + 1
             /\ k <= DelAt /\ creator # "hw" => Last(made) \in Whole
             /\ k > DelAt =>
                   /\ Last(made) \notin core
                   /\ \A u \in User : using[u].card # Last(made)
                   /\ \A u \in Holder : open[u] # Last(made)
             /\ Head(todo) = "del" <=> k = DelAt
             /\ k \in Nat /\ DelAt \in Nat
             /\ creator # "hw" => DelAt = 1
  <1> DEFINE D == DestroySteps
  <1>1. PICK k \in 1 .. Len(D) + 1 :
          /\ todo = SubSeq(D, k, Len(D))
          /\ k <= DelAt /\ creator # "hw" => Last(made) \in Whole
          /\ k > DelAt =>
                /\ Last(made) \notin core
                /\ \A u \in User : using[u].card # Last(made)
                /\ \A u \in Holder : open[u] # Last(made)
    BY DEF Leaving
  <1>2. /\ D \in Seq(StepName) /\ Len(D) \in Nat /\ DelAt \in 1 .. Len(D)
        /\ \A i \in 1 .. Len(D) : D[i] = "del" <=> i = DelAt
    BY Steps
  <1> HIDE DEF D
  <1>3. /\ k # Len(D) + 1 /\ k \in 1 .. Len(D) /\ k + 1 \in 1 .. Len(D) + 1
        /\ Head(todo) = D[k] /\ Tail(todo) = SubSeq(D, k + 1, Len(D))
    BY <1>1, <1>2, Rest
  <1>4. Head(todo) = "del" <=> k = DelAt
    BY <1>2, <1>3
  <1>5. k \in Nat /\ DelAt \in Nat /\ (creator # "hw" => DelAt = 1)
    BY <1>2, <1>3 DEF DelAt
  <1> QED
    BY <1>1, <1>3, <1>4, <1>5 DEF D

(* A step of a destroy other than i2c_del_adapter takes from its own card. *)
LEMMA FreeKeeps ==
    ASSUME IInv, Free \/ ClearAdapdata
    PROVE  IInv'
  <1>0. Shape /\ Order /\ Progress /\ Complete /\ Leaving /\ Held
    BY DEF IInv
  <1>1. /\ phase \in {"undo", "rollback", "destroy"}
        /\ todo # <<>> /\ todo' = Tail(todo)
        /\ UNCHANGED <<creator, phase, card, core, made, open, using>>
        /\ \A x \in live : x[1] # Target => x \in live'
        /\ \A c \in adapdata : c # Target => c \in adapdata'
        /\ Head(todo) # "del"
    <2>1. CASE Free
      <3>1. PICK o \in Obj : At(o) /\ Release(o)
        BY <2>1 DEF Free
      <3>2. o # "del"
        BY DEF Obj
      <3> QED
        BY <2>1, <3>1, <3>2 DEF Free, Release, At, Users
    <2>2. CASE ClearAdapdata
      BY <2>2 DEF ClearAdapdata, At, Users
    <2> QED
      BY <2>1, <2>2
  <1>2. Shape' /\ Order' /\ Progress' /\ Held'
    BY <1>0, <1>1 DEF Shape, Order, Progress, Held, Obj
  <1>3. ASSUME NEW c \in Whole, c # Target
        PROVE  c \in Whole'
    <2>1. \A o \in Obj : <<c, o>> \in live /\ <<c, o>>[1] = c
      BY <1>3 DEF Whole
    <2>2. \A o \in Obj : <<c, o>> \in live'
      BY <1>1, <1>3, <2>1
    <2>3. Obj' = Obj
      BY <1>1 DEF Obj
    <2> QED
      BY <1>1, <1>3, <2>2, <2>3 DEF Whole
  <1>4. Complete'
    <2>1. ASSUME NEW i \in DOMAIN made, Ending => i # Len(made)
          PROVE  made[i] \in Whole'
      <3>1. made[i] \in Whole
        BY <1>0, <2>1 DEF Complete
      <3>2. made[i] # Target
        <4>1. CASE phase = "undo"
          <5>1. made[i] < card /\ made[i] \in Nat /\ card \in Nat
            BY <1>0, <4>1, Made DEF Order, Shape
          <5> QED
            BY <4>1, <5>1 DEF Target
        <4>2. CASE phase # "undo"
          <5>1. Ending
            <6>1. made # <<>>
              BY <1>0, Made
            <6> QED
              BY <1>1, <4>2, <6>1 DEF Ending
          <5> QED
            BY <1>0, <2>1, <4>2, <5>1, LastIsAlone DEF Target
        <4> QED
          BY <4>1, <4>2
      <3> QED
        BY <1>3, <3>1, <3>2
    <2>2. made' = made /\ (Ending' <=> Ending)
      BY <1>1 DEF Ending
    <2> QED
      BY <2>1, <2>2 DEF Complete
  <1>5. Leaving'
    <2>1. CASE ~ Ending
      BY <1>1, <2>1 DEF Leaving, Ending
    <2>2. CASE Ending
      <3> DEFINE D == DestroySteps
      <3>1. PICK k \in 1 .. Len(D) :
              /\ todo = SubSeq(D, k, Len(D))
              /\ Tail(todo) = SubSeq(D, k + 1, Len(D))
              /\ k + 1 \in 1 .. Len(D) + 1
              /\ k > DelAt =>
                    /\ Last(made) \notin core
                    /\ \A u \in User : using[u].card # Last(made)
                    /\ \A u \in Holder : open[u] # Last(made)
              /\ Head(todo) = "del" <=> k = DelAt
              /\ k \in Nat /\ DelAt \in Nat
              /\ creator # "hw" => DelAt = 1
        BY <1>0, <1>1, <2>2, NextOfDestroy
      <3>2. D' = D /\ DelAt' = DelAt
        BY <1>1 DEF DestroySteps, DelAt
      <3> HIDE DEF D
      <3>3. k # DelAt
        BY <1>1, <3>1
      <3>4. k + 1 > DelAt => k > DelAt
        BY <3>1, <3>3
      <3>5. creator # "hw" => ~ (k + 1 <= DelAt)
        BY <3>1
      <3>6. todo' = SubSeq(D, k + 1, Len(D))
        BY <1>1, <3>1
      <3> QED
        BY <1>1, <3>1, <3>2, <3>4, <3>5, <3>6 DEF Leaving, D
    <2> QED
      BY <2>1, <2>2
  <1> QED
    BY <1>2, <1>4, <1>5 DEF IInv

(* The beginning of i2c_del_adapter only takes the adapter from the core.  *)
LEMMA DelBeginsKeeps ==
    ASSUME IInv, DelBegins
    PROVE  IInv'
  <1>0. Shape /\ Order /\ Progress /\ Complete /\ Leaving /\ Held
    BY DEF IInv
  <1>1. /\ phase \in {"undo", "rollback", "destroy"}
        /\ core' = core \ {Target}
        /\ UNCHANGED <<creator, phase, card, todo, live, adapdata, made, open, using>>
    BY DEF DelBegins, At, Users
  <1>2. Shape' /\ Order' /\ Held'
    BY <1>0, <1>1 DEF Shape, Order, Held, Obj
  <1>3. Progress' /\ Complete'
    BY <1>0, <1>1 DEF Progress, Complete, Ending, Whole, Obj
  <1>4. Leaving'
    BY <1>0, <1>1 DEF Leaving, Ending, Whole, Obj, DestroySteps, DelAt
  <1> QED
    BY <1>2, <1>3, <1>4 DEF IInv

(* i2c_del_adapter returns when nobody uses the adapter any more.          *)
LEMMA DelEndsKeeps ==
    ASSUME IInv, DelEnds
    PROVE  IInv'
  <1>0. Shape /\ Order /\ Progress /\ Complete /\ Leaving /\ Held
    BY DEF IInv
  <1>1. /\ phase \in {"undo", "rollback", "destroy"}
        /\ todo # <<>> /\ Head(todo) = "del" /\ todo' = Tail(todo)
        /\ Target \notin core
        /\ \A u \in User : using[u].card # Target
        /\ \A u \in Holder : open[u] # Target
        /\ UNCHANGED <<creator, phase, card, live, core, adapdata, made, open, using>>
    BY DEF DelEnds, At, Users
  <1>2. Shape' /\ Order' /\ Held'
    BY <1>0, <1>1 DEF Shape, Order, Held, Obj
  <1>3. Progress' /\ Complete'
    BY <1>0, <1>1 DEF Progress, Complete, Ending, Whole, Obj
  <1>4. Leaving'
    <2>1. CASE ~ Ending
      BY <1>1, <2>1 DEF Leaving, Ending
    <2>2. CASE Ending
      <3> DEFINE D == DestroySteps
      <3>1. PICK k \in 1 .. Len(D) :
              /\ Tail(todo) = SubSeq(D, k + 1, Len(D))
              /\ k + 1 \in 1 .. Len(D) + 1
              /\ Head(todo) = "del" <=> k = DelAt
              /\ k \in Nat
        BY <1>0, <1>1, <2>2, NextOfDestroy
      <3>2. D' = D /\ DelAt' = DelAt
        BY <1>1 DEF DestroySteps, DelAt
      <3> HIDE DEF D
      <3>3. ~ (k + 1 <= DelAt)
        BY <1>1, <3>1
      <3>4. Target = Last(made)
        BY <2>2 DEF Target, Ending
      <3>5. todo' = SubSeq(D, k + 1, Len(D))
        BY <1>1, <3>1
      <3> QED
        BY <1>1, <3>1, <3>2, <3>3, <3>4, <3>5 DEF Leaving, D
    <2> QED
      BY <2>1, <2>2
  <1> QED
    BY <1>2, <1>3, <1>4 DEF IInv

(* What is made without the last one.                                      *)
LEMMA AllButLast ==
    ASSUME Shape, made # <<>>, made' = Front(made)
    PROVE  /\ made' \in Seq(Card) /\ Len(made') = Len(made) - 1
           /\ Len(made) \in Nat \ {0} /\ DOMAIN made = 1 .. Len(made)
           /\ \A i \in 1 .. Len(made) - 1 :
                 made'[i] = made[i] /\ i \in DOMAIN made /\ i # Len(made)
           /\ DOMAIN made' = 1 .. Len(made) - 1
           /\ \A c \in ToSet(made) : c # Last(made) => c \in ToSet(made')
           /\ made' # <<>> =>
                 Last(made') = made[Len(made) - 1] /\ Len(made) - 1 \in 1 .. Len(made) - 1
  <1> DEFINE n == Len(made)
  <1>1. /\ n \in Nat \ {0} /\ DOMAIN made = 1 .. n /\ made \in Seq(Card)
        /\ \A i \in 1 .. n : made[i] \in Card
        /\ ToSet(made) = {made[i] : i \in DOMAIN made}
        /\ Last(made) = made[n]
    BY Made, EmptySeq DEF Shape
  <1>2. \A i \in 1 .. n - 1 : i \in 1 .. n /\ i # n
    <2>1. \A m \in Nat \ {0} : \A i \in 1 .. m - 1 : i \in 1 .. m /\ i # m
      OBVIOUS
    <2> QED
      BY <1>1, <2>1
  <1>3. /\ made' \in Seq(Card) /\ Len(made') = n - 1
        /\ \A i \in 1 .. n - 1 : made'[i] = made[i]
        /\ DOMAIN made' = 1 .. n - 1
    <2>1. \A i \in 1 .. n - 1 : made[i] \in Card
      BY <1>1, <1>2
    <2>2. /\ Front(made) \in Seq(Card) /\ Len(Front(made)) = n - 1
          /\ \A i \in 1 .. n - 1 : Front(made)[i] = made[i]
      BY <1>1, <2>1, SubSeqProperties DEF Front
    <2> QED
      BY <2>2, LenProperties
  <1>4. \A i \in 1 .. n : i \in 1 .. n - 1 \/ i = n
    <2>1. \A m \in Nat \ {0} : \A i \in 1 .. m : i \in 1 .. m - 1 \/ i = m
      OBVIOUS
    <2> QED
      BY <1>1, <2>1
  <1>5. \A c \in ToSet(made) : c # Last(made) => c \in ToSet(made')
    BY <1>1, <1>3, <1>4 DEF ToSet
  <1>6. made' # <<>> => Last(made') = made[n - 1] /\ n - 1 \in 1 .. n - 1
    <2>1. made' # <<>> => n - 1 \in Nat \ {0}
      BY <1>1, <1>3, EmptySeq
    <2> QED
      BY <1>1, <1>3, <2>1 DEF Last
  <1> QED
    BY <1>1, <1>2, <1>3, <1>5, <1>6

(* The adapter before the last one is next, and complete.                  *)
LEMMA DestroyedKeeps ==
    ASSUME IInv, Destroyed
    PROVE  IInv'
  <1>0. Shape /\ Order /\ Progress /\ Complete /\ Leaving /\ Held
    BY DEF IInv
  <1> DEFINE n == Len(made)
  <1>1. /\ phase \in {"rollback", "destroy"} /\ todo = <<>> /\ made # <<>>
        /\ made' = Front(made)
        /\ adapdata' = adapdata \ {Target}
        /\ todo' = IF made' = <<>> THEN <<>> ELSE DestroySteps
        /\ UNCHANGED <<creator, phase, card, live, core, open, using>>
        /\ Target = Last(made)
        /\ Ending
    BY DEF Destroyed, Target, Users, Ending
  <1>2. /\ n \in Nat \ {0} /\ DOMAIN made = 1 .. n /\ made \in Seq(Card)
        /\ ToSet(made) = {made[i] : i \in DOMAIN made}
        /\ Last(made) = made[n]
    BY <1>0, <1>1, Made, EmptySeq DEF Shape
  <1>3. /\ made' \in Seq(Card) /\ Len(made') = n - 1
        /\ \A i \in 1 .. n - 1 : made'[i] = made[i]
        /\ DOMAIN made' = 1 .. n - 1
    BY <1>0, <1>1, AllButLast
  <1>5. \A c \in ToSet(made) : c # Last(made) => c \in ToSet(made')
    BY <1>0, <1>1, AllButLast
  <1>6. /\ Last(made) \notin core
        /\ \A u \in User : using[u].card # Last(made)
        /\ \A u \in Holder : open[u] # Last(made)
    <2> DEFINE D == DestroySteps
    <2>1. PICK k \in 1 .. Len(D) + 1 :
            /\ todo = SubSeq(D, k, Len(D))
            /\ k > DelAt =>
                  /\ Last(made) \notin core
                  /\ \A u \in User : using[u].card # Last(made)
                  /\ \A u \in Holder : open[u] # Last(made)
      BY <1>0, <1>1 DEF Leaving
    <2>2. D \in Seq(StepName) /\ Len(D) \in Nat /\ DelAt \in 1 .. Len(D)
      BY Steps
    <2> HIDE DEF D
    <2>3. k = Len(D) + 1
      BY <1>1, <2>1, <2>2, Rest
    <2> QED
      BY <2>1, <2>2, <2>3
  <1>7. Shape'
    <2>1. core' \subseteq ToSet(made')
      BY <1>0, <1>1, <1>5, <1>6 DEF Shape
    <2> QED
      BY <1>0, <1>1, <1>3, <2>1 DEF Shape, Obj
  <1>8. Order'
    <2>1. \A i \in 1 .. n - 1 : i \in DOMAIN made
      BY <1>2
    <2> QED
      BY <1>0, <1>1, <1>3, <2>1 DEF Order
  <1>9. Progress'
    BY <1>1 DEF Progress
  <1>10. \A i \in 1 .. n - 1 : made[i] \in Whole'
    <2>1. ASSUME NEW i \in 1 .. n - 1
          PROVE  made[i] \in Whole'
      <3>1. i \in DOMAIN made /\ i # n
        <4>1. \A m \in Nat \ {0} : \A j \in 1 .. m - 1 : j \in 1 .. m /\ j # m
          OBVIOUS
        <4> QED
          BY <1>2, <4>1
      <3>2. made[i] \in Whole /\ made[i] # Last(made)
        BY <1>0, <3>1, LastIsAlone DEF Complete
      <3>3. made[i] \in adapdata' /\ live' = live /\ Obj' = Obj
        BY <1>1, <3>2 DEF Whole, Obj
      <3> QED
        BY <3>2, <3>3 DEF Whole
    <2> QED
      BY <2>1
  <1>11. Complete'
    <2>1. \A i \in 1 .. n - 1 : made'[i] \in Whole'
      BY <1>3, <1>10
    <2> QED
      BY <1>3, <2>1 DEF Complete
  <1>12. Leaving'
    <2>1. CASE made' = <<>>
      BY <2>1 DEF Leaving, Ending
    <2>2. CASE made' # <<>>
      <3>1. Last(made)' = made'[n - 1] /\ n - 1 \in 1 .. n - 1
        <4>1. Len(made') \in Nat \ {0}
          BY <1>3, <2>2, EmptySeq
        <4> QED
          BY <1>3, <4>1 DEF Last
      <3>2. Last(made') \in Whole'
        BY <1>3, <1>10, <3>1
      <3> QED
        BY <1>1, <2>2, <3>2, WholeDestroy
    <2> QED
      BY <2>1, <2>2
  <1>13. Held'
    BY <1>0, <1>1, <1>5, <1>6 DEF Held
  <1> QED
    BY <1>7, <1>8, <1>9, <1>11, <1>12, <1>13 DEF IInv

(* The end of a rollback or of the exit leaves what is there.              *)
LEMMA FinishKeeps ==
    ASSUME IInv, Finish
    PROVE  IInv'
  <1>0. Shape /\ Order /\ Progress /\ Complete /\ Leaving /\ Held
    BY DEF IInv
  <1>1. /\ phase \in {"rollback", "destroy"} /\ made = <<>>
        /\ phase' \in {"unloaded", "loaded"}
        /\ card' \in {NoCard, card}
        /\ UNCHANGED <<creator, todo, live, core, adapdata, made, open, using>>
    BY DEF Finish, Users
  <1>2. Shape'
    BY <1>0, <1>1 DEF Shape, Phase, Obj
  <1>3. Order' /\ Progress'
    BY <1>0, <1>1 DEF Order, Progress
  <1>4. Complete' /\ Leaving'
    BY <1>0, <1>1 DEF Complete, Leaving, Ending, Whole, Obj
  <1>5. Held'
    BY <1>0, <1>1 DEF Held
  <1> QED
    BY <1>2, <1>3, <1>4, <1>5 DEF IInv

-----------------------------------------------------------------------------
(* What stays when only users do something.                                *)
LEMMA UsersOnly ==
    ASSUME IInv, UNCHANGED Loading
    PROVE  /\ Order' /\ Progress' /\ Complete'
           /\ UNCHANGED <<creator, phase, card, todo, live, core, adapdata, made>>
           /\ UNCHANGED <<Obj, DestroySteps, DelAt, Ending>>
           /\ Last(made') \in Whole' <=> Last(made) \in Whole
  BY DEF IInv, Loading, Order, Progress, Complete, Ending, Whole, Obj, DestroySteps,
         DelAt, CreateSteps

(* A user who gets to another card gets to one the i2c core knows.         *)
LEMMA UsersLeave ==
    ASSUME IInv, UNCHANGED Loading,
           \A u \in User :
              \/ using'[u].card \in core \cup {NoCard, using[u].card}
              \/ (u \in Holder /\ using'[u].card = open[u]),
           \A u \in Holder : open'[u] \in core \cup {NoCard, open[u]}
    PROVE  Leaving'
  <1>0. Shape /\ Leaving
    BY DEF IInv
  <1>1. /\ UNCHANGED <<creator, phase, todo, core, made>>
        /\ UNCHANGED <<DestroySteps, DelAt, Ending>>
        /\ Last(made') \in Whole' <=> Last(made) \in Whole
    BY UsersOnly
  <1> SUFFICES ASSUME Ending
               PROVE  Leaving'
    BY <1>1 DEF Leaving
  <1> DEFINE D == DestroySteps
  <1>2. PICK k \in 1 .. Len(D) + 1 :
          /\ todo = SubSeq(D, k, Len(D))
          /\ k <= DelAt /\ creator # "hw" => Last(made) \in Whole
          /\ k > DelAt =>
                /\ Last(made) \notin core
                /\ \A u \in User : using[u].card # Last(made)
                /\ \A u \in Holder : open[u] # Last(made)
    BY <1>0 DEF Leaving
  <1>3. Last(made) # NoCard
    <2>1. Last(made) \in Card
      BY <1>0, Made DEF Ending
    <2> QED
      BY <2>1, CardAssumption DEF Card
  <1>4. k > DelAt =>
          /\ \A u \in User : using'[u].card # Last(made)
          /\ \A u \in Holder : open'[u] # Last(made)
    BY <1>2, <1>3
  <1>5. Last(made)' = Last(made)
    BY <1>1
  <1> HIDE DEF D
  <1>6. D' = D
    BY <1>1 DEF D
  <1> QED
    BY <1>1, <1>2, <1>4, <1>5, <1>6 DEF Leaving, D

(* A device that is opened is one that the core knows, so not the one that *)
(* i2c_del_adapter has let go.                                             *)
LEMMA OpenKeeps ==
    ASSUME IInv, NEW u \in Holder, NEW c \in Card, Open(u, c)
    PROVE  IInv'
  <1>0. Shape /\ Held
    BY DEF IInv
  <1>1. /\ open[u] = NoCard /\ c \in core /\ phase # "destroy"
        /\ open' = [open EXCEPT ![u] = c]
        /\ UNCHANGED Loading /\ UNCHANGED using
    BY DEF Open
  <1>2. /\ Order' /\ Progress' /\ Complete'
        /\ UNCHANGED <<creator, phase, card, todo, live, core, adapdata, made>>
        /\ UNCHANGED Obj
    BY <1>1, UsersOnly
  <1>3. Shape'
    BY <1>0, <1>1, <1>2 DEF Shape
  <1>4. u \in User /\ using[u] = NoUse
    <2>1. u \in User /\ (using[u] # NoUse => using[u].card \in Card)
      BY <1>0 DEF Shape, User
    <2>2. using[u] # NoUse => using[u].card = NoCard
      BY <1>0, <1>1 DEF Held
    <2>3. NoCard \notin Card
      BY CardAssumption DEF Card
    <2> QED
      BY <2>1, <2>2, <2>3
  <1>5. Held'
    BY <1>0, <1>1, <1>2, <1>4 DEF Held, Shape
  <1>6. Leaving'
    BY <1>0, <1>1, UsersLeave DEF Shape
  <1> QED
    BY <1>2, <1>3, <1>5, <1>6 DEF IInv

(* A device that is closed is not in use.                                  *)
LEMMA CloseKeeps ==
    ASSUME IInv, NEW u \in Holder, Close(u)
    PROVE  IInv'
  <1>0. Shape /\ Held
    BY DEF IInv
  <1>1. /\ using[u] = NoUse
        /\ open' = [open EXCEPT ![u] = NoCard]
        /\ UNCHANGED Loading /\ UNCHANGED using
    BY DEF Close
  <1>2. /\ Order' /\ Progress' /\ Complete'
        /\ UNCHANGED <<creator, phase, card, todo, live, core, adapdata, made>>
        /\ UNCHANGED Obj
    BY <1>1, UsersOnly
  <1>3. Shape'
    BY <1>0, <1>1, <1>2 DEF Shape
  <1>4. Held'
    BY <1>0, <1>1, <1>2 DEF Held, Shape
  <1>5. Leaving'
    BY <1>0, <1>1, UsersLeave DEF Shape
  <1> QED
    BY <1>2, <1>3, <1>4, <1>5 DEF IInv

(* A transfer begins on an open device, or on one that the core knows.     *)
LEMMA XferBeginKeeps ==
    ASSUME IInv, NEW u \in User, NEW c \in Card, XferBegin(u, c)
    PROVE  IInv'
  <1>0. Shape /\ Held
    BY DEF IInv
  <1> DEFINE x == [card |-> c, objs |-> XferUses]
  <1>1. /\ IF u \in Holder THEN open[u] = c ELSE c \in core
        /\ using' = [using EXCEPT ![u] = x]
        /\ UNCHANGED Loading /\ UNCHANGED open
    BY DEF XferBegin
  <1>2. /\ Order' /\ Progress' /\ Complete'
        /\ UNCHANGED <<creator, phase, card, todo, live, core, adapdata, made>>
        /\ UNCHANGED Obj
    BY <1>1, UsersOnly
  <1>3. XferUses \in Seq(Obj) /\ XferUses # <<>>
    <2>1. CASE creator = "hw"
      BY <2>1 DEF XferUses, Obj
    <2>2. CASE creator # "hw"
      BY <2>2 DEF XferUses, Obj
    <2> QED
      BY <2>1, <2>2
  <1>4. /\ x \in [card : Card \cup {NoCard}, objs : Seq(Obj)]
        /\ x.card = c /\ x.objs # <<>>
    BY <1>3
  <1> HIDE DEF x
  <1>5. /\ using'[u] = x
        /\ \A v \in User : v # u => using'[v] = using[v]
        /\ using' \in [User -> [card : Card \cup {NoCard}, objs : Seq(Obj)]]
    BY <1>0, <1>1, <1>4 DEF Shape
  <1>6. Shape'
    BY <1>0, <1>1, <1>2, <1>4, <1>5 DEF Shape
  <1>7. c \in ToSet(made)
    <2>1. c # NoCard
      BY CardAssumption DEF Card
    <2> QED
      BY <1>0, <1>1, <2>1 DEF Held, Shape
  <1>8. Holder \subseteq User
    BY DEF User
  <1>9. Held'
    BY <1>0, <1>1, <1>2, <1>4, <1>5, <1>7, <1>8 DEF Held
  <1>10. Leaving'
    BY <1>1, <1>4, <1>5, UsersLeave
  <1> QED
    BY <1>2, <1>6, <1>9, <1>10 DEF IInv

(* A transfer goes on with its own card.                                   *)
LEMMA XferUseKeeps ==
    ASSUME IInv, NEW u \in User, XferUse(u)
    PROVE  IInv'
  <1>0. Shape /\ Held
    BY DEF IInv
  <1> DEFINE y == using[u]
             x == IF Len(y.objs) = 1 THEN NoUse ELSE [card |-> y.card, objs |-> Tail(y.objs)]
  <1>1. /\ y # NoUse
        /\ using' = [using EXCEPT ![u] = x]
        /\ UNCHANGED Loading /\ UNCHANGED open
    BY DEF XferUse
  <1>2. /\ Order' /\ Progress' /\ Complete'
        /\ UNCHANGED <<creator, phase, card, todo, live, core, adapdata, made>>
        /\ UNCHANGED Obj
    BY <1>1, UsersOnly
  <1>3. y \in [card : Card \cup {NoCard}, objs : Seq(Obj)] /\ y.objs # <<>> /\ y.card \in Card
    BY <1>0, <1>1 DEF Shape
  <1>4. /\ x \in [card : Card \cup {NoCard}, objs : Seq(Obj)]
        /\ x # NoUse => x.card = y.card /\ x.objs # <<>>
        /\ x.card \in {NoCard, y.card}
    <2>1. CASE Len(y.objs) = 1
      BY <2>1, EmptySeq DEF NoUse
    <2>2. CASE Len(y.objs) # 1
      <3>1. y.objs \in Seq(Obj) /\ Len(y.objs) \in Nat \ {0}
        BY <1>3, EmptySeq
      <3>2. Tail(y.objs) \in Seq(Obj) /\ Len(Tail(y.objs)) = Len(y.objs) - 1
        BY <1>3, <3>1, HeadTailProperties
      <3>3. Tail(y.objs) # <<>>
        <4>1. Len(Tail(y.objs)) # 0
          BY <2>2, <3>1, <3>2
        <4> QED
          BY <3>2, <4>1, EmptySeq
      <3> QED
        BY <1>3, <2>2, <3>2, <3>3
    <2> QED
      BY <2>1, <2>2
  <1> HIDE DEF x
  <1>5. /\ using'[u] = x
        /\ \A v \in User : v # u => using'[v] = using[v]
        /\ using' \in [User -> [card : Card \cup {NoCard}, objs : Seq(Obj)]]
    BY <1>0, <1>1, <1>4 DEF Shape
  <1>6. Shape'
    BY <1>0, <1>1, <1>2, <1>3, <1>4, <1>5 DEF Shape
  <1>7. Holder \subseteq User
    BY DEF User
  <1>8. Held'
    BY <1>0, <1>1, <1>2, <1>4, <1>5, <1>7 DEF Held
  <1>9. Leaving'
    BY <1>1, <1>4, <1>5, UsersLeave
  <1> QED
    BY <1>2, <1>6, <1>8, <1>9 DEF IInv

(* Nothing changes.                                                        *)
LEMMA StutterKeeps ==
    ASSUME IInv, UNCHANGED vars
    PROVE  IInv'
  <1>1. UNCHANGED Loading /\ UNCHANGED <<open, using>>
    BY DEF vars, Loading
  <1>2. /\ Order' /\ Progress' /\ Complete'
        /\ UNCHANGED <<creator, phase, card, todo, live, core, adapdata, made>>
        /\ UNCHANGED Obj
    BY <1>1, UsersOnly
  <1>3. Leaving'
    BY <1>1, UsersLeave
  <1>4. Shape' /\ Held'
    BY <1>1, <1>2 DEF IInv, Shape, Held
  <1> QED
    BY <1>2, <1>3, <1>4 DEF IInv

(* Creating, destroying and using keep the invariant in any order.         *)
THEOREM Inductive == Spec => []IInv
  <1>1. ASSUME IInv, [Next]_vars
        PROVE  IInv'
    <2>1. CASE Load \/ Creating
      BY <1>1, <2>1, LooksOnly, AllocateKeeps, RegisterKeeps DEF Creating
    <2>2. CASE Freeing \/ Unload
      BY <1>1, <2>2, UndoEndsKeeps, FreeKeeps, DelBeginsKeeps, DelEndsKeeps,
         DestroyedKeeps, FinishKeeps, UnloadKeeps DEF Freeing
    <2>3. ASSUME NEW u \in Holder, Close(u) \/ \E c \in Card : Open(u, c)
          PROVE  IInv'
      BY <1>1, <2>3, CloseKeeps, OpenKeeps
    <2>4. ASSUME NEW u \in User, XferUse(u) \/ \E c \in Card : XferBegin(u, c)
          PROVE  IInv'
      BY <1>1, <2>4, XferUseKeeps, XferBeginKeeps
    <2>5. CASE UNCHANGED vars
      BY <1>1, <2>5, StutterKeeps
    <2> QED
      BY <1>1, <2>1, <2>2, <2>3, <2>4, <2>5 DEF Next
  <1> QED
    BY <1>1, InitIInv, PTL DEF Spec

(* For any number of cards and users, a transfer finds its context and     *)
(* only touches what is allocated, whichever function created the adapter, *)
(* and whatever is rolled back or unloaded meanwhile; with the exception   *)
(* that the property names.                                                *)
THEOREM NoUseAfterFreeTheorem == Spec => []NoUseAfterFreeUnlessBound
  <1>1. ASSUME IInv PROVE NoUseAfterFreeUnlessBound
    <2>0. Shape /\ Order /\ Complete /\ Leaving /\ Held
      BY <1>1 DEF IInv
    <2> SUFFICES ASSUME NEW u \in User, using[u] # NoUse,
                        creator # "hw" \/ u \in Holder
                 PROVE  /\ using[u].card \in adapdata
                        /\ {using[u].card} \X ToSet(using[u].objs) \subseteq live
      BY DEF NoUseAfterFreeUnlessBound
    <2> DEFINE c == using[u].card
    <2>1. c \in Card /\ c # NoCard /\ using[u].objs \in Seq(Obj)
      <3>1. c \in Card /\ using[u].objs \in Seq(Obj)
        BY <2>0 DEF Shape
      <3> QED
        BY <3>1, CardAssumption DEF Card
    <2>2. c \in ToSet(made)
      BY <2>0, <2>1 DEF Held
    <2>3. PICK i \in DOMAIN made : c = made[i]
      BY <2>0, <2>2, Made
    <2>4. c \in Whole
      <3>1. CASE Ending => i # Len(made)
        BY <2>0, <2>3, <3>1 DEF Complete
      <3>2. CASE Ending /\ i = Len(made)
        <4>1. c = Last(made)
          BY <2>0, <2>3, <3>2, Made
        <4>2. creator # "hw"
          <5>1. CASE phase = "rollback"
            BY <2>0, <5>1 DEF Order
          <5>2. CASE phase = "destroy"
            BY <2>0, <2>1, <5>2 DEF Held
          <5> QED
            BY <3>2, <5>1, <5>2 DEF Ending
        <4>3. PICK k \in 1 .. Len(DestroySteps) + 1 :
                /\ k <= DelAt => Last(made) \in Whole
                /\ k > DelAt => \A v \in User : using[v].card # Last(made)
          BY <2>0, <3>2, <4>2 DEF Leaving
        <4>4. ~ (k > DelAt)
          BY <4>1, <4>3
        <4>5. k <= DelAt
          BY <4>4, Steps
        <4> QED
          BY <4>1, <4>3, <4>5
      <3> QED
        BY <3>1, <3>2
    <2>5. ToSet(using[u].objs) \subseteq Obj
      <3>1. DOMAIN using[u].objs = 1 .. Len(using[u].objs)
        BY <2>1, LenProperties
      <3>2. \A j \in 1 .. Len(using[u].objs) : using[u].objs[j] \in Obj
        BY <2>1, ElementOfSeq
      <3> QED
        BY <3>1, <3>2 DEF ToSet
    <2> QED
      BY <2>4, <2>5 DEF Whole
  <1> QED
    BY <1>1, Inductive, PTL

-----------------------------------------------------------------------------
(* No step is done twice.                                                  *)
Distinct(s) == \A i, j \in DOMAIN s : s[i] = s[j] => i = j

(* What is still to be done; a context goes last.                          *)
Remaining ==
    /\ todo \in Seq(StepName)
    /\ Distinct(todo)
    /\ phase \in {"undo", "rollback", "destroy"} =>
          \A i \in DOMAIN todo : todo[i] = "context" => i = Len(todo)
    /\ phase \in {"rollback", "destroy"} /\ made = <<>> => todo = <<>>

(* The search; hw's always ends at the first card, so that it can lose     *)
(* only what is that card's.                                               *)
First(c) == c \in Match /\ \A d \in Match : c <= d

Found ==
    /\ card \in Card \cup {NoCard}
    /\ phase \in {"create", "undo"} => card \in Match
    /\ phase = "unloaded" => card = NoCard
    /\ creator = "hw" =>
          /\ card # NoCard => First(card)
          /\ phase = "find" => card = NoCard

(* The core knows the adapters that have been made.                        *)
Known ==
    /\ \A i \in DOMAIN made : (Ending => i # Len(made)) => made[i] \in core
    /\ adapdata \subseteq Card

(* What the card being created, or the one being destroyed, has allocated: *)
(* what is not still to be allocated, or what is still to be freed.  After *)
(* a failed atom_parse more is allocated than will be freed.               *)
Exact ==
    /\ live \subseteq Card \X Obj
    /\ \A x \in live : \/ x[1] \in ToSet(made)
                       \/ phase \in {"create", "undo"} /\ x[1] = card
    /\ phase = "create" => \A o \in Obj : <<card, o>> \in live <=> o \notin ToSet(todo)
    /\ phase = "undo" =>
          \/ \A o \in Obj : <<card, o>> \in live <=> o \in ToSet(todo)
          \/ /\ creator = "hw" /\ lost /\ todo = <<"context">>
             /\ \A o \in Obj : <<card, o>> \in live <=> o # "atom"
    /\ Ending => \A o \in Obj : <<Last(made), o>> \in live <=> o \in ToSet(todo)

Orphaned ==
    /\ lost \in BOOLEAN
    /\ orphan # {} =>
          /\ creator = "hw"
          /\ lost
          /\ \E c \in Match : First(c) /\ orphan = {c} \X {"bios", "reg"}

Account == Remaining /\ Found /\ Known /\ Exact /\ Orphaned

-----------------------------------------------------------------------------
(* What is left of steps that are all different when the first one is      *)
(* done.                                                                   *)
LEMMA AfterFirst ==
    ASSUME NEW S, NEW s \in Seq(S), s # <<>>, Distinct(s)
    PROVE  /\ Tail(s) \in Seq(S) /\ Distinct(Tail(s))
           /\ Head(s) \in S /\ Head(s) \in ToSet(s)
           /\ \A x : x \in ToSet(Tail(s)) <=> x \in ToSet(s) /\ x # Head(s)
           /\ Len(Tail(s)) = Len(s) - 1
           /\ \A i \in DOMAIN Tail(s) : i + 1 \in DOMAIN s /\ Tail(s)[i] = s[i + 1]
  <1>1. /\ Tail(s) \in Seq(S) /\ Len(Tail(s)) = Len(s) - 1
        /\ \A i \in 1 .. Len(s) - 1 : Tail(s)[i] = s[i + 1]
        /\ Head(s) = s[1]
    BY HeadTailProperties
  <1>2. /\ Len(s) \in Nat \ {0} /\ DOMAIN s = 1 .. Len(s)
        /\ DOMAIN Tail(s) = 1 .. Len(s) - 1
    BY <1>1, LenProperties, EmptySeq
  <1>3. \A i \in 1 .. Len(s) - 1 : i + 1 \in 1 .. Len(s) /\ i + 1 # 1
    BY <1>2
  <1>4. 1 \in DOMAIN s /\ s[1] \in S
    BY <1>2, ElementOfSeq
  <1>5. Distinct(Tail(s))
    <2>1. ASSUME NEW i \in 1 .. Len(s) - 1, NEW j \in 1 .. Len(s) - 1,
                 Tail(s)[i] = Tail(s)[j]
          PROVE  i = j
      <3>1. s[i + 1] = s[j + 1] /\ i + 1 \in DOMAIN s /\ j + 1 \in DOMAIN s
        BY <1>1, <1>2, <1>3, <2>1
      <3>2. i + 1 = j + 1
        BY <3>1 DEF Distinct
      <3> QED
        BY <1>2, <3>2
    <2> QED
      BY <1>2, <2>1 DEF Distinct
  <1>6. \A i \in DOMAIN s : i = 1 \/ \E j \in 1 .. Len(s) - 1 : i = j + 1
    <2>1. ASSUME NEW i \in 1 .. Len(s), i # 1
          PROVE  \E j \in 1 .. Len(s) - 1 : i = j + 1
      <3>1. i - 1 \in 1 .. Len(s) - 1 /\ i = (i - 1) + 1
        BY <1>2, <2>1
      <3> QED
        BY <3>1
    <2> QED
      BY <1>2, <2>1
  <1>7. ASSUME NEW x
        PROVE  x \in ToSet(Tail(s)) <=> x \in ToSet(s) /\ x # Head(s)
    <2>1. ASSUME x \in ToSet(Tail(s))
          PROVE  x \in ToSet(s) /\ x # Head(s)
      <3>1. PICK i \in 1 .. Len(s) - 1 : x = s[i + 1] /\ i + 1 \in DOMAIN s /\ i + 1 # 1
        BY <1>1, <1>2, <1>3, <2>1 DEF ToSet
      <3>2. s[i + 1] # s[1]
        BY <1>4, <3>1 DEF Distinct
      <3> QED
        BY <1>1, <3>1, <3>2 DEF ToSet
    <2>2. ASSUME x \in ToSet(s), x # Head(s)
          PROVE  x \in ToSet(Tail(s))
      <3>1. PICK i \in DOMAIN s : x = s[i] /\ i # 1
        BY <1>1, <2>2 DEF ToSet
      <3>2. PICK j \in 1 .. Len(s) - 1 : i = j + 1
        BY <1>6, <3>1
      <3>3. x = Tail(s)[j] /\ j \in DOMAIN Tail(s)
        BY <1>1, <1>2, <3>1, <3>2
      <3> QED
        BY <3>3 DEF ToSet
    <2> QED
      BY <2>1, <2>2
  <1> QED
    BY <1>1, <1>2, <1>3, <1>4, <1>5, <1>7 DEF ToSet

(* All of the steps of a creation, of a destroy and of an error path.      *)
LEMMA Lists ==
    /\ CreateSteps \in Seq(StepName) /\ Distinct(CreateSteps)
    /\ \A o \in Obj : o \in ToSet(CreateSteps)
    /\ DestroySteps \in Seq(StepName) /\ Distinct(DestroySteps)
    /\ \A o \in Obj : o \in ToSet(DestroySteps)
    /\ \A i \in DOMAIN DestroySteps :
          DestroySteps[i] = "context" => i = Len(DestroySteps)
  <1>1. CASE creator = "hw"
    <2>1. /\ CreateSteps = <<"context", "bios", "reg", "atom", "add">>
          /\ DestroySteps = <<"bios", "reg", "atom", "adapdata", "del", "context">>
          /\ Obj = {"context", "bios", "reg", "atom"}
      BY <1>1 DEF CreateSteps, DestroySteps, Obj
    <2>2. CreateSteps \in Seq(StepName) /\ DestroySteps \in Seq(StepName)
      BY Steps
    <2>3. Distinct(CreateSteps) /\ Distinct(DestroySteps)
      BY <2>1 DEF Distinct
    <2>4. \A o \in Obj : o \in ToSet(CreateSteps) /\ o \in ToSet(DestroySteps)
      BY <2>1 DEF ToSet
    <2>5. \A i \in DOMAIN DestroySteps :
            DestroySteps[i] = "context" => i = Len(DestroySteps)
      BY <2>1
    <2> QED
      BY <2>2, <2>3, <2>4, <2>5
  <1>2. CASE creator # "hw"
    <2>1. /\ CreateSteps = <<"context", "reg", "add">>
          /\ DestroySteps = <<"del", "reg", "context">>
          /\ Obj = {"context", "reg"}
      BY <1>2 DEF CreateSteps, DestroySteps, Obj
    <2>2. CreateSteps \in Seq(StepName) /\ DestroySteps \in Seq(StepName)
      BY Steps
    <2>3. Distinct(CreateSteps) /\ Distinct(DestroySteps)
      BY <2>1 DEF Distinct
    <2>4. \A o \in Obj : o \in ToSet(CreateSteps) /\ o \in ToSet(DestroySteps)
      BY <2>1 DEF ToSet
    <2>5. \A i \in DOMAIN DestroySteps :
            DestroySteps[i] = "context" => i = Len(DestroySteps)
      BY <2>1
    <2> QED
      BY <2>2, <2>3, <2>4, <2>5
  <1> QED
    BY <1>1, <1>2

(* The error path of a creation step is a part of a destroy.               *)
LEMMA UndoList ==
    ASSUME NEW s \in Obj \cup {"add"}
    PROVE  /\ UndoAfter(s) \in Seq(StepName) /\ Distinct(UndoAfter(s))
           /\ \A i \in DOMAIN UndoAfter(s) :
                 UndoAfter(s)[i] = "context" => i = Len(UndoAfter(s))
  <1>1. s \in {"context", "bios", "reg", "atom", "add"}
    BY DEF Obj
  <1>2. UndoAfter(s) \in {<<>>, <<"context">>, <<"bios", "context">>,
                          <<"bios", "reg", "atom", "context">>, <<"reg", "context">>}
    BY <1>1 DEF UndoAfter
  <1>3. creator # "hw" => UndoAfter(s) \in {<<>>, <<"context">>, <<"reg", "context">>}
    BY <1>1 DEF UndoAfter, Obj
  <1>4. UndoAfter(s) \in Seq(StepName)
    <2>1. CASE creator = "hw"
      <3>1. {"context", "bios", "reg", "atom"} \subseteq StepName
        BY <2>1 DEF StepName, Obj
      <3>2. /\ <<>> \in Seq(StepName) /\ <<"context">> \in Seq(StepName)
            /\ <<"bios", "context">> \in Seq(StepName)
            /\ <<"reg", "context">> \in Seq(StepName)
            /\ <<"bios", "reg", "atom", "context">> \in Seq(StepName)
        BY <3>1
      <3> QED
        BY <1>2, <3>2
    <2>2. CASE creator # "hw"
      <3>1. {"context", "reg"} \subseteq StepName
        BY <2>2 DEF StepName, Obj
      <3>2. /\ <<>> \in Seq(StepName) /\ <<"context">> \in Seq(StepName)
            /\ <<"reg", "context">> \in Seq(StepName)
        BY <3>1
      <3> QED
        BY <1>3, <2>2, <3>2
    <2> QED
      BY <2>1, <2>2
  <1>5. Distinct(UndoAfter(s))
    BY <1>2 DEF Distinct
  <1> DEFINE ContextLast(u) == \A i \in DOMAIN u : u[i] = "context" => i = Len(u)
  <1>6. ContextLast(UndoAfter(s))
    <2>1. /\ ContextLast(<<>>) /\ ContextLast(<<"context">>)
          /\ ContextLast(<<"bios", "context">>) /\ ContextLast(<<"reg", "context">>)
      OBVIOUS
    <2>2. ContextLast(<<"bios", "reg", "atom", "context">>)
      OBVIOUS
    <2> HIDE DEF ContextLast
    <2> QED
      BY <1>2, <2>1, <2>2
  <1> QED
    BY <1>4, <1>5, <1>6

(* A step is in the rest of the steps from any one before it.              *)
LEMMA InRest ==
    ASSUME NEW S, NEW s \in Seq(S), NEW k \in 1 .. Len(s), NEW i \in k .. Len(s)
    PROVE  s[i] \in ToSet(SubSeq(s, k, Len(s)))
  <1>1. Len(s) \in Nat /\ k \in Nat /\ i \in Nat
    BY LenProperties
  <1>2. \A j \in k .. Len(s) : s[j] \in S
    BY <1>1, ElementOfSeq
  <1> DEFINE r == SubSeq(s, k, Len(s))
  <1>3. /\ r \in Seq(S) /\ Len(r) = Len(s) - k + 1
        /\ \A j \in 1 .. Len(s) - k + 1 : r[j] = s[k + j - 1]
    BY <1>1, <1>2, SubSeqProperties
  <1> HIDE DEF r
  <1>4. DOMAIN r = 1 .. Len(s) - k + 1
    BY <1>3, LenProperties
  <1>5. i - k + 1 \in 1 .. Len(s) - k + 1 /\ k + (i - k + 1) - 1 = i
    BY <1>1
  <1>6. r[i - k + 1] = s[i] /\ i - k + 1 \in DOMAIN r
    BY <1>3, <1>4, <1>5
  <1> QED
    BY <1>6 DEF ToSet, r

(* The error path of a creation step frees what has been allocated, except *)
(* that of atom_parse.                                                     *)
LEMMA UndoFrees ==
    ASSUME IInv, Account, phase = "create"
    PROVE  /\ Head(todo) \in Obj \cup {"add"}
           /\ \/ \A o \in Obj : <<card, o>> \in live <=> o \in ToSet(UndoAfter(Head(todo)))
              \/ /\ creator = "hw" /\ Head(todo) = "atom"
                 /\ UndoAfter(Head(todo)) = <<"context">>
                 /\ \A o \in Obj : <<card, o>> \in live <=> o # "atom"
  <1> DEFINE C == CreateSteps
  <1>1. PICK k \in 1 .. Len(C) :
          /\ todo = SubSeq(C, k, Len(C))
          /\ \A i \in 1 .. k - 1 : <<card, C[i]>> \in live
    BY DEF IInv, Progress
  <1>2. C \in Seq(StepName) /\ Len(C) \in Nat \ {0} /\ k \in Nat
    BY Steps
  <1> HIDE DEF C
  <1>3. k \in 1 .. Len(C) + 1 /\ k # Len(C) + 1
    BY <1>2
  <1>4. Head(todo) = C[k]
    BY <1>1, <1>2, <1>3, Rest
  <1>5. \A i \in k .. Len(C) : C[i] \in ToSet(todo)
    BY <1>1, <1>2, InRest
  <1>6. \A o \in Obj : <<card, o>> \in live <=> o \notin ToSet(todo)
    BY DEF Account, Exact
  <1>7. \A i \in 1 .. Len(C) : C[i] \in Obj => (<<card, C[i]>> \in live <=> i < k)
    <2>1. ASSUME NEW i \in 1 .. Len(C), C[i] \in Obj
          PROVE  <<card, C[i]>> \in live <=> i < k
      <3>1. CASE i < k
        <4>1. i \in 1 .. k - 1
          BY <1>2, <3>1
        <4> QED
          BY <1>1, <3>1, <4>1
      <3>2. CASE ~ (i < k)
        <4>1. i \in k .. Len(C)
          BY <1>2, <3>2
        <4> QED
          BY <1>5, <1>6, <2>1, <3>2, <4>1
      <3> QED
        BY <3>1, <3>2
    <2> QED
      BY <2>1
  <1>8. CASE creator = "hw"
    <2>1. /\ C = <<"context", "bios", "reg", "atom", "add">>
          /\ Obj = {"context", "bios", "reg", "atom"}
      BY <1>8 DEF C, CreateSteps, Obj
    <2>2. Len(C) = 5 /\ C[1] = "context" /\ C[2] = "bios" /\ C[3] = "reg"
          /\ C[4] = "atom" /\ C[5] = "add"
      BY <2>1
    <2>3. /\ <<card, "context">> \in live <=> 1 < k
          /\ <<card, "bios">> \in live <=> 2 < k
          /\ <<card, "reg">> \in live <=> 3 < k
          /\ <<card, "atom">> \in live <=> 4 < k
      BY <1>7, <2>1, <2>2
    <2>4. k = 1 \/ k = 2 \/ k = 3 \/ k = 4 \/ k = 5
      BY <1>3, <2>2
    <2>5. CASE k = 1
      <3>1. UndoAfter(Head(todo)) = <<>>
        BY <1>4, <2>2, <2>5 DEF UndoAfter
      <3>2. ToSet(UndoAfter(Head(todo))) = {}
        BY <3>1 DEF ToSet
      <3> QED
        BY <1>4, <2>1, <2>2, <2>3, <2>5, <3>2
    <2>6. CASE k = 2
      <3>1. UndoAfter(Head(todo)) = <<"context">>
        BY <1>4, <2>2, <2>6 DEF UndoAfter
      <3>2. ToSet(UndoAfter(Head(todo))) = {"context"}
        BY <3>1 DEF ToSet
      <3> QED
        BY <1>4, <2>1, <2>2, <2>3, <2>6, <3>2
    <2>7. CASE k = 3
      <3>1. UndoAfter(Head(todo)) = <<"bios", "context">>
        BY <1>4, <1>8, <2>2, <2>7 DEF UndoAfter
      <3>2. ToSet(UndoAfter(Head(todo))) = {"bios", "context"}
        BY <3>1 DEF ToSet
      <3> QED
        BY <1>4, <2>1, <2>2, <2>3, <2>7, <3>2
    <2>8. CASE k = 4
      <3>1. UndoAfter(Head(todo)) = <<"context">>
        BY <1>4, <2>2, <2>8 DEF UndoAfter
      <3> QED
        BY <1>4, <1>8, <2>1, <2>2, <2>3, <2>8, <3>1
    <2>9. CASE k = 5
      <3>1. UndoAfter(Head(todo)) = <<"bios", "reg", "atom", "context">>
        BY <1>4, <1>8, <2>2, <2>9 DEF UndoAfter
      <3>2. ToSet(UndoAfter(Head(todo))) = {"bios", "reg", "atom", "context"}
        BY <3>1 DEF ToSet
      <3> QED
        BY <1>4, <2>1, <2>2, <2>3, <2>9, <3>2
    <2> QED
      BY <2>4, <2>5, <2>6, <2>7, <2>8, <2>9
  <1>9. CASE creator # "hw"
    <2>1. /\ C = <<"context", "reg", "add">>
          /\ Obj = {"context", "reg"}
      BY <1>9 DEF C, CreateSteps, Obj
    <2>2. Len(C) = 3 /\ C[1] = "context" /\ C[2] = "reg" /\ C[3] = "add"
      BY <2>1
    <2>3. /\ <<card, "context">> \in live <=> 1 < k
          /\ <<card, "reg">> \in live <=> 2 < k
      BY <1>7, <2>1, <2>2
    <2>4. k = 1 \/ k = 2 \/ k = 3
      BY <1>3, <2>2
    <2>5. CASE k = 1
      <3>1. UndoAfter(Head(todo)) = <<>>
        BY <1>4, <2>2, <2>5 DEF UndoAfter
      <3>2. ToSet(UndoAfter(Head(todo))) = {}
        BY <3>1 DEF ToSet
      <3> QED
        BY <1>4, <2>1, <2>2, <2>3, <2>5, <3>2
    <2>6. CASE k = 2
      <3>1. UndoAfter(Head(todo)) = <<"context">>
        BY <1>4, <1>9, <2>2, <2>6 DEF UndoAfter
      <3>2. ToSet(UndoAfter(Head(todo))) = {"context"}
        BY <3>1 DEF ToSet
      <3> QED
        BY <1>4, <2>1, <2>2, <2>3, <2>6, <3>2
    <2>7. CASE k = 3
      <3>1. UndoAfter(Head(todo)) = <<"reg", "context">>
        BY <1>4, <1>9, <2>2, <2>7 DEF UndoAfter
      <3>2. ToSet(UndoAfter(Head(todo))) = {"reg", "context"}
        BY <3>1 DEF ToSet
      <3> QED
        BY <1>4, <2>1, <2>2, <2>3, <2>7, <3>2
    <2> QED
      BY <2>4, <2>5, <2>6, <2>7
  <1> QED
    BY <1>8, <1>9

-----------------------------------------------------------------------------
(* While a card is being created there is a step to do.                    *)
LEMMA CreateGoesOn ==
    ASSUME Progress, phase = "create"
    PROVE  todo # <<>>
  <1> DEFINE C == CreateSteps
  <1>1. PICK k \in 1 .. Len(C) : todo = SubSeq(C, k, Len(C))
    BY DEF Progress
  <1>2. C \in Seq(StepName) /\ Len(C) \in Nat \ {0}
    BY Steps
  <1> HIDE DEF C
  <1>3. k \in 1 .. Len(C) + 1 /\ k # Len(C) + 1
    BY <1>2
  <1> QED
    BY <1>1, <1>2, <1>3, Rest

(* The card being created has not been made.                               *)
LEMMA CardIsNew ==
    Shape /\ Order /\ phase \in {"create", "undo"} =>
        card \in Card /\ card \notin ToSet(made)
  <1> SUFFICES ASSUME Shape, Order, phase \in {"create", "undo"}
               PROVE  card \in Card /\ card \notin ToSet(made)
    OBVIOUS
  <1>1. /\ \A i \in DOMAIN made : made[i] < card /\ made[i] \in Nat
        /\ card \in Card /\ card \in Nat
        /\ ToSet(made) = {made[i] : i \in DOMAIN made}
    BY Made DEF Order, Shape
  <1>2. \A i \in DOMAIN made : made[i] # card
    BY <1>1
  <1> QED
    BY <1>1, <1>2

(* There is nothing before the first load.                                 *)
LEMMA AccountInit == Init => Account
  <1> SUFFICES ASSUME Init PROVE Account
    OBVIOUS
  <1>1. /\ made = <<>> /\ todo = <<>> /\ DOMAIN made = {} /\ DOMAIN todo = {}
        /\ todo \in Seq(StepName) /\ phase = "unloaded" /\ live = {} /\ card = NoCard
        /\ orphan = {} /\ adapdata = {} /\ lost = FALSE
    BY EmptySeq DEF Init
  <1>2. Remaining
    BY <1>1 DEF Remaining, Distinct
  <1>3. Found /\ Known /\ Exact /\ Orphaned
    BY <1>1 DEF Found, Known, Exact, Orphaned, Ending
  <1> QED
    BY <1>2, <1>3 DEF Account

(* The search changes what is looked at, and what is to be done.           *)
LEMMA AccountLooks ==
    ASSUME IInv, IInv', Account, Load \/ FindCard \/ FindEnds
    PROVE  Account'
  <1>0. /\ Shape /\ Order /\ Shape' /\ Order'
        /\ Remaining /\ Found /\ Known /\ Exact /\ Orphaned
    BY DEF IInv, Account
  <1>1. /\ UNCHANGED <<creator, live, orphan, core, adapdata, made, lost>>
        /\ phase \in {"unloaded", "find"}
        /\ phase' \in {"find", "create", "loaded"}
        /\ UNCHANGED <<Obj, StepName>>
    BY DEF Load, FindCard, FindEnds, Users, Obj, StepName
  <1>2. /\ phase' = "create" => todo' = CreateSteps /\ phase = "find"
        /\ phase' # "create" => todo' = todo
    BY DEF Load, FindCard, FindEnds
  <1>3. Remaining'
    BY <1>0, <1>1, <1>2, Lists DEF Remaining
  <1>4. Found'
    <2>1. CASE Load
      BY <1>0, <1>1, <2>1 DEF Load, Found
    <2>2. CASE FindEnds
      BY <1>0, <1>1, <2>2 DEF FindEnds, Found
    <2>3. CASE FindCard
      <3>1. /\ card' \in Match /\ card' \in Card /\ phase' = "create"
            /\ \A d \in SearchOn : card' <= d
        BY <2>3, CardAssumption DEF FindCard, SearchOn
      <3>2. creator = "hw" => \A d \in Match : d \in SearchOn
        BY <1>0, <1>1, <2>3, CardAssumption DEF Found, SearchOn, FindCard, Card
      <3> QED
        BY <1>1, <3>1, <3>2 DEF Found, First
    <2> QED
      BY <2>1, <2>2, <2>3
  <1>5. Known'
    BY <1>0, <1>1 DEF Known, Ending
  <1>6. Exact'
    <2>1. live \subseteq Card \X Obj /\ \A x \in live : x[1] \in ToSet(made)
      BY <1>0, <1>1 DEF Exact
    <2>2. ASSUME phase' = "create", NEW o \in Obj
          PROVE  <<card', o>> \notin live /\ o \in ToSet(todo')
      <3>1. card' \notin ToSet(made')
        <4>1. (Shape /\ Order /\ phase \in {"create", "undo"} =>
                  card \in Card /\ card \notin ToSet(made))'
          BY CardIsNew, PTL
        <4> QED
          BY <1>0, <2>2, <4>1
      <3>2. \A x \in live : x[1] # card'
        BY <1>1, <2>1, <3>1
      <3> QED
        BY <1>2, <2>2, <3>2, Lists
    <2>3. ~ Ending'
      BY <1>1 DEF Ending
    <2>4. (\A x \in live : x[1] \in ToSet(made))'
      BY <1>1, <2>1
    <2> QED
      BY <1>1, <2>1, <2>2, <2>3, <2>4 DEF Exact
  <1>7. Orphaned'
    BY <1>0, <1>1 DEF Orphaned
  <1> QED
    BY <1>3, <1>4, <1>5, <1>6, <1>7 DEF Account

(* A failed step leaves to the error path what it has to free.             *)
LEMMA AccountFails ==
    ASSUME IInv, Account, CreateFails
    PROVE  Account'
  <1>0. Remaining /\ Found /\ Known /\ Exact /\ Orphaned
    BY DEF Account
  <1> DEFINE s == Head(todo)
  <1>1. /\ phase = "create" /\ phase' = "undo"
        /\ todo' = UndoAfter(s)
        /\ lost' = (lost \/ s = "atom")
        /\ UNCHANGED <<creator, card, live, orphan, core, adapdata, made>>
        /\ UNCHANGED <<Obj, StepName>>
    BY DEF CreateFails, Users, Obj, StepName
  <1>2. /\ s \in Obj \cup {"add"}
        /\ \/ \A o \in Obj : <<card, o>> \in live <=> o \in ToSet(UndoAfter(s))
           \/ /\ creator = "hw" /\ s = "atom"
              /\ UndoAfter(s) = <<"context">>
              /\ \A o \in Obj : <<card, o>> \in live <=> o # "atom"
    BY <1>1, UndoFrees
  <1> HIDE DEF s
  <1>3. Remaining'
    <2>1. /\ UndoAfter(s) \in Seq(StepName) /\ Distinct(UndoAfter(s))
          /\ \A i \in DOMAIN UndoAfter(s) :
                UndoAfter(s)[i] = "context" => i = Len(UndoAfter(s))
      BY <1>2, UndoList
    <2> QED
      BY <1>1, <2>1 DEF Remaining
  <1>4. Found' /\ Known'
    BY <1>0, <1>1 DEF Found, Known, Ending
  <1>5. Exact'
    <2>1. \A x \in live' : \/ x[1] \in ToSet(made')
                           \/ phase' \in {"create", "undo"} /\ x[1] = card'
      BY <1>0, <1>1 DEF Exact
    <2>2. (\/ \A o \in Obj : <<card, o>> \in live <=> o \in ToSet(todo)
           \/ /\ creator = "hw" /\ lost /\ todo = <<"context">>
              /\ \A o \in Obj : <<card, o>> \in live <=> o # "atom")'
      BY <1>1, <1>2
    <2> QED
      BY <1>0, <1>1, <2>1, <2>2 DEF Exact, Ending
  <1>6. Orphaned'
    BY <1>0, <1>1 DEF Orphaned
  <1> QED
    BY <1>3, <1>4, <1>5, <1>6 DEF Account

(* What has been allocated needs not be allocated any more.                *)
LEMMA AccountAllocate ==
    ASSUME IInv, Account, Allocate
    PROVE  Account'
  <1>0. Shape /\ Order /\ Progress /\ Remaining /\ Found /\ Known /\ Exact /\ Orphaned
    BY DEF IInv, Account
  <1> DEFINE s == Head(todo)
  <1>1. /\ phase = "create" /\ s \in Obj
        /\ live' = live \cup {<<card, s>>}
        /\ todo' = Tail(todo)
        /\ UNCHANGED <<creator, phase, card, orphan, core, adapdata, made, lost>>
        /\ UNCHANGED <<Obj, StepName>>
    BY DEF Allocate, Users, Obj, StepName
  <1>2. todo \in Seq(StepName) /\ Distinct(todo) /\ todo # <<>> /\ card \in Card
    BY <1>0, <1>1, CreateGoesOn, CardIsNew DEF Remaining
  <1>3. /\ todo' \in Seq(StepName) /\ Distinct(todo')
        /\ s \in ToSet(todo)
        /\ \A x : x \in ToSet(todo') <=> x \in ToSet(todo) /\ x # s
    BY <1>1, <1>2, AfterFirst
  <1> HIDE DEF s
  <1>4. Remaining' /\ Found' /\ Known' /\ Orphaned'
    BY <1>0, <1>1, <1>3 DEF Remaining, Found, Known, Ending, Orphaned
  <1>5. \A o \in Obj : <<card, o>> \in live' <=> o \notin ToSet(todo')
    <2>1. \A o \in Obj : <<card, o>> \in live <=> o \notin ToSet(todo)
      BY <1>0, <1>1 DEF Exact
    <2> QED
      BY <1>1, <1>3, <2>1
  <1>6. Exact'
    BY <1>0, <1>1, <1>2, <1>5 DEF Exact, Ending
  <1> QED
    BY <1>4, <1>6 DEF Account

(* What is registered is complete, and the core knows it.                  *)
LEMMA AccountRegister ==
    ASSUME IInv, IInv', Account, Register
    PROVE  Account'
  <1>0. /\ Shape /\ Order /\ Remaining /\ Found /\ Known /\ Exact /\ Orphaned
    BY DEF IInv, Account
  <1> DEFINE n == Len(made)
  <1>1. /\ phase = "create"
        /\ adapdata' = adapdata \cup {card}
        /\ core' = core \cup {card}
        /\ made' = Append(made, card)
        /\ phase' \in {"loaded", "find"}
        /\ creator = "hw" => phase' = "loaded"
        /\ todo' = <<>>
        /\ UNCHANGED <<creator, card, live, orphan, lost>>
        /\ UNCHANGED <<Obj, StepName>>
    BY DEF Register, Users, Enough, Obj, StepName
  <1>2. /\ n \in Nat /\ DOMAIN made = 1 .. n /\ made \in Seq(Card)
        /\ ToSet(made) = {made[i] : i \in DOMAIN made}
        /\ card \in Card
    BY <1>0, <1>1, Made DEF Order, Shape
  <1>3. /\ \A i \in 1 .. n : made'[i] = made[i]
        /\ made'[n + 1] = card
        /\ DOMAIN made' = 1 .. n + 1
    BY <1>1, <1>2, AppendProperties, LenProperties
  <1>4. \A i : i \in 1 .. n + 1 <=> i \in 1 .. n \/ i = n + 1
    BY <1>2
  <1>5. \A c : c \in ToSet(made') <=> c \in ToSet(made) \cup {card}
    BY <1>2, <1>3, <1>4 DEF ToSet
  <1>6. Remaining'
    <2>1. DOMAIN <<>> = {} /\ <<>> \in Seq(StepName)
      OBVIOUS
    <2> QED
      BY <1>1, <2>1 DEF Remaining, Distinct
  <1>7. Found'
    BY <1>0, <1>1 DEF Found
  <1>8. Known'
    <2>1. \A i \in 1 .. n : made[i] \in core
      BY <1>0, <1>1, <1>2 DEF Known, Ending
    <2>2. \A i \in 1 .. n + 1 : made'[i] \in core'
      BY <1>1, <1>3, <1>4, <2>1
    <2> QED
      BY <1>0, <1>1, <1>2, <1>3, <2>2 DEF Known
  <1>9. Exact'
    <2>1. \A x \in live : x[1] \in ToSet(made')
      BY <1>0, <1>1, <1>5 DEF Exact
    <2> QED
      BY <1>0, <1>1, <2>1 DEF Exact, Ending
  <1>10. Orphaned'
    BY <1>0, <1>1 DEF Orphaned
  <1> QED
    BY <1>6, <1>7, <1>8, <1>9, <1>10 DEF Account

(* A destroy that begins has all of the last adapter to free.              *)
LEMMA AccountBegins ==
    ASSUME IInv, IInv', Account, UndoEnds \/ Unload
    PROVE  Account'
  <1>0. /\ Shape /\ Order /\ Complete /\ Remaining /\ Found /\ Known /\ Exact /\ Orphaned
    BY DEF IInv, Account
  <1>1. /\ UNCHANGED <<creator, card, live, orphan, core, adapdata, made, lost>>
        /\ UNCHANGED <<Obj, StepName, DestroySteps>>
        /\ phase \in {"undo", "loaded"}
        /\ phase = "undo" => todo = <<>>
        /\ phase' \in {"find", "rollback", "loaded", "destroy"}
        /\ phase' = "find" => creator # "hw"
        /\ phase' = "rollback" => made # <<>>
        /\ todo' \in {<<>>, DestroySteps}
        /\ phase' \in {"rollback", "destroy"} =>
              todo' = IF made = <<>> THEN <<>> ELSE DestroySteps
    BY DEF UndoEnds, AfterUndo, Unload, Users, Obj, StepName, DestroySteps
  <1>2. ~ Ending
    BY <1>1 DEF Ending
  <1>3. /\ <<>> \in Seq(StepName) /\ DOMAIN <<>> = {}
        /\ DestroySteps \in Seq(StepName) /\ Distinct(DestroySteps)
        /\ \A o \in Obj : o \in ToSet(DestroySteps)
        /\ \A i \in DOMAIN DestroySteps :
              DestroySteps[i] = "context" => i = Len(DestroySteps)
    BY Lists
  <1>4. Remaining'
    <2>1. CASE todo' = <<>>
      BY <1>1, <1>3, <2>1 DEF Remaining, Distinct
    <2>2. CASE todo' = DestroySteps
      <3>1. phase' \in {"rollback", "destroy"} /\ made = <<>> => todo' = <<>>
        BY <1>1
      <3> QED
        BY <1>1, <1>3, <2>2, <3>1 DEF Remaining
    <2> QED
      BY <1>1, <2>1, <2>2
  <1>5. Found'
    BY <1>0, <1>1 DEF Found
  <1>6. Known'
    BY <1>0, <1>1, <1>2 DEF Known
  <1>7. Exact'
    <2>1. \A x \in live : x[1] \in ToSet(made)
      <3>1. phase = "undo" => \A o \in Obj : <<card, o>> \notin live
        <4>1. ToSet(<<>>) = {} /\ <<>> # <<"context">>
          BY <1>3 DEF ToSet
        <4> QED
          BY <1>0, <1>1, <4>1 DEF Exact
      <3>2. \A x \in live : x \in Card \X Obj
        BY <1>0 DEF Exact
      <3>3. \A x \in live : x = <<x[1], x[2]>> /\ x[2] \in Obj
        BY <3>2
      <3> QED
        BY <1>0, <1>1, <3>1, <3>3 DEF Exact
    <2>2. ASSUME Ending', NEW o \in Obj
          PROVE  <<Last(made), o>> \in live /\ o \in ToSet(todo')
      <3>1. made # <<>> /\ todo' = DestroySteps
        BY <1>1, <2>2 DEF Ending
      <3>2. Last(made) \in Whole
        BY <1>0, <1>2, <3>1, Made DEF Complete
      <3> QED
        BY <1>3, <3>1, <3>2 DEF Whole
    <2>3. (\A x \in live : x[1] \in ToSet(made))'
      BY <1>1, <2>1
    <2> QED
      BY <1>0, <1>1, <2>2, <2>3 DEF Exact
  <1>8. Orphaned'
    BY <1>0, <1>1 DEF Orphaned
  <1> QED
    BY <1>4, <1>5, <1>6, <1>7, <1>8 DEF Account

(* The card whose steps are done is the one to be undone, or the last made *)
(* one, and the others are not its.                                        *)
LEMMA TargetIs ==
    ASSUME IInv, Account, phase \in {"undo", "rollback", "destroy"}, todo # <<>>
    PROVE  /\ phase = "undo" => Target = card
           /\ phase # "undo" => Ending /\ Target = Last(made)
           /\ Target \in Card
           /\ \A i \in DOMAIN made : (Ending => i # Len(made)) => made[i] # Target
  <1>0. /\ Shape /\ Order /\ Remaining
    BY DEF IInv, Account
  <1>1. CASE phase = "undo"
    <2>1. Target = card /\ ~ Ending
      BY <1>1 DEF Target, Ending
    <2>2. card \in Card /\ card \notin ToSet(made) /\ ToSet(made) = {made[i] : i \in DOMAIN made}
      BY <1>0, <1>1, CardIsNew, Made
    <2> QED
      BY <1>1, <2>1, <2>2
  <1>2. CASE phase # "undo"
    <2>1. Ending /\ Target = Last(made) /\ made # <<>>
      BY <1>0, <1>2 DEF Target, Ending, Remaining
    <2>2. Last(made) \in Card
      BY <1>0, <2>1, Made
    <2>3. \A i \in DOMAIN made : i # Len(made) => made[i] # Last(made)
      BY <1>0, LastIsAlone
    <2> QED
      BY <1>2, <2>1, <2>2, <2>3
  <1> QED
    BY <1>1, <1>2

(* The next step of an error path, a rollback or a destroy frees something *)
(* that is allocated; when it is the context nothing remains to be done.   *)
LEMMA NextFrees ==
    ASSUME IInv, Account, NEW o \in Obj, At(o)
    PROVE  /\ <<Target, o>> \in live
           /\ o = "context" => Tail(todo) = <<>>
           /\ \/ \A p \in Obj : <<Target, p>> \in live <=> p \in ToSet(todo)
              \/ /\ phase = "undo" /\ creator = "hw" /\ lost /\ o = "context"
                 /\ \A p \in Obj : <<Target, p>> \in live <=> p # "atom"
  <1>0. Remaining /\ Exact
    BY DEF Account
  <1>1. phase \in {"undo", "rollback", "destroy"} /\ todo # <<>> /\ Head(todo) = o
    BY DEF At
  <1>2. /\ phase = "undo" => Target = card
        /\ phase # "undo" => Ending /\ Target = Last(made)
    BY <1>1, TargetIs
  <1>3. /\ o \in ToSet(todo) /\ todo \in Seq(StepName)
        /\ Len(Tail(todo)) = Len(todo) - 1 /\ Tail(todo) \in Seq(StepName)
    BY <1>0, <1>1, AfterFirst DEF Remaining
  <1>4. \/ \A p \in Obj : <<Target, p>> \in live <=> p \in ToSet(todo)
        \/ /\ phase = "undo" /\ creator = "hw" /\ lost /\ todo = <<"context">>
           /\ \A p \in Obj : <<Target, p>> \in live <=> p # "atom"
    BY <1>0, <1>2 DEF Exact
  <1>5. todo = <<"context">> => o = "context"
    BY <1>1
  <1>6. <<Target, o>> \in live
    BY <1>3, <1>4, <1>5
  <1>7. ASSUME o = "context"
        PROVE  Tail(todo) = <<>>
    <2>1. Len(todo) \in Nat \ {0} /\ DOMAIN todo = 1 .. Len(todo) /\ todo[1] = "context"
      BY <1>1, <1>3, <1>7, LenProperties, EmptySeq, HeadTailProperties
    <2>2. 1 \in DOMAIN todo
      BY <2>1
    <2>3. 1 = Len(todo)
      BY <1>0, <1>1, <2>1, <2>2 DEF Remaining
    <2> DEFINE t == Tail(todo)
    <2>4. t \in Seq(StepName) /\ Len(t) = Len(todo) - 1
      BY <1>3
    <2> HIDE DEF t
    <2>5. t = <<>>
      BY <2>3, <2>4, EmptySeq
    <2> QED
      BY <2>5 DEF t
  <1> QED
    BY <1>4, <1>5, <1>6, <1>7

(* What a step that frees nothing leaves to be freed is what was to be.    *)
LEMMA AccountSteps ==
    ASSUME IInv, Account, ClearAdapdata \/ DelBegins \/ DelEnds
    PROVE  Account'
  <1>0. /\ Shape /\ Remaining /\ Found /\ Known /\ Exact /\ Orphaned
    BY DEF IInv, Account
  <1> DEFINE h == Head(todo)
  <1>1. /\ UNCHANGED <<creator, phase, card, live, orphan, made, lost>>
        /\ UNCHANGED <<Obj, StepName, Ending>>
        /\ adapdata' \subseteq adapdata
        /\ \A c \in core : c # Target => c \in core'
        /\ todo' \in {todo, Tail(todo)}
        /\ phase \in {"undo", "rollback", "destroy"} /\ todo # <<>>
        /\ h \in {"adapdata", "del"}
    BY DEF ClearAdapdata, DelBegins, DelEnds, At, Users, Obj, StepName, Ending
  <1>2. h \notin Obj /\ h # "context"
    BY <1>1 DEF Obj
  <1>3. /\ Tail(todo) \in Seq(StepName) /\ Distinct(Tail(todo))
        /\ \A x : x \in ToSet(Tail(todo)) <=> x \in ToSet(todo) /\ x # h
        /\ Len(Tail(todo)) = Len(todo) - 1
        /\ \A i \in DOMAIN Tail(todo) : i + 1 \in DOMAIN todo /\ Tail(todo)[i] = todo[i + 1]
    BY <1>0, <1>1, AfterFirst DEF Remaining
  <1>4. todo # <<"context">>
    BY <1>2
  <1> HIDE DEF h
  <1>5. Remaining'
    <2>1. CASE todo' = todo
      BY <1>0, <1>1, <2>1 DEF Remaining
    <2>2. CASE todo' = Tail(todo)
      <3>1. \A i \in DOMAIN todo' : todo'[i] = "context" => i = Len(todo')
        <4>1. ASSUME NEW i \in DOMAIN todo', todo'[i] = "context"
              PROVE  i = Len(todo')
          <5>1. i + 1 \in DOMAIN todo /\ todo[i + 1] = "context"
            BY <1>3, <2>2, <4>1
          <5>2. i + 1 = Len(todo) /\ DOMAIN todo' = 1 .. Len(todo') /\ i \in Int
            BY <1>0, <1>1, <1>3, <2>2, <5>1, LenProperties DEF Remaining
          <5>3. Len(todo') = Len(todo) - 1
            BY <1>3, <2>2
          <5> QED
            BY <5>2, <5>3
        <4> QED
          BY <4>1
      <3>2. made # <<>> \/ phase' = "undo"
        BY <1>0, <1>1 DEF Remaining
      <3> QED
        BY <1>1, <1>3, <2>2, <3>1, <3>2 DEF Remaining
    <2> QED
      BY <1>1, <2>1, <2>2
  <1>6. Found' /\ Orphaned'
    BY <1>0, <1>1 DEF Found, Orphaned
  <1>7. Known'
    <2>1. \A i \in DOMAIN made : (Ending => i # Len(made)) => made[i] # Target
      BY <1>1, TargetIs
    <2> QED
      BY <1>0, <1>1, <2>1 DEF Known
  <1>8. Exact'
    <2>1. \A o \in Obj : o \in ToSet(todo') <=> o \in ToSet(todo)
      BY <1>1, <1>2, <1>3
    <2> QED
      BY <1>0, <1>1, <1>4, <2>1 DEF Exact
  <1> QED
    BY <1>5, <1>6, <1>7, <1>8 DEF Account

(* What is freed is not to be freed again; the context takes along what is *)
(* not to be freed.                                                        *)
LEMMA AccountFree ==
    ASSUME IInv, Account, Free
    PROVE  Account'
  <1>0. /\ Shape /\ Order /\ Remaining /\ Found /\ Known /\ Exact /\ Orphaned
    BY DEF IInv, Account
  <1>1. PICK o \in Obj : At(o) /\ Release(o)
    BY DEF Free
  <1>2. /\ UNCHANGED <<creator, phase, card, core, adapdata, made, lost>>
        /\ UNCHANGED <<Obj, StepName, Ending>>
        /\ todo' = Tail(todo)
        /\ phase \in {"undo", "rollback", "destroy"} /\ todo # <<>> /\ Head(todo) = o
    BY <1>1 DEF Free, At, Users, Obj, StepName, Ending
  <1>3. /\ todo' \in Seq(StepName) /\ Distinct(todo')
        /\ o \in ToSet(todo)
        /\ \A x : x \in ToSet(todo') <=> x \in ToSet(todo) /\ x # o
        /\ Len(todo') = Len(todo) - 1
        /\ \A i \in DOMAIN todo' : i + 1 \in DOMAIN todo /\ todo'[i] = todo[i + 1]
    BY <1>0, <1>2, AfterFirst DEF Remaining
  <1>4. /\ phase = "undo" => Target = card
        /\ phase # "undo" => Ending /\ Target = Last(made)
        /\ Target \in Card
    BY <1>2, TargetIs
  <1>5. /\ <<Target, o>> \in live
        /\ o = "context" => todo' = <<>>
        /\ \/ \A p \in Obj : <<Target, p>> \in live <=> p \in ToSet(todo)
           \/ /\ phase = "undo" /\ creator = "hw" /\ lost /\ o = "context"
              /\ \A p \in Obj : <<Target, p>> \in live <=> p # "atom"
    BY <1>1, <1>2, NextFrees
  <1>6. /\ live' \subseteq live
        /\ o = "context" => \A p \in Obj : <<Target, p>> \notin live'
        /\ o # "context" => live' = live \ {<<Target, o>>}
    <2>1. \A p : <<Target, p>>[1] = Target
      OBVIOUS
    <2> QED
      BY <1>1, <2>1 DEF Release
  <1>7. Remaining'
    <2>1. \A i \in DOMAIN todo' : todo'[i] = "context" => i = Len(todo')
      <3>1. ASSUME NEW i \in DOMAIN todo', todo'[i] = "context"
            PROVE  i = Len(todo')
        <4>1. i + 1 \in DOMAIN todo /\ todo[i + 1] = "context"
          BY <1>3, <3>1
        <4>2. i + 1 = Len(todo) /\ DOMAIN todo' = 1 .. Len(todo') /\ i \in Int
          BY <1>0, <1>2, <1>3, <4>1, LenProperties DEF Remaining
        <4> QED
          BY <1>3, <4>2
      <3> QED
        BY <3>1
    <2>2. made # <<>> \/ phase' = "undo"
      BY <1>0, <1>2 DEF Remaining
    <2> QED
      BY <1>2, <1>3, <2>1, <2>2 DEF Remaining
  <1>8. Found' /\ Known'
    BY <1>0, <1>2 DEF Found, Known
  <1>9. \A p \in Obj : <<Target, p>> \in live' <=> p \in ToSet(todo')
    <2>1. CASE o = "context"
      <3>1. ToSet(todo') = {}
        <4>1. DOMAIN <<>> = {}
          OBVIOUS
        <4> QED
          BY <1>5, <2>1, <4>1 DEF ToSet
      <3> QED
        BY <1>6, <2>1, <3>1
    <2>2. CASE o # "context"
      <3>1. \A p \in Obj : <<Target, p>> \in live <=> p \in ToSet(todo)
        BY <1>5, <2>2
      <3> QED
        BY <1>3, <1>6, <2>2, <3>1
    <2> QED
      BY <2>1, <2>2
  <1>10. Exact'
    <2>1. live' \subseteq Card \X Obj
      BY <1>0, <1>6 DEF Exact
    <2>2. \A x \in live' : \/ x[1] \in ToSet(made)
                           \/ phase \in {"create", "undo"} /\ x[1] = card
      BY <1>0, <1>6 DEF Exact
    <2>3. (\A x \in live : \/ x[1] \in ToSet(made)
                           \/ phase \in {"create", "undo"} /\ x[1] = card)'
      BY <1>2, <2>2
    <2>4. CASE phase = "undo"
      <3>1. \A p \in Obj : <<card, p>> \in live' <=> p \in ToSet(todo')
        BY <1>4, <1>9, <2>4
      <3>2. ~ Ending
        BY <2>4 DEF Ending
      <3> QED
        BY <1>2, <2>1, <2>3, <2>4, <3>1, <3>2 DEF Exact
    <2>5. CASE phase # "undo"
      <3>1. \A p \in Obj : <<Last(made), p>> \in live' <=> p \in ToSet(todo')
        BY <1>4, <1>9, <2>5
      <3> QED
        BY <1>2, <2>1, <2>3, <2>5, <3>1 DEF Exact
    <2> QED
      BY <2>4, <2>5
  <1>11. Orphaned'
    <2>1. CASE o # "context"
      BY <1>0, <1>1, <1>2, <2>1 DEF Orphaned, Release
    <2>2. CASE o = "context"
      <3> DEFINE its == {x \in live : x[1] = Target}
                 more == its \ {<<Target, "context">>}
      <3>1. orphan' = orphan \cup more
        BY <1>1, <2>2 DEF Release
      <3>2. \A x \in its : x = <<Target, x[2]>> /\ x[2] \in Obj
        BY <1>0 DEF Exact
      <3>3. CASE \A p \in Obj : <<Target, p>> \in live <=> p \in ToSet(todo)
        <4>1. \A p \in Obj : p # "context" => p \notin ToSet(todo)
          <5>1. todo' = <<>> /\ DOMAIN <<>> = {}
            BY <1>5, <2>2
          <5>2. ToSet(todo') = {}
            BY <5>1 DEF ToSet
          <5> QED
            BY <1>3, <2>2, <5>2
        <4>2. more = {}
          BY <3>2, <3>3, <4>1
        <4> QED
          BY <1>0, <1>2, <3>1, <4>2 DEF Orphaned
      <3>4. CASE /\ phase = "undo" /\ creator = "hw" /\ lost
                 /\ \A p \in Obj : <<Target, p>> \in live <=> p # "atom"
        <4>1. Obj = {"context", "bios", "reg", "atom"}
          BY <3>4 DEF Obj
        <4>2. \A p : <<Target, p>>[1] = Target
          OBVIOUS
        <4>3. more = {<<Target, "bios">>, <<Target, "reg">>}
          <5>1. <<Target, "bios">> \in more /\ <<Target, "reg">> \in more
            BY <3>4, <4>1, <4>2
          <5>2. \A x \in more : x[2] \in {"bios", "reg"}
            BY <3>2, <3>4, <4>1
          <5> QED
            BY <3>2, <5>1, <5>2
        <4>4. more = {Target} \X {"bios", "reg"}
          BY <4>3
        <4>5. First(Target) /\ Target \in Match /\ Target \in Nat
          BY <1>0, <1>4, <3>4, CardAssumption DEF Found, Card
        <4>6. ASSUME NEW c \in Match, First(c)
              PROVE  c = Target
          <5>1. c <= Target /\ Target <= c /\ c \in Nat
            BY <4>5, <4>6, CardAssumption DEF First, Card
          <5> QED
            BY <4>5, <5>1
        <4>7. orphan' = {Target} \X {"bios", "reg"}
          <5>1. orphan = {} \/ orphan = {Target} \X {"bios", "reg"}
            BY <1>0, <4>6 DEF Orphaned
          <5> HIDE DEF more
          <5> QED
            BY <3>1, <4>4, <5>1
        <4>8. \E c \in Match : First(c) /\ orphan' = {c} \X {"bios", "reg"}
          BY <4>5, <4>7
        <4> QED
          BY <1>0, <1>2, <3>4, <4>8 DEF Orphaned
      <3> QED
        BY <1>5, <3>3, <3>4
    <2> QED
      BY <2>1, <2>2
  <1> QED
    BY <1>7, <1>8, <1>10, <1>11 DEF Account

(* What has been destroyed has been freed; the adapter before it is next.  *)
LEMMA AccountDestroyed ==
    ASSUME IInv, Account, Destroyed
    PROVE  Account'
  <1>0. /\ Shape /\ Order /\ Complete /\ Remaining /\ Found /\ Known /\ Exact /\ Orphaned
    BY DEF IInv, Account
  <1> DEFINE n == Len(made)
  <1>1. /\ phase \in {"rollback", "destroy"} /\ todo = <<>> /\ made # <<>>
        /\ made' = Front(made)
        /\ adapdata' \subseteq adapdata
        /\ todo' = IF made' = <<>> THEN <<>> ELSE DestroySteps
        /\ UNCHANGED <<creator, phase, card, live, orphan, core, lost>>
        /\ UNCHANGED <<Obj, StepName, DestroySteps>>
        /\ Ending
    BY DEF Destroyed, Users, Ending, Obj, StepName, DestroySteps
  <1>2. /\ n \in Nat \ {0} /\ DOMAIN made = 1 .. n
        /\ \A i \in 1 .. n - 1 : made'[i] = made[i] /\ i \in DOMAIN made /\ i # n
        /\ DOMAIN made' = 1 .. n - 1
        /\ \A c \in ToSet(made) : c # Last(made) => c \in ToSet(made')
        /\ made' # <<>> => Last(made') = made[n - 1] /\ n - 1 \in 1 .. n - 1
    BY <1>0, <1>1, AllButLast
  <1>3. /\ <<>> \in Seq(StepName) /\ DOMAIN <<>> = {}
        /\ DestroySteps \in Seq(StepName) /\ Distinct(DestroySteps)
        /\ \A o \in Obj : o \in ToSet(DestroySteps)
        /\ \A i \in DOMAIN DestroySteps :
              DestroySteps[i] = "context" => i = Len(DestroySteps)
    BY Lists
  <1> HIDE DEF n
  <1>4. Remaining'
    <2>1. CASE made' = <<>>
      BY <1>1, <1>3, <2>1 DEF Remaining, Distinct
    <2>2. CASE made' # <<>>
      BY <1>1, <1>3, <2>2 DEF Remaining
    <2> QED
      BY <2>1, <2>2
  <1>5. Found' /\ Orphaned'
    BY <1>0, <1>1 DEF Found, Orphaned
  <1>6. Known'
    <2>1. \A i \in 1 .. n - 1 : made'[i] \in core
      BY <1>0, <1>2 DEF Known, n
    <2> QED
      BY <1>0, <1>1, <1>2, <2>1 DEF Known
  <1>7. Exact'
    <2>1. \A o \in Obj : <<Last(made), o>> \notin live
      <3>1. ToSet(<<>>) = {}
        BY <1>3 DEF ToSet
      <3> QED
        BY <1>0, <1>1, <3>1 DEF Exact
    <2>2. \A x \in live : x[1] \in ToSet(made')
      <3>1. \A x \in live : x \in Card \X Obj
        BY <1>0 DEF Exact
      <3>2. \A x \in live : x = <<x[1], x[2]>> /\ x[2] \in Obj
        BY <3>1
      <3>3. \A x \in live : x[1] \in ToSet(made)
        BY <1>0, <1>1 DEF Exact
      <3>4. \A x \in live : x[1] # Last(made)
        BY <2>1, <3>2
      <3> QED
        BY <1>2, <3>3, <3>4
    <2>3. ASSUME made' # <<>>, NEW o \in Obj
          PROVE  <<Last(made'), o>> \in live /\ o \in ToSet(todo')
      <3>1. Last(made') \in Whole
        BY <1>0, <1>2, <2>3 DEF Complete, n
      <3> QED
        BY <1>1, <1>3, <2>3, <3>1 DEF Whole
    <2>4. (\A x \in live : x[1] \in ToSet(made))'
      BY <1>1, <2>2
    <2> QED
      BY <1>0, <1>1, <2>3, <2>4 DEF Exact, Ending
  <1> QED
    BY <1>4, <1>5, <1>6, <1>7 DEF Account

(* When nothing is left that was made, nothing is left.                    *)
LEMMA AccountFinish ==
    ASSUME IInv, Account, Finish
    PROVE  Account'
  <1>0. /\ Shape /\ Order /\ Remaining /\ Found /\ Known /\ Exact /\ Orphaned
    BY DEF IInv, Account
  <1>1. /\ phase \in {"rollback", "destroy"} /\ made = <<>>
        /\ phase' \in {"unloaded", "loaded"}
        /\ card' = IF phase' = "unloaded" THEN NoCard ELSE card
        /\ UNCHANGED <<creator, todo, live, orphan, core, adapdata, made, lost>>
        /\ UNCHANGED <<Obj, StepName>>
    BY DEF Finish, Users, Obj, StepName
  <1>2. Remaining' /\ Found' /\ Orphaned'
    BY <1>0, <1>1 DEF Remaining, Found, Orphaned
  <1>3. Known' /\ Exact'
    BY <1>0, <1>1 DEF Known, Exact, Ending
  <1> QED
    BY <1>2, <1>3 DEF Account

(* Users allocate and free nothing.                                        *)
LEMMA AccountUsers ==
    ASSUME Account, UNCHANGED Loading
    PROVE  Account'
  <1>0. Remaining /\ Found /\ Known /\ Exact /\ Orphaned
    BY DEF Account
  <1>1. /\ UNCHANGED <<creator, phase, card, todo, live, orphan, core, adapdata, made, lost>>
        /\ UNCHANGED <<Obj, StepName, Ending>>
    BY DEF Loading, Obj, StepName, Ending
  <1>2. Remaining' /\ Found' /\ Known' /\ Orphaned'
    BY <1>0, <1>1 DEF Remaining, Found, Known, Orphaned
  <1>3. Exact'
    BY <1>0, <1>1 DEF Exact
  <1> QED
    BY <1>2, <1>3 DEF Account

(* What is allocated is accounted for, in any order of the steps.          *)
THEOREM AccountInductive == Spec => []Account
  <1>1. ASSUME IInv, IInv', Account, [Next]_vars
        PROVE  Account'
    <2>1. CASE Load \/ Creating
      BY <1>1, <2>1, AccountLooks, AccountFails, AccountAllocate, AccountRegister DEF Creating
    <2>2. CASE Freeing \/ Unload
      BY <1>1, <2>2, AccountBegins, AccountFree, AccountSteps, AccountDestroyed,
         AccountFinish DEF Freeing
    <2>3. CASE \E u \in Holder : Close(u) \/ \E c \in Card : Open(u, c)
      BY <1>1, <2>3, AccountUsers DEF Close, Open
    <2>4. CASE \E u \in User : XferUse(u) \/ \E c \in Card : XferBegin(u, c)
      BY <1>1, <2>4, AccountUsers DEF XferUse, XferBegin
    <2>5. CASE UNCHANGED vars
      <3>1. UNCHANGED Loading
        BY <2>5 DEF vars, Loading
      <3> QED
        BY <1>1, <3>1, AccountUsers
    <2> QED
      BY <1>1, <2>1, <2>2, <2>3, <2>4, <2>5 DEF Next
  <1> QED
    BY <1>1, AccountInit, Inductive, PTL DEF Spec

(* Every variable has its type.                                            *)
THEOREM TypeTheorem == Spec => []TypeOK
  <1>1. ASSUME IInv, Account PROVE TypeOK
    <2>1. Shape /\ Remaining /\ Found /\ Known /\ Exact /\ Orphaned
      BY <1>1 DEF IInv, Account
    <2>2. core \subseteq Card
      BY <2>1, Made DEF Shape
    <2>3. orphan \subseteq Card \X Obj
      <3>1. orphan # {} => "bios" \in Obj /\ "reg" \in Obj
        BY <2>1 DEF Orphaned, Obj
      <3> QED
        BY <2>1, <3>1, CardAssumption DEF Orphaned
    <2> QED
      BY <2>1, <2>2, <2>3 DEF TypeOK, Shape, Remaining, Found, Known, Exact, Orphaned
  <1> QED
    BY <1>1, Inductive, AccountInductive, PTL

(* For any number of cards, whichever creator is used and whichever of its *)
(* steps fails at whichever card: what is registered afterwards is what    *)
(* the caller knows of, it is complete, and nothing else is allocated; and *)
(* only a failed atom_parse loses anything, the ROM copy and the mapped    *)
(* registers of one card.                                                  *)
THEOREM NothingLostTheorem == Spec => []NothingLostUnlessParse
  <1>1. ASSUME IInv, Account PROVE NothingLostUnlessParse
    <2>1. Shape /\ Complete /\ Known /\ Exact /\ Orphaned
      BY <1>1 DEF IInv, Account
    <2>2. ASSUME phase \in {"loaded", "unloaded"}
          PROVE  core = ToSet(made) /\ live = core \X Obj
      <3>1. ~ Ending
        BY <2>2 DEF Ending
      <3>2. core = ToSet(made)
        BY <2>1, <3>1, Made DEF Shape, Known
      <3>3. live \subseteq core \X Obj
        <4>1. \A x \in live : x \in Card \X Obj /\ x[1] \in core
          BY <2>1, <2>2, <3>2 DEF Exact
        <4> QED
          BY <4>1
      <3>4. core \X Obj \subseteq live
        <4>1. \A c \in core : c \in Whole
          BY <2>1, <3>1, <3>2, Made DEF Complete
        <4> QED
          BY <4>1 DEF Whole
      <3> QED
        BY <3>2, <3>3, <3>4
    <2> QED
      BY <2>1, <2>2 DEF NothingLostUnlessParse, Orphaned
  <1> QED
    BY <1>1, Inductive, AccountInductive, PTL

(* Nothing is freed that is not allocated, by an error path, a rollback or *)
(* a destroy.                                                              *)
THEOREM FreedOnceTheorem == Spec => FreedOnce
  <1>1. ASSUME IInv, Account, NEW o \in Obj, At(o)
        PROVE  <<Target, o>> \in live
    BY <1>1, NextFrees
  <1>2. IInv /\ Account =>
          \A o \in Obj : (At(o) /\ todo' = Tail(todo)) => <<Target, o>> \in live
    BY <1>1
  <1> QED
    BY <1>2, Inductive, AccountInductive, PTL DEF FreedOnce
=============================================================================
