------------------------------ MODULE Lifecycle ------------------------------
(***************************************************************************)
(* The life of the adapters: how the cards are searched, how a context and *)
(* the services it points to are created for a card, registered with the   *)
(* i2c core, used by transfers, and destroyed, with every step of the      *)
(* creation allowed to fail.                                               *)
(*                                                                         *)
(* Three functions create: "hw" is aura_i2c_bios_create (aura-gpu-hw.c),   *)
(* which main.c calls when the module is loaded; "one" and "two" are       *)
(* gpu_adapter_create and gpu_adapters_create (aura-gpu-i2c.c), for one    *)
(* and for up to two adapters on the i2c engine, whose caller here does    *)
(* with them as main.c does with its own.                                  *)
(*                                                                         *)
(* Outside src/: the PCI core, which enumerates the cards; the module      *)
(* loader, which unloads a module only when nobody holds a reference to    *)
(* it; and the i2c core.  A Holder is a user of /dev/i2c-N, whose open     *)
(* takes a reference to adapter.owner and one to the adapter.  A Bound     *)
(* user is a driver bound to a client of the bus: it takes none, and its   *)
(* transfers end only when i2c_del_adapter has removed the client.         *)
(***************************************************************************)
EXTENDS Naturals, Sequences, FiniteSets, SequencesExt

CONSTANTS
    Creator,    \* the functions that the module may create with
    Cards,      \* the number of PCI devices, enumerated from 1
    Match,      \* those that are in pciidlist
    Holder,     \* users that hold references
    Bound       \* users that do not

User == Holder \cup Bound
Card == 1 .. Cards
NoCard == 0

ASSUME CreatorAssumption == Creator \subseteq {"hw", "one", "two"}
ASSUME CardAssumption == Cards \in Nat /\ Match \subseteq Card
ASSUME UserAssumption == Holder \cap Bound = {}

VARIABLES
    creator,    \* the one that it creates with
    phase,      \* what the loader does
    card,       \* pci_dev: where the search is
    todo,       \* the steps that create or destroy still has to do
    live,       \* the objects that are allocated, each for a card
    orphan,     \* history: objects whose last pointer has been freed
    core,       \* the cards whose adapter the i2c core knows
    adapdata,   \* those whose adapter points to its context
    made,       \* the adapters created, which the creator's caller gets
    lost,       \* history: atom_parse has failed
    open,       \* the card whose device each holder has open
    using       \* the card and the objects that each transfer has yet to use

vars == <<creator, phase, card, todo, live, orphan, core, adapdata, made,
          lost, open, using>>

(* What is allocated: the context itself, the copy of the ROM, the mapped  *)
(* registers, the interpreter's context.                                   *)
Obj == IF creator = "hw" THEN {"context", "bios", "reg", "atom"}
                         ELSE {"context", "reg"}

Phase == {"unloaded", "find", "create", "undo", "rollback", "loaded", "destroy"}
StepName == Obj \cup {"add", "adapdata", "del"}

NoUse == [card |-> NoCard, objs |-> <<>>]

TypeOK ==
    /\ creator \in Creator
    /\ phase \in Phase
    /\ card \in Card \cup {NoCard}
    /\ todo \in Seq(StepName)
    /\ live \subseteq Card \X Obj
    /\ orphan \subseteq Card \X Obj
    /\ core \subseteq Card
    /\ adapdata \subseteq Card
    /\ made \in Seq(Card)
    /\ lost \in BOOLEAN
    /\ open \in [Holder -> Card \cup {NoCard}]
    /\ using \in [User -> [card : Card \cup {NoCard}, objs : Seq(Obj)]]

Init ==
    /\ creator \in Creator
    /\ phase = "unloaded"
    /\ card = NoCard
    /\ todo = <<>>
    /\ live = {}
    /\ orphan = {}
    /\ core = {}
    /\ adapdata = {}
    /\ made = <<>>
    /\ lost = FALSE
    /\ open = [u \in Holder |-> NoCard]
    /\ using = [u \in User |-> NoUse]

Users == <<open, using>>

-----------------------------------------------------------------------------
(* The creator is called (aura_module_init).                               *)
Load ==
    /\ phase = "unloaded"
    /\ phase' = "find"
    /\ UNCHANGED <<creator, card, todo, live, orphan, core, adapdata, made, lost, Users>>

(* aura_gpu_i2c_create; aura_gpu_i2c_context_create                        *)
CreateSteps ==
    IF creator = "hw" THEN <<"context", "bios", "reg", "atom", "add">>
                      ELSE <<"context", "reg", "add">>

SearchAgain == Match

(* pci_get_device(..., pci_dev) and pci_match_id: the matches to come.     *)
SearchOn == {c \in Match : c > card}

FindCard ==
    /\ phase = "find"
    /\ \E c \in SearchOn :
          /\ \A d \in SearchOn : c <= d
          /\ card' = c
    /\ phase' = "create"
    /\ todo' = CreateSteps
    /\ UNCHANGED <<creator, live, orphan, core, adapdata, made, lost, Users>>

(* No card is left: what has been made so far is the result.               *)
FindEnds ==
    /\ phase = "find"
    /\ SearchOn = {}
    /\ card' = NoCard
    /\ phase' = "loaded"
    /\ UNCHANGED <<creator, todo, live, orphan, core, adapdata, made, lost, Users>>

(* kzalloc, atom_bios_create, aura_gpu_reg_create, atom_parse              *)
Allocate ==
    /\ phase = "create"
    /\ Head(todo) \in Obj
    /\ live' = live \cup {<<card, Head(todo)>>}
    /\ todo' = Tail(todo)
    /\ UNCHANGED <<creator, phase, card, orphan, core, adapdata, made, lost, Users>>

(* i2c_adapters[found++] with if (found >= count) break                   *)
Enough == creator = "two" => Len(made') = 2

(* i2c_set_adapdata and i2c_add_adapter: transfers may come from here on,  *)
(* and the creator returns, or looks for a second card.                    *)
Register ==
    /\ phase = "create"
    /\ Head(todo) = "add"
    /\ adapdata' = adapdata \cup {card}
    /\ core' = core \cup {card}
    /\ made' = Append(made, card)
    /\ phase' = IF Enough THEN "loaded" ELSE "find"
    /\ todo' = <<>>
    /\ UNCHANGED <<creator, card, live, orphan, lost, Users>>

DestroyStepsRegFirst ==
    IF creator = "hw" THEN <<"bios", "reg", "atom", "adapdata", "del", "context">>
                      ELSE <<"reg", "del", "context">>

DestroyStepsNoReg ==
    IF creator = "hw" THEN <<"bios", "atom", "adapdata", "del", "context">>
                      ELSE <<"del", "context">>

(* aura_gpu_i2c_destroy; gpu_adapter_destroy                               *)
DestroySteps ==
    IF creator = "hw" THEN <<"bios", "reg", "atom", "adapdata", "del", "context">>
                      ELSE <<"del", "reg", "context">>

UndoAfterUnchecked(s) == DestroySteps

(* What the error path does when creation step s fails: hw's destroy skips *)
(* null pointers and an adapter that is not registered, but only frees the *)
(* context when atom_parse fails.                                          *)
UndoAfter(s) ==
    CASE s = "context"           -> <<>>
      [] s \in {"bios", "atom"} -> <<"context">>
      [] s = "reg"  -> IF creator = "hw" THEN <<"bios", "context">> ELSE <<"context">>
      [] s = "add"  -> IF creator = "hw" THEN <<"bios", "reg", "atom", "context">>
                                         ELSE <<"reg", "context">>

(* A step of the creation fails.                                           *)
CreateFails ==
    /\ phase = "create"
    /\ phase' = "undo"
    /\ todo' = UndoAfter(Head(todo))
    /\ lost' = (lost \/ Head(todo) = "atom")
    /\ UNCHANGED <<creator, card, live, orphan, core, adapdata, made, Users>>

(* hw's creator gives up, and the module stays loaded all the same without *)
(* an adapter (aura_module_init returns 0); gpu_adapter_create goes on to  *)
(* the next card; gpu_adapters_create destroys what it has made.           *)
AfterUndo ==
    CASE creator = "one"                  -> "find"
      [] creator = "two" /\ made # <<>> -> "rollback"
      [] OTHER                            -> "loaded"

UndoEnds ==
    /\ phase = "undo"
    /\ todo = <<>>
    /\ phase' = AfterUndo
    /\ todo' = IF AfterUndo = "rollback" THEN DestroySteps ELSE <<>>
    /\ UNCHANGED <<creator, card, live, orphan, core, adapdata, made, lost, Users>>

-----------------------------------------------------------------------------
(* The card whose context is being freed.                                  *)
Target == IF phase = "undo" THEN card ELSE Last(made)

At(step) ==
    /\ phase \in {"undo", "rollback", "destroy"}
    /\ todo # <<>>
    /\ Head(todo) = step

(* Freeing the context loses whatever only it pointed to.                  *)
Release(o) ==
    LET its == {x \in live : x[1] = Target}
    IN  /\ live' = live \ (IF o = "context" THEN its ELSE {<<Target, o>>})
        /\ orphan' = IF o = "context"
                     THEN orphan \cup (its \ {<<Target, "context">>})
                     ELSE orphan

(* kfree, atom_bios_release, aura_gpu_reg_destroy, atom_destroy            *)
Free ==
    /\ \E o \in Obj : At(o) /\ Release(o)
    /\ todo' = Tail(todo)
    /\ UNCHANGED <<creator, phase, card, core, adapdata, made, lost, Users>>

ClearAdapdata ==
    /\ At("adapdata")
    /\ adapdata' = adapdata \ {Target}
    /\ todo' = Tail(todo)
    /\ UNCHANGED <<creator, phase, card, live, orphan, core, made, lost, Users>>

(* i2c_del_adapter removes the clients, so that none of them transfers any *)
(* more, and waits for those who still do and for open devices.            *)
DelBegins ==
    /\ At("del")
    /\ Target \in core
    /\ core' = core \ {Target}
    /\ UNCHANGED <<creator, phase, card, todo, live, orphan, adapdata, made, lost, Users>>

DelEnds ==
    /\ At("del")
    /\ Target \notin core
    /\ \A u \in User : using[u].card # Target
    /\ \A u \in Holder : open[u] # Target
    /\ todo' = Tail(todo)
    /\ UNCHANGED <<creator, phase, card, live, orphan, core, adapdata, made, lost, Users>>

(* The end of a destroy; of several adapters the last one goes first.      *)
Destroyed ==
    /\ phase \in {"rollback", "destroy"}
    /\ todo = <<>>
    /\ made # <<>>
    /\ made' = Front(made)
    /\ adapdata' = adapdata \ {Target}
    /\ todo' = IF made' = <<>> THEN <<>> ELSE DestroySteps
    /\ UNCHANGED <<creator, phase, card, live, orphan, core, lost, Users>>

Finish ==
    /\ phase \in {"rollback", "destroy"}
    /\ made = <<>>
    /\ phase' = IF phase = "destroy" THEN "unloaded" ELSE "loaded"
    /\ card' = IF phase = "destroy" THEN NoCard ELSE card
    /\ UNCHANGED <<creator, todo, live, orphan, core, adapdata, made, lost, Users>>

(* aura_module_exit, once nobody holds the module.                         *)
Unload ==
    /\ phase = "loaded"
    /\ \A u \in Holder : open[u] = NoCard
    /\ phase' = "destroy"
    /\ todo' = IF made = <<>> THEN <<>> ELSE DestroySteps
    /\ UNCHANGED <<creator, card, live, orphan, core, adapdata, made, lost, Users>>

-----------------------------------------------------------------------------
Loading == <<creator, phase, card, todo, live, orphan, core, adapdata, made, lost>>

XferUsesOfHw == <<"context", "atom", "bios", "reg">>

(* What a transfer touches, in order (aura_gpu_i2c_xfer of either file).   *)
XferUses == IF creator = "hw" THEN <<"context", "atom", "bios", "reg">>
                              ELSE <<"context", "reg">>

(* try_module_get fails once the module is going.                          *)
Open(u, c) ==
    /\ open[u] = NoCard
    /\ c \in core
    /\ phase # "destroy"
    /\ open' = [open EXCEPT ![u] = c]
    /\ UNCHANGED <<Loading, using>>

Close(u) ==
    /\ open[u] # NoCard
    /\ using[u] = NoUse
    /\ open' = [open EXCEPT ![u] = NoCard]
    /\ UNCHANGED <<Loading, using>>

XferBegin(u, c) ==
    /\ using[u] = NoUse
    /\ IF u \in Holder THEN open[u] = c ELSE c \in core
    /\ using' = [using EXCEPT ![u] = [card |-> c, objs |-> XferUses]]
    /\ UNCHANGED <<Loading, open>>

XferUse(u) ==
    /\ using[u] # NoUse
    /\ using' = [using EXCEPT ![u] =
                    IF Len(@.objs) = 1 THEN NoUse
                    ELSE [card |-> @.card, objs |-> Tail(@.objs)]]
    /\ UNCHANGED <<Loading, open>>

Creating == FindCard \/ FindEnds \/ Allocate \/ Register \/ CreateFails

Freeing ==
    \/ UndoEnds \/ Free \/ ClearAdapdata \/ DelBegins \/ DelEnds
    \/ Destroyed \/ Finish

Next ==
    \/ Load \/ Creating \/ Freeing \/ Unload
    \/ \E u \in Holder : Close(u) \/ \E c \in Card : Open(u, c)
    \/ \E u \in User : XferUse(u) \/ \E c \in Card : XferBegin(u, c)

Spec == Init /\ [][Next]_vars

(* Creating and destroying go on by themselves, and so does a transfer: of *)
(* hw's that is a hypothesis on the BIOS, that its tables end (HwI2c).     *)
Fairness ==
    /\ WF_vars(Creating)
    /\ WF_vars(Freeing)
    /\ \A u \in User : WF_vars(XferUse(u))

FairSpec == Spec /\ Fairness

-----------------------------------------------------------------------------
(* A transfer only ever touches what is allocated, and finds its context,  *)
(* however its steps fall between those of create, rollback and destroy;   *)
(* except that hw's destroy, which frees before i2c_del_adapter, relies on *)
(* its users to hold the module (aura-gpu-hw.c:352-370).                   *)
NoUseAfterFreeUnlessBound == \A u \in User :
    (using[u] # NoUse /\ (creator # "hw" \/ u \in Holder)) =>
        /\ using[u].card \in adapdata
        /\ {using[u].card} \X ToSet(using[u].objs) \subseteq live

(* Whichever creator is used, whichever step of it fails at whichever      *)
(* card: afterwards exactly the adapters that its caller knows of are      *)
(* registered, they are complete, and nothing else is left, except that a  *)
(* failed atom_parse loses the ROM copy and the mapped registers           *)
(* (aura-gpu-hw.c:403-407).                                                *)
NothingLostUnlessParse ==
    /\ phase \in {"loaded", "unloaded"} =>
          /\ core = ToSet(made)
          /\ live = core \X Obj
    /\ orphan # {} =>
          /\ creator = "hw"
          /\ lost
          /\ \E c \in Match : orphan = {c} \X {"bios", "reg"}

(* Nothing is freed twice, and nothing that was not allocated.             *)
FreedOnce ==
    [][\A o \in Obj : (At(o) /\ todo' = Tail(todo)) => <<Target, o>> \in live]_vars

(* Once started, creating and destroying end: i2c_del_adapter waits for    *)
(* transfers, and no transfer waits for the thread that destroys.  Only    *)
(* the rollback of gpu_adapters_create, whose first adapter is in use by   *)
(* then, can be kept waiting, by a device that somebody leaves open.       *)
LoaderEnds ==
    phase \notin {"unloaded", "loaded"} ~>
        \/ phase \in {"unloaded", "loaded"}
        \/ phase = "rollback" /\ \E u \in Holder : open[u] \in ToSet(made)
=============================================================================
