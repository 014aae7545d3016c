-------------------------- MODULE BiosTables_proofs --------------------------
(***************************************************************************)
(* Proofs about BiosTables for every set of BIOS images, whatever their    *)
(* revisions, objects, records and pins, and whatever is asked of them.    *)
(***************************************************************************)
EXTENDS BiosTables, FiniteSetTheorems, WellFoundedInduction, TLAPS

(* A context is of an image that was accepted, and what it keeps of it is  *)
(* what atom_bios_create made of its revisions.                            *)
Stored == image # NoImage =>
    /\ image \in Image /\ Accepted(image)
    /\ master = [rev |-> image.master, layout |-> MasterLayout(image.master)]
    /\ objinfo = [rev |-> image.objinfo,
                  layout |-> InfoLayout(image.master, image.objinfo)]

(* How far a query is, and what it has found by then.                      *)
Phase ==
    /\ pc = "idle" => query = NoQuery /\ object = 0 /\ rec = 0 /\ reads = {}
    /\ pc \in {"idle", "lookup", "walk"} => info = NoInfo
    /\ pc # "idle" /\ query.kind # "create" => image # NoImage
    /\ pc = "lookup" => object = 0
    /\ pc \in {"lookup", "walk"} => query.kind = "i2c" /\ Version = master.layout
    /\ query.kind = "i2c" => query.id \in Asked
    /\ object # 0 =>
          /\ Version = master.layout /\ object \in Objects
          /\ Version = "v1_1" => HasTable(query.id.type)

Good(k) == IsI2cRecord(Records[k]) /\ HasPin(Records[k].i2c)

(* The walk is past records of which none ends the list or is good.        *)
Walk == pc = "walk" =>
    /\ object # 0
    /\ rec \in 1 .. Len(Records) + 1
    /\ \A k \in 1 .. rec - 1 : ~ AtEnd(Records[k]) /\ ~ Good(k)

IInv ==
    /\ TypeOK /\ Stored /\ Phase /\ Walk
    /\ LayoutAgreesUnless /\ EnumerationCoversUnlessGap
    /\ FoundIsAsked /\ WalkFindsFirst /\ PinIsCountedUnless

-----------------------------------------------------------------------------
LEMMA ElementOf ==
    ASSUME NEW S, NEW s \in Seq(S)
    PROVE  \A k \in DOMAIN s : s[k] \in S
  OBVIOUS

(* A set of natural numbers has its least.                                 *)
LEMMA Least ==
    ASSUME NEW S \in SUBSET Nat, S # {}
    PROVE  Min(S) \in S /\ \A k \in S : Min(S) <= k
  <1> DEFINE R == {p \in Nat \X Nat : p[1] < p[2]}
  <1>1. IsWellFoundedOn(R, Nat)
    BY NatLessThanWellFounded DEF OpToRel
  <1>2. \E x \in S : \A y \in S : ~ (<<y, x>> \in R)
    <2> HIDE DEF R
    <2> QED
      BY <1>1, WFMin
  <1>3. \A x, y \in S : ~ (<<y, x>> \in R) => x <= y
    OBVIOUS
  <1> HIDE DEF R
  <1>4. \E x \in S : \A y \in S : x <= y
    BY <1>2, <1>3
  <1> QED
    BY <1>4 DEF Min

(* What the parts of an accepted image are.                                *)
LEMMA Parts ==
    ASSUME Stored, image # NoImage
    PROVE  /\ image \in ImageType
           /\ image.master \in Nat \X Nat /\ image.objinfo \in Nat \X Nat
           /\ image.paths \in
                Seq([encoder : RawId, display : RawId, records : Seq(Record)])
           /\ \A t \in {"ENCODER", "CONNECTOR", "ROUTER", "GENERIC"} :
                image.objects[t] \in Seq([raw : RawId, records : Seq(Record)])
           /\ image.gpio.present \in BOOLEAN /\ image.gpio.rev \in Nat
           /\ image.gpio.pins \in Seq(PinId)
           /\ master.rev = image.master
           /\ master.layout = MasterLayout(image.master)
           /\ objinfo.rev = image.objinfo
           /\ objinfo.layout = InfoLayout(image.master, image.objinfo)
  <1>1. image \in ImageType
    BY ImageAssumption DEF Stored
  <1>2. /\ image.master \in Nat \X Nat /\ image.objinfo \in Nat \X Nat
        /\ image.paths \in
             Seq([encoder : RawId, display : RawId, records : Seq(Record)])
        /\ image.objects \in [{"ENCODER", "CONNECTOR", "ROUTER", "GENERIC"}
                                -> Seq([raw : RawId, records : Seq(Record)])]
        /\ image.gpio \in [present : BOOLEAN, rev : Nat, pins : Seq(PinId)]
    BY <1>1 DEF ImageType, Revision
  <1> QED
    BY <1>1, <1>2 DEF Stored

(* The layout that is stored is one of the two.                            *)
LEMMA StoredLayout ==
    ASSUME Stored, image # NoImage
    PROVE  /\ master.layout \in Layout
           /\ objinfo.layout \in {"v1_1", "v1_3", "v1_4"}
  <1>1. InfoLayout(image.master, image.objinfo) # "none"
    BY DEF Stored, Accepted
  <1>2. \A rev, obj \in Nat \X Nat :
          InfoLayout(rev, obj) \in {"none", "v1_1", "v1_3", "v1_4"}
    <2>1. SUFFICES ASSUME NEW rev \in Nat \X Nat, NEW obj \in Nat \X Nat
                   PROVE  InfoLayout(rev, obj) \in {"none", "v1_1", "v1_3", "v1_4"}
      OBVIOUS
    <2>2. obj[2] < 1 \/ obj[2] \in {1, 2} \/ obj[2] >= 3
      OBVIOUS
    <2>3. obj[2] < 4 \/ obj[2] >= 4
      OBVIOUS
    <2> QED
      BY <2>2, <2>3 DEF InfoLayout
  <1> QED
    BY <1>1, <1>2, Parts DEF MasterLayout, Layout

(* The queries read another layout than the stored one only if the         *)
(* revision is 2.1.                                                        *)
LEMMA Agree ==
    ASSUME Stored, image # NoImage, Version \in Layout, master.rev # <<2, 1>>
    PROVE  Version = master.layout
  BY Parts DEF Version, Dispatch, Layout, MasterLayout, IsNavi

(* NoImage is not an image.                                                *)
LEMMA Absent == \A i \in Image : i # NoImage
  BY ImageAssumption DEF ImageType, NoImage

LEMMA InitIInv == Init => IInv
  BY DEF Init, IInv, TypeOK, Stored, Phase, Walk, LayoutAgreesUnless,
         EnumerationCoversUnlessGap, FoundIsAsked, WalkFindsFirst,
         PinIsCountedUnless, NoTable, NoQuery, NoInfo, Answering, Ret

-----------------------------------------------------------------------------
(* What has not been looked for has not been found, so that only what a    *)
(* query that is over at once returns is to be considered.                 *)
LEMMA NothingFound ==
    ASSUME object' = 0, rec' = 0, pc' \in {"idle", "done"}, TypeOK', Stored',
           pc' = "idle" => query' = NoQuery /\ reads' = {} /\ info' = NoInfo,
           pc' = "done" /\ query'.kind # "create" => image' # NoImage,
           query'.kind = "i2c" => query'.id \in Asked,
           query'.kind = "i2c" /\ ret' = "OK" => Version' = "default",
           LayoutAgreesUnless', EnumerationCoversUnlessGap', PinIsCountedUnless'
    PROVE  IInv'
  BY DEF IInv, Phase, Walk, FoundIsAsked, WalkFindsFirst

LEMMA CreateKeeps ==
    ASSUME IInv, NEW i \in Image, Create(i)
    PROVE  IInv'
  <1>1. /\ image = NoImage /\ pc = "idle" /\ pc' = "done"
        /\ query' = [NoQuery EXCEPT !.kind = "create"]
        /\ UNCHANGED <<object, rec, number, id, info, reads>>
    BY DEF Create
  <1>2. object = 0 /\ rec = 0 /\ reads = {} /\ info = NoInfo /\ query'.kind = "create"
    BY <1>1 DEF IInv, Phase, NoQuery
  <1>3. Stored'
    BY <1>1 DEF Create, Stored, IInv, stored
  <1>4. TypeOK'
    <2>1. /\ ret' \in Ret
          /\ image' = NoImage \/ image' \in Image
      BY <1>1 DEF Create, Ret, stored
    <2>2. master'.layout \in Layout \cup {"none"}
          /\ objinfo'.layout \in {"none", "v1_1", "v1_3", "v1_4"}
      <3>1. CASE image' = NoImage
        <4>1. UNCHANGED stored
          BY <1>1, <3>1, Absent DEF Create
        <4> QED
          BY <4>1 DEF stored, IInv, TypeOK
      <3>2. CASE image' # NoImage
        <4>1. (Stored /\ image # NoImage
                 => master.layout \in Layout /\ objinfo.layout \in {"v1_1", "v1_3", "v1_4"})'
          BY StoredLayout, PTL
        <4> QED
          BY <1>3, <3>2, <4>1
      <3> QED
        BY <3>1, <3>2
    <2> QED
      BY <1>1, <1>2, <2>1, <2>2 DEF IInv, TypeOK
  <1>5. LayoutAgreesUnless' /\ EnumerationCoversUnlessGap' /\ PinIsCountedUnless'
    BY <1>1, <1>2 DEF LayoutAgreesUnless, EnumerationCoversUnlessGap,
                      PinIsCountedUnless, Answering, NoInfo
  <1> QED
    BY <1>1, <1>2, <1>3, <1>4, <1>5, NothingFound

LEMMA ReleaseKeeps ==
    ASSUME IInv, ReleaseBios
    PROVE  IInv'
  <1>1. /\ pc = "idle" /\ pc' = pc /\ image' = NoImage /\ master' = NoTable
        /\ objinfo' = NoTable
        /\ UNCHANGED <<query, object, rec, ret, number, id, info, reads>>
    BY DEF ReleaseBios, outputs
  <1>2. object = 0 /\ rec = 0 /\ reads = {} /\ info = NoInfo /\ query = NoQuery
    BY <1>1 DEF IInv, Phase
  <1>3. Stored' /\ TypeOK'
    BY <1>1 DEF IInv, Stored, TypeOK, NoTable
  <1>4. LayoutAgreesUnless' /\ EnumerationCoversUnlessGap' /\ PinIsCountedUnless'
    BY <1>1, <1>2 DEF LayoutAgreesUnless, EnumerationCoversUnlessGap,
                      PinIsCountedUnless, Answering, NoInfo
  <1> QED
    BY <1>1, <1>2, <1>3, <1>4, NothingFound DEF NoQuery

LEMMA AnsweredKeeps ==
    ASSUME IInv, Answered
    PROVE  IInv'
  <1>1. /\ pc' = "idle" /\ query' = NoQuery /\ object' = 0 /\ rec' = 0
        /\ ret' = "none" /\ number' = 0 /\ info' = NoInfo /\ reads' = {}
        /\ UNCHANGED <<image, master, objinfo>>
    BY DEF Answered, stored
  <1>2. Stored' /\ TypeOK'
    BY <1>1 DEF IInv, Stored, TypeOK, NoInfo, NoQuery, Ret
  <1>3. LayoutAgreesUnless' /\ EnumerationCoversUnlessGap' /\ PinIsCountedUnless'
    BY <1>1 DEF LayoutAgreesUnless, EnumerationCoversUnlessGap,
                PinIsCountedUnless, Answering, NoInfo
  <1> QED
    BY <1>1, <1>2, <1>3, NothingFound DEF NoQuery

-----------------------------------------------------------------------------
(* What is common to the queries that are over at once.                    *)
LEMMA AtOnce ==
    ASSUME IInv, image # NoImage, pc = "idle", pc' = "done",
           UNCHANGED <<image, master, objinfo, object, rec>>,
           query'.kind \in {"number", "id", "i2c", "gpio", "crystal"},
           query'.kind = "i2c" => query'.id \in Asked,
           query'.kind = "i2c" /\ ret' = "OK" => Version' = "default",
           ret' \in Ret, number' \in Nat, info'.filled \in BOOLEAN,
           reads' \subseteq Layout,
           LayoutAgreesUnless', EnumerationCoversUnlessGap', PinIsCountedUnless'
    PROVE  IInv'
  <1>1. object = 0 /\ rec = 0
    BY DEF IInv, Phase
  <1>2. Stored' /\ TypeOK'
    BY <1>1 DEF IInv, Stored, TypeOK
  <1> QED
    BY <1>1, <1>2, NothingFound

(* A query that reads the tables as the revision says.                     *)
LEMMA ReadsVersion ==
    ASSUME IInv, image # NoImage, UNCHANGED <<image, master>>,
           reads' = {Version} \cap Layout
    PROVE  LayoutAgreesUnless'
  <1>1. Version \in Layout /\ master.rev # <<2, 1>> => Version = master.layout
    BY Agree DEF IInv
  <1> QED
    BY <1>1 DEF LayoutAgreesUnless

LEMMA NumberIsNat ==
    ASSUME Stored, image # NoImage, NEW v \in Layout \cup {"default"}
    PROVE  Number(v) \in Nat
  <1>1. Connectors \in Seq([raw : RawId, records : Seq(Record)])
    BY Parts DEF Connectors
  <1>2. Cardinality(PathsWithEncoder) \in Nat
    <2>1. image.paths \in Seq([encoder : RawId, display : RawId, records : Seq(Record)])
      BY Parts
    <2>2. IsFiniteSet(1 .. Len(image.paths))
      BY <2>1, FS_Interval
    <2>3. PathsWithEncoder \subseteq 1 .. Len(image.paths)
      BY <2>1 DEF PathsWithEncoder
    <2> QED
      BY <2>2, <2>3, FS_Subset, FS_CardinalityType
  <1> QED
    BY <1>1, <1>2 DEF Number, Layout

LEMMA NumberKeeps ==
    ASSUME IInv, GetConnectorsNumber
    PROVE  IInv'
  <1>1. /\ image # NoImage /\ pc = "idle" /\ pc' = "done"
        /\ query' = [NoQuery EXCEPT !.kind = "number"]
        /\ reads' = {Version} \cap Layout
        /\ UNCHANGED <<image, master, objinfo, object, rec, id, info>>
        /\ \/ ret' = "GARBAGE" /\ number' = number
           \/ ret' = "NUMBER" /\ number' = Number(Version)
    BY DEF GetConnectorsNumber, Begins, Done, Garbage, stored
  <1>2. info = NoInfo /\ query'.kind = "number"
    BY <1>1 DEF IInv, Phase, NoQuery
  <1>3. number' \in Nat
    BY <1>1, NumberIsNat DEF IInv, TypeOK, Version, Dispatch, Layout
  <1>4. LayoutAgreesUnless'
    BY <1>1, ReadsVersion
  <1>5. EnumerationCoversUnlessGap' /\ PinIsCountedUnless'
    BY <1>1, <1>2 DEF EnumerationCoversUnlessGap, PinIsCountedUnless, Answering, NoInfo
  <1> QED
    BY <1>1, <1>2, <1>3, <1>4, <1>5, AtOnce DEF Ret, NoInfo

(* An index at which there is an id is below the number, or past a gap.    *)
LEMMA Covered ==
    ASSUME Stored, image # NoImage, NEW n \in Nat, Version = master.layout,
           IsObjectId(RawAt(Version, n))
    PROVE  \/ n < Number(Version)
           \/ /\ Version = "v2_1"
              /\ \E j \in 1 .. n : image.paths[j].encoder = NoObject
  <1>1. ~ IsObjectId(NoObject)
    BY DEF IsObjectId, NoObject, ObjectType
  <1>2. Version \in Layout
    BY StoredLayout
  <1>3. CASE Version = "v1_1"
    BY <1>1, <1>3 DEF RawAt, Number
  <1>4. CASE Version = "v2_1"
    <2>1. image.paths \in Seq([encoder : RawId, display : RawId, records : Seq(Record)])
      BY Parts
    <2>2. n < Len(image.paths) /\ image.paths[n + 1].encoder # NoObject
      BY <1>1, <1>4, <2>1 DEF RawAt
    <2>3. SUFFICES ASSUME \A j \in 1 .. n : image.paths[j].encoder # NoObject
                   PROVE  n < Cardinality(PathsWithEncoder)
      BY <1>4 DEF Number
    <2>4. 1 .. n + 1 \subseteq PathsWithEncoder
      BY <2>1, <2>2, <2>3 DEF PathsWithEncoder
    <2>5. PathsWithEncoder \subseteq 1 .. Len(image.paths)
      BY <2>1 DEF PathsWithEncoder
    <2>6. IsFiniteSet(PathsWithEncoder)
      <3>1. IsFiniteSet(1 .. Len(image.paths))
        BY <2>1, FS_Interval
      <3> QED
        BY <2>5, <3>1, FS_Subset
    <2>7. Cardinality(1 .. n + 1) = n + 1
      BY FS_Interval
    <2>8. Cardinality(1 .. n + 1) <= Cardinality(PathsWithEncoder)
      BY <2>4, <2>6, FS_Subset
    <2>9. Cardinality(PathsWithEncoder) \in Nat
      BY <2>6, FS_CardinalityType
    <2> QED
      BY <2>7, <2>8, <2>9
  <1> QED
    BY <1>2, <1>3, <1>4 DEF Layout

LEMMA IdKeeps ==
    ASSUME IInv, NEW n \in Index, GetConnectorId(n)
    PROVE  IInv'
  <1>1. /\ image # NoImage /\ pc = "idle" /\ pc' = "done"
        /\ query' = [NoQuery EXCEPT !.kind = "id", !.index = n]
        /\ reads' = {Version} \cap Layout
        /\ UNCHANGED <<image, master, objinfo, object, rec>>
    BY DEF GetConnectorId, Begins, Done, stored
  <1>2. info = NoInfo /\ query'.kind = "id" /\ query'.index = n /\ n \in Nat
    BY <1>1, IndexAssumption DEF IInv, Phase, NoQuery
  <1>3. /\ UNCHANGED <<number, info>>
        /\ ret' \in {"GARBAGE", "TRUE", "FALSE"}
        /\ ret' = "TRUE" => /\ Version = master.layout
                            /\ IsObjectId(RawAt(Version, n))
    <2>1. Version \in Layout \cup {"default"}
      BY DEF Version, Dispatch, Layout
    <2>2. master.layout \in Layout
      BY <1>1, StoredLayout DEF IInv
    <2> QED
      BY <2>1, <2>2 DEF GetConnectorId, IsGarbage, Garbage, Layout
  <1>4. LayoutAgreesUnless'
    BY <1>1, ReadsVersion
  <1>5. EnumerationCoversUnlessGap'
    <2>1. SUFFICES ASSUME ret' = "TRUE"
                   PROVE  \/ n < Number(Version)
                          \/ /\ Version = "v2_1"
                             /\ \E j \in 1 .. n : image.paths[j].encoder = NoObject
      BY <1>1, <1>2, <1>3 DEF EnumerationCoversUnlessGap, Version, Number, Connectors,
                        PathsWithEncoder
    <2> QED
      BY <1>1, <1>2, <1>3, <2>1, Covered DEF IInv
  <1>6. PinIsCountedUnless'
    BY <1>1, <1>2, <1>3 DEF PinIsCountedUnless, NoInfo
  <1> QED
    BY <1>1, <1>2, <1>3, <1>4, <1>5, <1>6, AtOnce DEF Ret, NoInfo, IInv, TypeOK

LEMMA GpioKeeps ==
    ASSUME IInv, NEW n \in Index, GetGpioInfo(n)
    PROVE  IInv'
  <1>1. /\ image # NoImage /\ pc = "idle" /\ pc' = "done"
        /\ query' = [NoQuery EXCEPT !.kind = "gpio", !.index = n]
        /\ reads' \subseteq Layout
        /\ UNCHANGED <<image, master, objinfo, object, rec, number, id>>
    BY DEF GetGpioInfo, Begins, Done, Garbage, stored
  <1>2. info = NoInfo /\ query'.kind = "gpio" /\ n \in Nat
    BY <1>1, IndexAssumption DEF IInv, Phase, NoQuery
  <1>3. GpioCheck \in {"OK", "BADBIOSTABLE", "UNSUPPORTED"}
    BY <1>1, Parts DEF IInv, GpioCheck
  <1>4. \/ info' = info /\ ret' \in Ret
        \/ /\ ~ IsGarbage("v1_1") /\ IsPin(n) /\ ret' = "OK"
           /\ info'.filled = TRUE /\ info'.pin = n
    <2>1. CASE IsGarbage("v1_1")
      BY <2>1 DEF GetGpioInfo, Garbage, Ret
    <2>2. CASE ~ IsGarbage("v1_1") /\ GpioCheck = "OK" /\ IsPin(n)
      BY <2>2 DEF GetGpioInfo
    <2>3. CASE ~ IsGarbage("v1_1") /\ GpioCheck = "OK" /\ ~ IsPin(n)
      BY <2>3 DEF GetGpioInfo, Ret
    <2>4. CASE ~ IsGarbage("v1_1") /\ GpioCheck # "OK"
      BY <1>3, <2>4 DEF GetGpioInfo, Ret
    <2> QED
      BY <2>1, <2>2, <2>3, <2>4
  <1>5. master.layout \in Layout /\ Len(image.gpio.pins) \in Nat
    BY <1>1, StoredLayout, Parts DEF IInv
  <1>6. PinIsCountedUnless'
    BY <1>1, <1>2, <1>4, <1>5 DEF PinIsCountedUnless, NoInfo, IsGarbage, IsPin, Layout
  <1>7. LayoutAgreesUnless' /\ EnumerationCoversUnlessGap'
    BY <1>2 DEF LayoutAgreesUnless, EnumerationCoversUnlessGap, Answering
  <1> QED
    BY <1>1, <1>2, <1>4, <1>6, <1>7, AtOnce DEF Ret, NoInfo, IInv, TypeOK

LEMMA CrystalKeeps ==
    ASSUME IInv, GetCrystalFrequency
    PROVE  IInv'
  <1>1. /\ image # NoImage /\ pc = "idle" /\ pc' = "done"
        /\ query' = [NoQuery EXCEPT !.kind = "crystal"]
        /\ UNCHANGED <<image, master, objinfo, object, rec>>
    BY DEF GetCrystalFrequency, Done, stored
  <1>2. info = NoInfo /\ query'.kind = "crystal"
    BY <1>1 DEF IInv, Phase, NoQuery
  <1> DEFINE f == FirmwareLayout(image.firmware)
  <1>3. Version \in Layout \cup {"default"} /\ f \in Layout \cup {"default"}
    BY DEF Version, Dispatch, FirmwareLayout, Layout
  <1>4. master.layout \in Layout
    BY <1>1, StoredLayout DEF IInv
  <1>5. /\ ret' \in {"BADBIOSTABLE", "GARBAGE", "OK"}
        /\ UNCHANGED <<number, id, info>>
        /\ reads' \subseteq {Version, f} \cap Layout
    BY <1>3, <1>4 DEF GetCrystalFrequency, Garbage, IsGarbage, Layout
  <1>6. LayoutAgreesUnless'
    <2>1. Version \in Layout /\ master.rev # <<2, 1>> => Version = master.layout
      BY <1>1, Agree DEF IInv
    <2> QED
      BY <1>1, <1>2, <1>5, <2>1 DEF LayoutAgreesUnless
  <1>7. EnumerationCoversUnlessGap' /\ PinIsCountedUnless'
    BY <1>1, <1>2, <1>5 DEF EnumerationCoversUnlessGap, PinIsCountedUnless, Answering, NoInfo
  <1> HIDE DEF f
  <1> QED
    BY <1>1, <1>2, <1>5, <1>6, <1>7, AtOnce DEF Ret, NoInfo, IInv, TypeOK

LEMMA I2cInfoKeeps ==
    ASSUME IInv, NEW wanted \in Asked, GetI2cInfo(wanted)
    PROVE  IInv'
  <1>1. /\ image # NoImage /\ pc = "idle"
        /\ query' = [NoQuery EXCEPT !.kind = "i2c", !.id = wanted]
        /\ reads' = {Version} \cap Layout
        /\ UNCHANGED <<image, master, objinfo, object, rec, number, id, info>>
    BY DEF GetI2cInfo, Begins, stored
  <1>2. info = NoInfo /\ object = 0 /\ query'.kind = "i2c" /\ query'.id = wanted
    BY <1>1 DEF IInv, Phase, NoQuery
  <1>3. Version \in Layout \cup {"default"}
    BY DEF Version, Dispatch, Layout
  <1>4. master.layout \in Layout
    BY <1>1, StoredLayout DEF IInv
  <1>5. LayoutAgreesUnless'
    BY <1>1, ReadsVersion
  <1>6. EnumerationCoversUnlessGap' /\ PinIsCountedUnless'
    BY <1>1, <1>2 DEF EnumerationCoversUnlessGap, PinIsCountedUnless, Answering, NoInfo
  <1>7. CASE Version = master.layout
    <2>1. pc' = "lookup" /\ ret' = "none"
      BY <1>3, <1>4, <1>7 DEF GetI2cInfo, IsGarbage, Layout
    <2>2. TypeOK' /\ Stored' /\ Version' = master'.layout
      BY <1>1, <1>2, <1>7, <2>1 DEF IInv, TypeOK, Stored, Ret, Version
    <2> QED
      BY <1>1, <1>2, <1>5, <1>6, <2>1, <2>2
         DEF IInv, Phase, Walk, FoundIsAsked, WalkFindsFirst, Answering
  <1>8. CASE Version # master.layout
    <2>1. pc' = "done" /\ ret' \in Ret
      BY <1>3, <1>4, <1>8 DEF GetI2cInfo, IsGarbage, Layout, Ret
    <2>2. ret' = "OK" => Version = "default"
      BY <1>3, <1>4, <1>8 DEF GetI2cInfo, IsGarbage, Layout
    <2>3. Version' = Version
      BY <1>1 DEF Version
    <2> QED
      BY <1>1, <1>2, <1>5, <1>6, <2>1, <2>2, <2>3, AtOnce DEF NoInfo, IInv, TypeOK
  <1> QED
    BY <1>7, <1>8

-----------------------------------------------------------------------------
(* An id and what it is translated to.                                     *)
LEMMA Translated ==
    ASSUME NEW raw \in RawId, NEW wanted \in RawId, SameId(raw, wanted)
    PROVE  /\ raw.type = wanted.type /\ raw.enum = wanted.enum
           /\ raw.id = wanted.id \/ wanted.id = "UNKNOWN"
           /\ wanted.id # "UNKNOWN" =>
                \A other \in RawId : ObjectIdOf(other) = wanted => other = raw
  <1>1. \A r \in RawId : ObjectIdOf(r) = wanted =>
          /\ r.type = wanted.type /\ r.enum = wanted.enum
          /\ r.id = wanted.id \/ wanted.id = "UNKNOWN"
    BY DEF ObjectIdOf, RawId
  <1>2. \A r, other \in RawId :
          r.type = other.type /\ r.enum = other.enum /\ r.id = other.id => other = r
    BY DEF RawId
  <1> QED
    BY <1>1, <1>2 DEF SameId

(* get_bios_object_v1_1 returns an object of the id, or nothing.           *)
LEMMA ObjectFound ==
    ASSUME Stored, image # NoImage, NEW wanted \in RawId
    PROVE  /\ ObjectAt(wanted) \in Nat
           /\ ObjectAt(wanted) # 0 =>
                /\ ObjectAt(wanted) \in DOMAIN image.objects[wanted.type]
                /\ HasTable(wanted.type)
                /\ SameId(image.objects[wanted.type][ObjectAt(wanted)].raw, wanted)
  <1> DEFINE s == image.objects[wanted.type]
             I == {k \in 1 .. Len(s) : SameId(s[k].raw, wanted)}
  <1>1. CASE ~ HasTable(wanted.type)
    BY <1>1 DEF ObjectAt
  <1>2. CASE HasTable(wanted.type)
    <2>1. wanted.type \in {"ENCODER", "CONNECTOR", "ROUTER", "GENERIC"}
      BY <1>2 DEF HasTable
    <2>2. s \in Seq([raw : RawId, records : Seq(Record)])
      BY <2>1, Parts
    <2>3. ObjectAt(wanted) = IF I # {} THEN Min(I) ELSE 0
      BY <1>2 DEF ObjectAt, SelectInSeq
    <2>4. I \in SUBSET Nat
      OBVIOUS
    <2>5. I # {} => Min(I) \in I
      <3> HIDE DEF I
      <3> QED
        BY <2>4, Least
    <2>6. DOMAIN s = 1 .. Len(s)
      BY <2>2
    <2>7. \A k \in I : k # 0 /\ k \in 1 .. Len(s) /\ SameId(s[k].raw, wanted)
      BY <2>2
    <2> HIDE DEF I, s
    <2>8. ObjectAt(wanted) # 0 => ObjectAt(wanted) \in I
      BY <2>3, <2>5
    <2>9. ObjectAt(wanted) \in Nat
      <3>1. \A k \in I : k \in Nat
        BY <2>4
      <3> QED
        BY <2>8, <3>1
    <2> QED
      BY <1>2, <2>6, <2>7, <2>8, <2>9 DEF s
  <1> QED
    BY <1>1, <1>2

(* get_bios_object_v2_1 likewise, by either of a path's two ids.           *)
LEMMA PathFound ==
    ASSUME Stored, image # NoImage, NEW wanted \in RawId
    PROVE  /\ PathAt(wanted) \in Nat
           /\ PathAt(wanted) # 0 =>
                /\ PathAt(wanted) \in DOMAIN image.paths
                /\ \/ SameId(image.paths[PathAt(wanted)].encoder, wanted)
                   \/ SameId(image.paths[PathAt(wanted)].display, wanted)
  <1> DEFINE s == image.paths
             I == {k \in 1 .. Len(s) : SameId(s[k].encoder, wanted)}
             J == {k \in 1 .. Len(s) : SameId(s[k].display, wanted)}
             byEncoder == IF wanted.type # "ENCODER" THEN 0
                          ELSE IF I # {} THEN Min(I) ELSE 0
             byDisplay == IF wanted.type \notin {"ENCODER", "CONNECTOR", "GENERIC"} THEN 0
                          ELSE IF J # {} THEN Min(J) ELSE 0
  <1>1. s \in Seq([encoder : RawId, display : RawId, records : Seq(Record)])
    BY Parts
  <1>2. SelectInSeq(s, LAMBDA p : SameId(p.encoder, wanted)) = IF I # {} THEN Min(I) ELSE 0
    BY DEF SelectInSeq
  <1>3. SelectInSeq(s, LAMBDA p : SameId(p.display, wanted)) = IF J # {} THEN Min(J) ELSE 0
    BY DEF SelectInSeq
  <1>4. PathAt(wanted) = IF byEncoder # 0 THEN byEncoder ELSE byDisplay
    BY <1>2, <1>3 DEF PathAt
  <1>5. I \in SUBSET Nat /\ J \in SUBSET Nat
    OBVIOUS
  <1>6. (I # {} => Min(I) \in I) /\ (J # {} => Min(J) \in J)
    <2> HIDE DEF I, J
    <2> QED
      BY <1>5, Least
  <1>7. byEncoder # 0 => byEncoder \in 1 .. Len(s) /\ SameId(s[byEncoder].encoder, wanted)
    BY <1>6
  <1>8. byDisplay # 0 => byDisplay \in 1 .. Len(s) /\ SameId(s[byDisplay].display, wanted)
    BY <1>6
  <1> HIDE DEF byEncoder, byDisplay
  <1>9. byEncoder \in Nat /\ byDisplay \in Nat
    BY <1>1, <1>7, <1>8
  <1>10. DOMAIN s = 1 .. Len(s)
    BY <1>1
  <1> QED
    BY <1>4, <1>7, <1>8, <1>9, <1>10

(* What has been found, in either layout, is what was asked for.           *)
LEMMA Found ==
    ASSUME Stored, image # NoImage, Version = master.layout, query.id \in RawId,
           NEW o, o # 0,
           o = IF Version = "v1_1" THEN ObjectAt(query.id) ELSE PathAt(query.id)
    PROVE  /\ o \in Objects
           /\ Version = "v1_1" => HasTable(query.id.type)
           /\ \E raw \in RawIds(o) :
                /\ raw.type = query.id.type /\ raw.enum = query.id.enum
                /\ raw.id = query.id.id \/ query.id.id = "UNKNOWN"
                /\ query.id.id # "UNKNOWN" =>
                     \A k \in Objects : \A other \in RawIds(k) :
                        (IsObjectId(other) /\ ObjectIdOf(other) = query.id) => other = raw
  <1>1. CASE Version = "v1_1"
    <2> DEFINE s == image.objects[query.id.type]
    <2>1. /\ o \in DOMAIN s /\ SameId(s[o].raw, query.id)
          /\ HasTable(query.id.type)
      BY <1>1, ObjectFound
    <2>2. s \in Seq([raw : RawId, records : Seq(Record)])
      BY <2>1, Parts DEF HasTable
    <2>3. Objects = DOMAIN s /\ \A k : RawIds(k) = {s[k].raw}
      BY <1>1 DEF Objects, RawIds
    <2> HIDE DEF s
    <2>4. \A k \in DOMAIN s : s[k].raw \in RawId
      <3>1. \A k \in DOMAIN s : s[k] \in [raw : RawId, records : Seq(Record)]
        BY <2>2, ElementOf
      <3> QED
        BY <3>1
    <2>5. s[o].raw \in RawIds(o)
      BY <2>3
    <2> QED
      BY <2>1, <2>3, <2>4, <2>5, Translated
  <1>2. CASE Version # "v1_1"
    <2> DEFINE s == image.paths
    <2>1. /\ o \in DOMAIN s
          /\ SameId(s[o].encoder, query.id) \/ SameId(s[o].display, query.id)
      BY <1>2, PathFound
    <2>2. s \in Seq([encoder : RawId, display : RawId, records : Seq(Record)])
      BY Parts
    <2>3. Objects = DOMAIN s /\ \A k : RawIds(k) = {s[k].display, s[k].encoder}
      BY <1>2 DEF Objects, RawIds
    <2> HIDE DEF s
    <2>4. \A k \in DOMAIN s : s[k].encoder \in RawId /\ s[k].display \in RawId
      <3>1. \A k \in DOMAIN s :
              s[k] \in [encoder : RawId, display : RawId, records : Seq(Record)]
        BY <2>2, ElementOf
      <3> QED
        BY <3>1
    <2>5. PICK raw \in RawIds(o) : SameId(raw, query.id)
      BY <2>1, <2>3
    <2>6. raw \in RawId
      BY <2>1, <2>3, <2>4, <2>5
    <2>7. /\ raw.type = query.id.type /\ raw.enum = query.id.enum
          /\ raw.id = query.id.id \/ query.id.id = "UNKNOWN"
          /\ query.id.id # "UNKNOWN" =>
               \A other \in RawId : ObjectIdOf(other) = query.id => other = raw
      BY <2>5, <2>6, Translated
    <2>8. \A k \in Objects : \A other \in RawIds(k) : other \in RawId
      BY <2>3, <2>4
    <2> QED
      BY <1>2, <2>1, <2>3, <2>5, <2>7, <2>8
  <1> QED
    BY <1>1, <1>2

(* The records of an object or path are a list of records.                 *)
LEMMA RecordsType ==
    Stored /\ image # NoImage /\ Phase /\ object # 0 => Records \in Seq(Record)
  <1> SUFFICES ASSUME Stored, image # NoImage, Phase, object # 0
               PROVE  Records \in Seq(Record)
    OBVIOUS
  <1>1. object \in Objects
    BY DEF Phase
  <1>2. CASE Version = "v1_1"
    <2>1. image.objects[query.id.type] \in Seq([raw : RawId, records : Seq(Record)])
      BY <1>2, Parts DEF Phase, HasTable
    <2>2. image.objects[query.id.type][object] \in [raw : RawId, records : Seq(Record)]
      BY <1>1, <1>2, <2>1, ElementOf DEF Objects
    <2> QED
      BY <1>2, <2>2 DEF Records
  <1>3. CASE Version # "v1_1"
    <2>1. image.paths \in
            Seq([encoder : RawId, display : RawId, records : Seq(Record)])
      BY Parts
    <2>2. image.paths[object] \in
            [encoder : RawId, display : RawId, records : Seq(Record)]
      BY <1>1, <1>3, <2>1, ElementOf DEF Objects
    <2> QED
      BY <1>3, <2>2 DEF Records
  <1> QED
    BY <1>2, <1>3

LEMMA LookupKeeps ==
    ASSUME IInv, Lookup
    PROVE  IInv'
  <1>1. /\ pc = "lookup" /\ rec' = 1
        /\ object' = IF Version = "v1_1" THEN ObjectAt(query.id) ELSE PathAt(query.id)
        /\ IF object' = 0 THEN pc' = "done" /\ ret' = "BADINPUT"
                          ELSE pc' = "walk" /\ ret' = ret
        /\ UNCHANGED <<image, master, objinfo, query, number, id, info, reads>>
    BY DEF Lookup, stored
  <1>2. /\ image # NoImage /\ query.kind = "i2c" /\ query.id \in RawId
        /\ Version = master.layout /\ info = NoInfo
    BY <1>1, AskedAssumption DEF IInv, Phase
  <1>3. object' \in Nat
    BY <1>1, <1>2, ObjectFound, PathFound DEF IInv
  <1>4. TypeOK' /\ Stored'
    BY <1>1, <1>3 DEF IInv, TypeOK, Stored, Ret
  <1>5. /\ Version' = Version /\ Objects' = Objects
        /\ \A k : RawIds(k)' = RawIds(k)
        /\ HasTable(query.id.type)' = HasTable(query.id.type)
    BY <1>1 DEF Version, Objects, RawIds, HasTable
  <1>6. object' # 0 => /\ object' \in Objects
                       /\ Version = "v1_1" => HasTable(query.id.type)
    BY <1>1, <1>2, Found DEF IInv
  <1>7. FoundIsAsked'
    BY <1>1, <1>2, <1>5, Found DEF FoundIsAsked, IInv
  <1>8. Phase'
    BY <1>1, <1>2, <1>5, <1>6 DEF IInv, Phase
  <1>9. Walk'
    <2>1. (Stored /\ image # NoImage /\ Phase /\ object # 0
             => Records \in Seq(Record))'
      BY RecordsType, PTL
    <2>2. object' # 0 => Len(Records)' \in Nat
      BY <1>1, <1>2, <1>4, <1>8, <2>1
    <2> QED
      BY <1>1, <2>2 DEF Walk
  <1>10. LayoutAgreesUnless' /\ EnumerationCoversUnlessGap' /\ PinIsCountedUnless'
    BY <1>1, <1>2 DEF IInv, LayoutAgreesUnless, EnumerationCoversUnlessGap,
                      PinIsCountedUnless, Answering, NoInfo
  <1>11. WalkFindsFirst'
    BY <1>1 DEF WalkFindsFirst, Answering
  <1> QED
    BY <1>4, <1>7, <1>8, <1>9, <1>10, <1>11 DEF IInv

-----------------------------------------------------------------------------
(* What the walk takes for a line of the table of pins, and what the       *)
(* property means by one.                                                  *)
LEMMA UsableIsGood ==
    ASSUME Stored, image # NoImage, Version = master.layout,
           NEW r \in Record
    PROVE  Usable(r) <=> IsI2cRecord(r) /\ HasPin(r.i2c)
  <1>1. Version \in Layout
    BY StoredLayout
  <1>2. image.gpio.pins \in Seq(PinId)
    BY Parts
  <1>3. GpioCheck = "OK" <=>
          image.gpio.present /\ image.gpio.pins # <<>> /\ image.gpio.rev = 1
    BY DEF GpioCheck
  <1>4. r.size \in Nat
    BY DEF Record
  <1>5. IsI2cRecord(r) <=> r.type = "I2C" /\ r.size > 3
    BY <1>4 DEF IsI2cRecord
  <1>6. ASSUME r.type = "I2C" PROVE r.i2c.line \in Nat
    BY <1>6 DEF Record, PinId
  <1>7. CASE Version = "v1_1"
    <2>1. r.type = "I2C" => (HasPin(r.i2c) <=>
            GpioCheck = "OK" /\ r.i2c.line <= Len(image.gpio.pins))
      BY <1>2, <1>6, <1>7 DEF HasPin, IsPin
    <2> QED
      BY <1>3, <1>5, <1>7, <2>1 DEF Usable
  <1>8. CASE Version = "v2_1"
    <2>1. HasPin(r.i2c) <=>
            GpioCheck = "OK" /\ \E k \in DOMAIN image.gpio.pins : image.gpio.pins[k] = r.i2c
      BY <1>8 DEF HasPin, ToSet
    <2>2. (\E k \in DOMAIN image.gpio.pins : image.gpio.pins[k] = r.i2c)
            => image.gpio.pins # <<>>
      OBVIOUS
    <2> QED
      BY <1>3, <1>5, <1>8, <2>1, <2>2 DEF Usable
  <1> QED
    BY <1>1, <1>7, <1>8 DEF Layout

(* The pin of a record that is taken.                                      *)
LEMMA PinTaken ==
    ASSUME Stored, image # NoImage, Version = master.layout,
           NEW i2c \in PinId, HasPin(i2c)
    PROVE  /\ \/ PinOf(i2c) < Len(image.gpio.pins)
              \/ master.layout = "v1_1" /\ PinOf(i2c) = Len(image.gpio.pins)
           /\ Version = "v2_1" => image.gpio.pins[PinOf(i2c) + 1] = i2c
  <1>1. Version \in Layout
    BY StoredLayout
  <1>0. image.gpio.pins \in Seq(PinId)
    BY Parts
  <1>2. image.gpio.pins \in Seq(PinId) /\ Len(image.gpio.pins) \in Nat
    BY <1>0
  <1>3. CASE Version = "v1_1"
    BY <1>2, <1>3 DEF HasPin, IsPin, PinOf, PinId
  <1>4. CASE Version = "v2_1"
    <2> DEFINE s == image.gpio.pins
               I == {k \in 1 .. Len(s) : s[k] = i2c}
    <2>1. SelectInSeq(s, LAMBDA p : p = i2c) = IF I # {} THEN Min(I) ELSE 0
      BY DEF SelectInSeq
    <2>2. I \in SUBSET Nat
      OBVIOUS
    <2>3. I # {}
      BY <1>2, <1>4 DEF HasPin, ToSet
    <2>4. Min(I) \in I
      <3> HIDE DEF I
      <3> QED
        BY <2>2, <2>3, Least
    <2>5. PinOf(i2c) = Min(I) - 1
      BY <1>4, <2>1, <2>3 DEF PinOf
    <2>6. \A k \in I : k \in Nat /\ k - 1 < Len(s) /\ (k - 1) + 1 = k /\ s[k] = i2c
      BY <1>2
    <2> HIDE DEF I
    <2> QED
      BY <1>4, <2>4, <2>5, <2>6
  <1> QED
    BY <1>1, <1>3, <1>4 DEF Layout

LEMMA WalkKeeps ==
    ASSUME IInv, WalkRecord
    PROVE  IInv'
  <1> DEFINE r == Records[rec]
  <1>1. /\ pc = "walk"
        /\ UNCHANGED <<image, master, objinfo, query, object, number, id, reads>>
    BY DEF WalkRecord, stored
  <1>2. /\ image # NoImage /\ query.kind = "i2c" /\ Version = master.layout
        /\ info = NoInfo /\ object # 0 /\ Stored
        /\ rec \in 1 .. Len(Records) + 1
        /\ \A k \in 1 .. rec - 1 : ~ AtEnd(Records[k]) /\ ~ Good(k)
    BY <1>1 DEF IInv, Phase, Walk
  <1>3. Records \in Seq(Record)
    BY <1>2, RecordsType DEF IInv
  <1>4. Len(Records) \in Nat /\ rec \in Nat /\ DOMAIN Records = 1 .. Len(Records)
    BY <1>2, <1>3
  <1>5. /\ Records' = Records /\ Version' = Version
        /\ \A k : Good(k)' = Good(k)
        /\ \A k : Usable(Records[k])' = Usable(Records[k])
        /\ Reachable' = Reachable
    BY <1>1 DEF Records, Version, Good, Usable, Reachable, IsI2cRecord, HasPin,
                GpioCheck, IsPin, AtEnd
  <1>6. \A k \in DOMAIN Records : Usable(Records[k]) <=> Good(k)
    <2>1. \A k \in DOMAIN Records : Records[k] \in Record
      BY <1>3, ElementOf
    <2> QED
      BY <1>2, <2>1, UsableIsGood DEF Good
  <1>7. Stored' /\ LayoutAgreesUnless' /\ FoundIsAsked'
    BY <1>1, <1>2 DEF IInv, Stored, LayoutAgreesUnless, FoundIsAsked, Objects, RawIds,
                      Version
  <1>8. EnumerationCoversUnlessGap'
    BY <1>1, <1>2 DEF EnumerationCoversUnlessGap, Answering
  <1> DEFINE good == {k \in Reachable : Usable(Records[k])}
  (* The walk is over without a record.                                    *)
  <1>9. ASSUME pc' = "done", ret' \in Ret, ret' # "OK", rec' = rec, info' = info,
               good = {}
        PROVE  IInv'
    <2>1. TypeOK' /\ PinIsCountedUnless'
      BY <1>1, <1>2, <1>9 DEF IInv, TypeOK, PinIsCountedUnless, NoInfo
    <2>2. Phase' /\ Walk'
      BY <1>1, <1>2, <1>9 DEF IInv, Phase, Walk, Objects, Version, HasTable
    <2>3. WalkFindsFirst'
      BY <1>2, <1>5, <1>9 DEF WalkFindsFirst, NoInfo
    <2> QED
      BY <1>7, <1>8, <2>1, <2>2, <2>3 DEF IInv
  <1>10. CASE rec > Len(Records)
    <2>1. good = {}
      BY <1>2, <1>4, <1>6, <1>10 DEF Reachable
    <2> QED
      BY <1>9, <1>10, <2>1 DEF WalkRecord, Ret
  <1>11. CASE rec <= Len(Records) /\ AtEnd(r)
    <2>1. r.type = "END" \/ r.size = 0
      BY <1>11 DEF AtEnd
    <2>2. \A k \in Reachable : k < rec
      <3>1. \A k \in Reachable : k \in Nat /\ rec \notin 1 .. k
        BY <1>4, <2>1 DEF Reachable
      <3>2. \A k \in Nat : rec \in 1 .. k \/ k < rec
        BY <1>2, <1>4
      <3> QED
        BY <3>1, <3>2
    <2>3. good = {}
      BY <1>2, <1>4, <1>6, <2>2 DEF Reachable
    <2> QED
      BY <1>4, <1>9, <1>11, <2>3 DEF WalkRecord, Ret
  <1>12. CASE rec <= Len(Records) /\ ~ AtEnd(r) /\ Good(rec)
    <2>1. /\ pc' = "done" /\ ret' = "OK" /\ rec' = rec /\ info' = InfoOf(r)
      BY <1>4, <1>12 DEF WalkRecord, Good
    <2>2. info'.filled /\ info'.i2c = r.i2c /\ info'.slave = r.slave
          /\ info'.pin = PinOf(r.i2c) /\ info'.filled = TRUE
      BY <2>1 DEF InfoOf
    <2>3. r.i2c \in PinId /\ HasPin(r.i2c)
      <3>1. r \in Record
        BY <1>2, <1>3, <1>4, <1>12, ElementOf
      <3>2. r.type = "I2C" /\ HasPin(r.i2c)
        BY <1>12 DEF Good, IsI2cRecord
      <3> QED
        BY <3>1, <3>2 DEF Record
    <2>4. /\ \/ info'.pin < Len(image.gpio.pins)
             \/ master.layout = "v1_1" /\ info'.pin = Len(image.gpio.pins)
          /\ Version = "v2_1" => image.gpio.pins[info'.pin + 1] = r.i2c
      BY <1>2, <2>2, <2>3, PinTaken
    <2>5. TypeOK' /\ PinIsCountedUnless'
      BY <1>1, <2>1, <2>2, <2>4 DEF IInv, TypeOK, PinIsCountedUnless, Ret
    <2>6. Phase' /\ Walk'
      BY <1>1, <2>1 DEF IInv, Phase, Walk, Objects, Version, HasTable
    <2>7. rec \in good
      <3>1. \A j \in 1 .. rec : Records[j].type # "END" /\ Records[j].size # 0
        BY <1>2, <1>4, <1>12 DEF AtEnd
      <3> QED
        BY <1>2, <1>4, <1>6, <1>12, <3>1 DEF Reachable
    <2>8. \A j \in good : rec <= j
      BY <1>2, <1>4, <1>6 DEF Reachable
    <2>9. WalkFindsFirst'
      BY <1>1, <1>5, <2>1, <2>2, <2>4, <2>7, <2>8 DEF WalkFindsFirst
    <2> QED
      BY <1>7, <1>8, <2>5, <2>6, <2>9 DEF IInv
  <1>13. CASE rec <= Len(Records) /\ ~ AtEnd(r) /\ ~ Good(rec)
    <2>1. r.size # 0
      BY <1>13 DEF AtEnd
    <2>2. pc' = pc /\ ret' = ret /\ info' = info /\ rec' = rec + 1
      BY <1>4, <1>13, <2>1 DEF WalkRecord, Good
    <2>3. TypeOK' /\ PinIsCountedUnless' /\ WalkFindsFirst'
      BY <1>1, <1>2, <2>2 DEF IInv, TypeOK, PinIsCountedUnless, WalkFindsFirst,
                              Answering, NoInfo
    <2>4. Phase'
      BY <1>1, <2>2 DEF IInv, Phase, Objects, Version, HasTable
    <2>5. \A k \in 1 .. rec : ~ AtEnd(Records[k]) /\ ~ Good(k)
      BY <1>2, <1>4, <1>13
    <2>6. Walk'
      <3>1. rec' - 1 = rec /\ rec' \in 1 .. Len(Records) + 1
        BY <1>2, <1>4, <1>13, <2>2
      <3> QED
        BY <1>1, <1>2, <1>5, <2>2, <2>5, <3>1 DEF Walk, AtEnd
    <2> QED
      BY <1>7, <1>8, <2>3, <2>4, <2>6 DEF IInv
  <1> QED
    BY <1>4, <1>10, <1>11, <1>12, <1>13

-----------------------------------------------------------------------------
(* The inductive invariant: a context is of an accepted image, a query is  *)
(* as far as it has come, and the walk is past records of no use.          *)
THEOREM Inductive == Spec => []IInv
  <1>1. IInv /\ [Next]_vars => IInv'
    <2> SUFFICES ASSUME IInv, [Next]_vars PROVE IInv'
      OBVIOUS
    <2>1. ASSUME NEW i \in Image, Create(i) PROVE IInv'
      BY <2>1, CreateKeeps
    <2>2. CASE ReleaseBios
      BY <2>2, ReleaseKeeps
    <2>3. CASE GetConnectorsNumber
      BY <2>3, NumberKeeps
    <2>4. CASE GetCrystalFrequency
      BY <2>4, CrystalKeeps
    <2>5. ASSUME NEW n \in Index, GetConnectorId(n) \/ GetGpioInfo(n) PROVE IInv'
      BY <2>5, IdKeeps, GpioKeeps
    <2>6. ASSUME NEW wanted \in Asked, GetI2cInfo(wanted) PROVE IInv'
      BY <2>6, I2cInfoKeeps
    <2>7. CASE Step
      BY <2>7, LookupKeeps, WalkKeeps, AnsweredKeeps DEF Step
    <2>8. CASE UNCHANGED vars
      <3>1. UNCHANGED <<image, master, objinfo, query, pc, object, rec, ret,
                        number, id, info, reads>>
        BY <2>8 DEF vars, stored, outputs
      <3> QED
        <4>1. /\ Version' = Version /\ Objects' = Objects /\ Records' = Records
              /\ Reachable' = Reachable /\ \A n : HasTable(n)' = HasTable(n)
              /\ \A k : RawIds(k)' = RawIds(k) /\ Good(k)' = Good(k)
              /\ \A k : Usable(Records[k])' = Usable(Records[k])
              /\ \A v : Number(v)' = Number(v)
          BY <3>1 DEF Version, Objects, Records, Reachable, HasTable, RawIds, Good,
               Usable, Number, HasPin, GpioCheck, IsPin, Connectors, PathsWithEncoder
        <4>2. (TypeOK /\ Stored /\ Phase /\ Walk)'
          BY <3>1, <4>1 DEF IInv, TypeOK, Stored, Phase, Walk, AtEnd
        <4>3. (LayoutAgreesUnless /\ EnumerationCoversUnlessGap /\ PinIsCountedUnless)'
          BY <3>1, <4>1 DEF IInv, LayoutAgreesUnless, EnumerationCoversUnlessGap,
               PinIsCountedUnless, Answering
        <4>4. FoundIsAsked'
          BY <3>1, <4>1 DEF IInv, FoundIsAsked
        <4>5. WalkFindsFirst'
          BY <3>1, <4>1 DEF IInv, WalkFindsFirst, Answering
        <4> QED
          BY <4>2, <4>3, <4>4, <4>5 DEF IInv
    <2> QED
      BY <2>1, <2>2, <2>3, <2>4, <2>5, <2>6, <2>7, <2>8 DEF Next
  <1> QED
    BY <1>1, InitIInv, PTL DEF Spec

(* Type correctness of the context and of a query's results.               *)
THEOREM TypeTheorem == Spec => []TypeOK
  BY Inductive, PTL DEF IInv

(* A query reads the tables in the layout in which atom_bios_create stored *)
(* them, with the exceptions that the property names and no other.         *)
THEOREM LayoutTheorem == Spec => []LayoutAgreesUnless
  BY Inductive, PTL DEF IInv

(* Counting up to the number of connectors finds every connector that      *)
(* atom_bios_get_connector_id knows, but for a gap before it.              *)
THEOREM EnumerationTheorem == Spec => []EnumerationCoversUnlessGap
  BY Inductive, PTL DEF IInv

(* What get_bios_object_v1_1 and get_bios_object_v2_1 find is what was     *)
(* asked for, and only a revision that is not known says OK without it.    *)
THEOREM FoundTheorem == Spec => []FoundIsAsked
  BY Inductive, PTL DEF IInv

(* atom_bios_get_i2c_info finds the first usable record of any list.       *)
THEOREM WalkTheorem == Spec => []WalkFindsFirst
  BY Inductive, PTL DEF IInv

(* No pin beyond the entry after the last one is ever used.                *)
THEOREM PinTheorem == Spec => []PinIsCountedUnless
  BY Inductive, PTL DEF IInv
=============================================================================
