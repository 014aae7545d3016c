------------------------------ MODULE BiosTables ------------------------------
(***************************************************************************)
(* The video BIOS as aura-gpu-bios.c reads it: atom_bios_create takes a    *)
(* copy of the ROM, decides once which layout its tables have, and keeps   *)
(* pointers to them; each query decides again, by the revision, and walks  *)
(* tables of objects, records and pins.                                    *)
(*                                                                         *)
(* An image is a record of what its tables hold, in either layout:         *)
(*   defect     what atom_bios_create finds wrong with it, or "none"       *)
(*   master     <<major, minor>> of its header, firmware of its firmware   *)
(*              table, objinfo of its table of objects                     *)
(*   objects    layout v1_1: the objects of each type                      *)
(*   paths      layout v2_1: the display paths                             *)
(*   gpio       the table of pins: is it there, its revision, its entries  *)
(* Offsets into the ROM are left out: a sequence that ends stands for a    *)
(* table that ends where the image does.  Nothing in this commit calls the *)
(* queries; whoever does has one context, so that there is no concurrency. *)
(***************************************************************************)
EXTENDS Naturals, Sequences, FiniteSets, SequencesExt

CONSTANTS
    Image,      \* the BIOSes that the card may have
    Index,      \* the indices that the queries are called with
    Asked       \* the object ids that they are called with

VARIABLES
    image,      \* the ROM that was copied, NoImage without a context
    master,     \* master_data_table: revision, and the pointer that is set
    objinfo,    \* object_info_table: revision
    query,      \* the call in progress
    pc,         \* "idle", "lookup", "walk", "done"
    object,     \* the object or path that was found
    rec,        \* the record that the walk is at
    ret,        \* what the call returns
    number,     \* a count that it returns
    id,         \* *object_id, NoObject if the call has not set it
    info,       \* *info
    reads       \* history: the layouts in which it has read the tables

stored == <<image, master, objinfo>>
outputs == <<ret, number, id, info>>
vars == <<stored, query, pc, object, rec, outputs, reads>>

-----------------------------------------------------------------------------
(* Names of objects.  A raw id has a type, a number among its like, and an *)
(* id; the code translates those it knows and calls the others unknown.    *)
ObjectType == {"GPU", "ENCODER", "CONNECTOR", "ROUTER", "GENERIC"}

NoObject == [type |-> "NONE", enum |-> 0, id |-> "NONE"]

EncoderId == {"INTERNAL_LVDS", "INTERNAL_TMDS1", "INTERNAL_TMDS2",
    "INTERNAL_DAC1", "INTERNAL_DAC2", "INTERNAL_LVTM1", "HDMI_INTERNAL",
    "INTERNAL_KLDSCP_TMDS1", "INTERNAL_KLDSCP_DAC1", "INTERNAL_KLDSCP_DAC2",
    "MVPU_FPGA", "INTERNAL_DDI", "INTERNAL_UNIPHY", "INTERNAL_KLDSCP_LVTMA",
    "INTERNAL_UNIPHY1", "INTERNAL_UNIPHY2", "ALMOND", "TRAVIS",
    "INTERNAL_UNIPHY3"}

ConnectorId == {"SINGLE_LINK_DVI_I", "DUAL_LINK_DVI_I", "SINGLE_LINK_DVI_D",
    "DUAL_LINK_DVI_D", "VGA", "HDMI_TYPE_A", "LVDS", "PCIE_CONNECTOR",
    "HARDCODE_DVI", "DISPLAYPORT", "eDP", "MXM"}

GenericId == {"MXM_OPM", "GLSYNC", "STEREO_PIN"}

(* id_from_bios_object_id: a router has no id of its own.                  *)
IsKnown(raw) ==
    \/ raw.type = "GPU"
    \/ raw.type = "ENCODER" /\ raw.id \in EncoderId
    \/ raw.type = "CONNECTOR" /\ raw.id \in ConnectorId
    \/ raw.type = "GENERIC" /\ raw.id \in GenericId

(* object_id_from_bios_object_id returns true ...                          *)
IsObjectId(raw) == raw.type \in ObjectType /\ raw.enum \in 1 .. 7

(* ... and this id.                                                        *)
ObjectIdOf(raw) == [raw EXCEPT !.id = IF IsKnown(raw) THEN @ ELSE "UNKNOWN"]

SameIdAnyEnum(raw, wanted) ==
    /\ IsObjectId(raw)
    /\ [ObjectIdOf(raw) EXCEPT !.enum = wanted.enum] = wanted

(* The comparison of the lookups: id, enum_id and type.                    *)
SameId(raw, wanted) == IsObjectId(raw) /\ ObjectIdOf(raw) = wanted

NoId == [type |-> "UNKNOWN", enum |-> 0, id |-> "UNKNOWN"]
NoPin == [hw |-> FALSE, engine |-> 0, line |-> 0]
NoInfo == [filled |-> FALSE, i2c |-> NoPin, slave |-> 0, pin |-> 0]
NoTable == [rev |-> <<0, 0>>, layout |-> "none"]
NoQuery == [kind |-> "none", index |-> 0, id |-> NoId]
NoImage == [defect |-> "absent"]

(* What tables hold: ids, pins, records, of which only those of type I2C   *)
(* are looked into, and objects or paths with a list of records each.      *)
RawId == [type : STRING, enum : Nat, id : STRING]
PinId == [hw : BOOLEAN, engine : Nat, line : Nat]
Record == [type : STRING \ {"I2C"}, size : Nat]
    \cup [type : {"I2C"}, size : Nat, i2c : PinId, slave : Nat]
Revision == Nat \X Nat

ImageType ==
    [defect : {"none", "magic", "size", "tables"},
     master : Revision, firmware : Revision, objinfo : Revision,
     objects : [{"ENCODER", "CONNECTOR", "ROUTER", "GENERIC"}
                   -> Seq([raw : RawId, records : Seq(Record)])],
     paths : Seq([encoder : RawId, display : RawId, records : Seq(Record)]),
     gpio : [present : BOOLEAN, rev : Nat, pins : Seq(PinId)]]

ASSUME IndexAssumption == Index \subseteq Nat
ASSUME AskedAssumption == Asked \subseteq RawId
ASSUME ImageAssumption == Image \subseteq ImageType

Layout == {"v1_1", "v2_1"}
Ret == {"none", "OK", "EIO", "ENOMEM", "EINVAL", "BADINPUT", "BADBIOSTABLE",
        "UNSUPPORTED", "NORECORD", "TRUE", "FALSE", "NUMBER", "GARBAGE"}

TypeOK ==
    /\ image \in Image \cup {NoImage}
    /\ master.layout \in Layout \cup {"none"}
    /\ objinfo.layout \in {"none", "v1_1", "v1_3", "v1_4"}
    /\ query.kind \in {"none", "create", "number", "id", "i2c", "gpio", "crystal"}
    /\ pc \in {"idle", "lookup", "walk", "done"}
    /\ object \in Nat /\ rec \in Nat /\ number \in Nat
    /\ ret \in Ret
    /\ info.filled \in BOOLEAN
    /\ reads \subseteq Layout

Init ==
    /\ image = NoImage
    /\ master = NoTable
    /\ objinfo = NoTable
    /\ query = NoQuery
    /\ pc = "idle"
    /\ object = 0
    /\ rec = 0
    /\ ret = "none"
    /\ number = 0
    /\ id = NoObject
    /\ info = NoInfo
    /\ reads = {}

-----------------------------------------------------------------------------
IsNaviEither(rev) == rev[1] >= 2 \/ rev[2] >= 2

(* tbl_rev.major >= 2 && tbl_rev.minor >= 2                                *)
IsNavi(rev) == rev[1] >= 2 /\ rev[2] >= 2

MasterLayout(rev) == IF IsNavi(rev) THEN "v2_1" ELSE "v1_1"

(* The pointer that _aura_gpu_bios_init sets for a revision of the table   *)
(* of objects, "none" where it gives up.                                   *)
InfoLayout(rev, obj) ==
    CASE obj[1] # 1                                  -> "none"
      [] obj[1] = 1 /\ IsNavi(rev) /\ obj[2] >= 4    -> "v1_4"
      [] obj[1] = 1 /\ IsNavi(rev) /\ obj[2] < 4     -> "none"
      [] obj[1] = 1 /\ ~ IsNavi(rev) /\ obj[2] >= 3  -> "v1_3"
      [] obj[1] = 1 /\ ~ IsNavi(rev) /\ obj[2] \in {1, 2} -> "v1_1"
      [] obj[1] = 1 /\ ~ IsNavi(rev) /\ obj[2] < 1   -> "none"

Accepted(i) ==
    i.defect = "none" /\ InfoLayout(i.master, i.objinfo) # "none"

(* atom_bios_create: no image, no memory, or a BIOS that is refused.       *)
Create(i) ==
    /\ image = NoImage /\ pc = "idle"
    /\ query' = [NoQuery EXCEPT !.kind = "create"]
    /\ pc' = "done"
    /\ \/ /\ Accepted(i)
          /\ image' = i
          /\ master' = [rev |-> i.master, layout |-> MasterLayout(i.master)]
          /\ objinfo' = [rev |-> i.objinfo, layout |-> InfoLayout(i.master, i.objinfo)]
          /\ ret' = "OK"
       \/ /\ ret' \in {"EIO", "ENOMEM"} \cup (IF Accepted(i) THEN {} ELSE {"EINVAL"})
          /\ UNCHANGED stored
    /\ UNCHANGED <<object, rec, number, id, info, reads>>

(* atom_bios_release                                                       *)
ReleaseBios ==
    /\ image # NoImage /\ pc = "idle"
    /\ image' = NoImage
    /\ master' = NoTable
    /\ objinfo' = NoTable
    /\ UNCHANGED <<query, pc, object, rec, outputs, reads>>

-----------------------------------------------------------------------------
(* switch (table_revision(context->master_data_table))                     *)
Dispatch(rev) ==
    CASE rev \in {<<1, 1>>, <<1, 2>>, <<1, 3>>, <<1, 4>>} -> "v1_1"
      [] rev \in {<<2, 1>>, <<2, 2>>}                     -> "v2_1"
      [] OTHER                                            -> "default"

Version == Dispatch(master.rev)

(* A query reads the tables as v.  Where they are not stored so (the two   *)
(* pointers are one union), what the query makes of them is anything.      *)
Begins(q, v) ==
    /\ image # NoImage /\ pc = "idle"
    /\ query' = q
    /\ reads' = {v} \cap Layout

IsGarbage(v) == v \in Layout /\ v # master.layout

Garbage ==
    /\ ret' = "GARBAGE"
    /\ UNCHANGED <<number, id, info>>

Done == pc' = "done" /\ UNCHANGED <<stored, object, rec>>

Connectors == image.objects["CONNECTOR"]
PathsWithEncoder == {k \in DOMAIN image.paths : image.paths[k].encoder # NoObject}

NumberOffByOne(v) ==
    CASE v = "v1_1"    -> Len(Connectors) - 1
      [] v = "v2_1"    -> Cardinality(PathsWithEncoder)
      [] v = "default" -> 0

(* atom_get_connectors_number of either layout                             *)
Number(v) ==
    CASE v = "v1_1"    -> Len(Connectors)
      [] v = "v2_1"    -> Cardinality(PathsWithEncoder)
      [] v = "default" -> 0

GetConnectorsNumber ==
    /\ Begins([NoQuery EXCEPT !.kind = "number"], Version)
    /\ Done
    /\ IF IsGarbage(Version) THEN Garbage
       ELSE /\ ret' = "NUMBER"
            /\ number' = Number(Version)
            /\ UNCHANGED <<id, info>>

(* The raw id at an index, NoObject where atom_bios_get_connector_id_v1_1  *)
(* or _v2_1 returns false before it translates one.                        *)
RawAt(v, index) ==
    CASE v = "v1_1" /\ index < Len(Connectors) -> Connectors[index + 1].raw
      [] v = "v2_1" /\ index < Len(image.paths) ->
            LET p == image.paths[index + 1]
            IN  IF p.encoder # NoObject THEN p.display ELSE NoObject
      [] OTHER -> NoObject

GetConnectorId(index) ==
    /\ Begins([NoQuery EXCEPT !.kind = "id", !.index = index], Version)
    /\ Done
    /\ LET raw == IF IsGarbage(Version) THEN NoObject ELSE RawAt(Version, index)
       IN  CASE IsGarbage(Version) -> Garbage
             [] Version = "default" ->
                    ret' = "FALSE" /\ id' = NoId /\ UNCHANGED <<number, info>>
             [] Version = master.layout /\ IsObjectId(raw) ->
                    ret' = "TRUE" /\ id' = ObjectIdOf(raw) /\ UNCHANGED <<number, info>>
             [] Version = master.layout /\ ~ IsObjectId(raw) ->
                    ret' = "FALSE" /\ UNCHANGED <<number, id, info>>

-----------------------------------------------------------------------------
(* atom_bios_get_i2c_info: a revision that is in none of the cases returns *)
(* false, which is 0.                                                      *)
GetI2cInfo(wanted) ==
    /\ Begins([NoQuery EXCEPT !.kind = "i2c", !.id = wanted], Version)
    /\ UNCHANGED <<stored, object, rec, number, id, info>>
    /\ pc' = IF Version = master.layout THEN "lookup" ELSE "done"
    /\ ret' = CASE Version = "default"    -> "OK"
                [] IsGarbage(Version)     -> "GARBAGE"
                [] Version = master.layout -> "none"

(* get_bios_object_v1_1: the table of objects for a type, if it has one.   *)
HasTable(type) ==
    \/ type \in {"ENCODER", "CONNECTOR", "ROUTER"}
    \/ type = "GENERIC" /\ objinfo.rev[2] >= 3

ObjectAt(wanted) ==
    IF HasTable(wanted.type)
    THEN SelectInSeq(image.objects[wanted.type], LAMBDA o : SameId(o.raw, wanted))
    ELSE 0

(* get_bios_object_v2_1: an encoder that is not found falls through.       *)
PathAt(wanted) ==
    LET byEncoder == IF wanted.type # "ENCODER" THEN 0
                     ELSE SelectInSeq(image.paths, LAMBDA p : SameId(p.encoder, wanted))
        byDisplay == IF wanted.type \notin {"ENCODER", "CONNECTOR", "GENERIC"} THEN 0
                     ELSE SelectInSeq(image.paths, LAMBDA p : SameId(p.display, wanted))
    IN  IF byEncoder # 0 THEN byEncoder ELSE byDisplay

Lookup ==
    /\ pc = "lookup"
    /\ object' = IF Version = "v1_1" THEN ObjectAt(query.id) ELSE PathAt(query.id)
    /\ rec' = 1
    /\ IF object' = 0 THEN pc' = "done" /\ ret' = "BADINPUT"
                      ELSE pc' = "walk" /\ UNCHANGED ret
    /\ UNCHANGED <<stored, query, number, id, info, reads>>

(* The records of what was found; a path's are those of its display, even  *)
(* if it was found by its encoder.                                         *)
Records == IF Version = "v1_1" THEN image.objects[query.id.type][object].records
                               ELSE image.paths[object].records

-----------------------------------------------------------------------------
(* The table of pins: what its checks return before an entry is looked at. *)
GpioCheck ==
    CASE ~ image.gpio.present \/ image.gpio.pins = <<>>       -> "BADBIOSTABLE"
      [] /\ image.gpio.present /\ image.gpio.pins # <<>>
         /\ image.gpio.rev # 1                                -> "UNSUPPORTED"
      [] /\ image.gpio.present /\ image.gpio.pins # <<>>
         /\ image.gpio.rev = 1                                -> "OK"

IsPinUnchecked(line) == TRUE

(* if (table_count < line), of get_gpio_i2c_info_v1_1 and get_gpio_info    *)
IsPin(line) == ~ (Len(image.gpio.pins) < line)

(* get_gpio_i2c_info_v1_1 takes the entry at the record's line,            *)
(* get_gpio_i2c_info_v2_1 the first whose id has the record's bits.        *)
PinOf(i2c) ==
    IF Version = "v1_1" THEN i2c.line
    ELSE SelectInSeq(image.gpio.pins, LAMBDA p : p = i2c) - 1

HasPin(i2c) ==
    /\ GpioCheck = "OK"
    /\ IF Version = "v1_1" THEN IsPin(i2c.line) ELSE i2c \in ToSet(image.gpio.pins)

AtEndByType(r) == r.type = "END"

(* ATOM_RECORD_END_TYPE == record_type || !record_size                     *)
AtEnd(r) == r.type = "END" \/ r.size = 0

IsI2cRecordAnySize(r) == r.type = "I2C"

(* sizeof(struct atom_i2c_record) <= record_size                           *)
IsI2cRecord(r) == r.type = "I2C" /\ 4 <= r.size

InfoOf(r) == [filled |-> TRUE, i2c |-> r.i2c, slave |-> r.slave, pin |-> PinOf(r.i2c)]

(* One round of the loop of atom_bios_get_i2c_info_v1_1 or _v2_1, where    *)
(* offset += record_size moves on to the next record.                      *)
WalkRecord ==
    /\ pc = "walk"
    /\ UNCHANGED <<stored, query, object, number, id, reads>>
    /\ IF rec > Len(Records)
       THEN pc' = "done" /\ ret' = "BADBIOSTABLE" /\ UNCHANGED <<rec, info>>
       ELSE LET r == Records[rec]
            IN  \/ /\ AtEnd(r)
                   /\ pc' = "done" /\ ret' = "NORECORD"
                   /\ UNCHANGED <<rec, info>>
                \/ /\ ~ AtEnd(r)
                   /\ IsI2cRecord(r) /\ HasPin(r.i2c)
                   /\ pc' = "done" /\ ret' = "OK"
                   /\ info' = InfoOf(r)
                   /\ UNCHANGED rec
                \/ /\ ~ AtEnd(r)
                   /\ ~ (IsI2cRecord(r) /\ HasPin(r.i2c))
                   /\ rec' = IF r.size = 0 THEN rec ELSE rec + 1
                   /\ UNCHANGED <<pc, ret, info>>

-----------------------------------------------------------------------------
(* atom_bios_get_gpio_info reads layout v1_1 whatever the revision.        *)
GetGpioInfo(index) ==
    /\ Begins([NoQuery EXCEPT !.kind = "gpio", !.index = index], "v1_1")
    /\ Done
    /\ CASE IsGarbage("v1_1") -> Garbage
         [] ~ IsGarbage("v1_1") /\ GpioCheck = "OK" /\ IsPin(index) ->
                /\ ret' = "OK"
                /\ info' = [filled |-> TRUE, slave |-> info.slave, pin |-> index,
                            i2c |-> IF index < Len(image.gpio.pins)
                                    THEN image.gpio.pins[index + 1] ELSE NoPin]
                /\ UNCHANGED <<number, id>>
         [] ~ IsGarbage("v1_1") /\ GpioCheck = "OK" /\ ~ IsPin(index) ->
                ret' = "BADBIOSTABLE" /\ UNCHANGED <<number, id, info>>
         [] ~ IsGarbage("v1_1") /\ GpioCheck # "OK" ->
                ret' = GpioCheck /\ UNCHANGED <<number, id, info>>

(* The layout that get_crystal_frequency_v* reads the master table in.     *)
FirmwareLayout(rev) ==
    CASE rev \in {<<1, 1>>, <<1, 2>>, <<1, 3>>, <<1, 4>>, <<2, 1>>, <<2, 2>>} -> "v1_1"
      [] rev \in {<<3, 1>>, <<3, 2>>, <<3, 3>>}                               -> "v2_1"
      [] OTHER                                                               -> "default"

(* get_image may refuse the table's header, or the table that it begins.   *)
GetCrystalFrequency ==
    /\ image # NoImage /\ pc = "idle"
    /\ query' = [NoQuery EXCEPT !.kind = "crystal"]
    /\ Done
    /\ LET f == FirmwareLayout(image.firmware)
       IN  CASE Version = "default" ->
                  ret' = "BADBIOSTABLE" /\ reads' = {} /\ UNCHANGED <<number, id, info>>
             [] IsGarbage(Version) -> Garbage /\ reads' = {Version}
             [] Version = master.layout ->
                  \/ /\ reads' = {Version, f} \cap Layout
                     /\ IF IsGarbage(f) THEN Garbage
                        ELSE /\ ret' = IF f = "default" THEN "BADBIOSTABLE" ELSE "OK"
                             /\ UNCHANGED <<number, id, info>>
                  \/ /\ reads' \in {{Version}, {Version, f} \cap Layout}
                     /\ ret' = "BADBIOSTABLE"
                     /\ UNCHANGED <<number, id, info>>

(* The caller has its answer.                                              *)
Answered ==
    /\ pc = "done"
    /\ pc' = "idle"
    /\ query' = NoQuery
    /\ object' = 0 /\ rec' = 0
    /\ ret' = "none" /\ number' = 0 /\ id' = NoObject /\ info' = NoInfo
    /\ reads' = {}
    /\ UNCHANGED stored

Step == Lookup \/ WalkRecord \/ Answered

Next ==
    \/ \E i \in Image : Create(i)
    \/ ReleaseBios
    \/ GetConnectorsNumber \/ GetCrystalFrequency
    \/ \E n \in Index : GetConnectorId(n) \/ GetGpioInfo(n)
    \/ \E wanted \in Asked : GetI2cInfo(wanted)
    \/ Step

Spec == Init /\ [][Next]_vars

(* A query that has begun goes on.                                         *)
FairSpec == Spec /\ WF_vars(Step)

-----------------------------------------------------------------------------
Answering(kind) == pc = "done" /\ query.kind = kind

(* A query reads the tables in the layout in which they are stored, except *)
(* for revision 2.1, which init stores as v1_1 (aura-gpu-bios.c:1291) and  *)
(* the queries read as v2_1 (line 1535); atom_bios_get_gpio_info, which    *)
(* only knows v1_1; and a firmware table of the other layout's generation. *)
LayoutAgreesUnless == \A l \in reads :
    \/ l = master.layout
    \/ master.rev = <<2, 1>>
    \/ query.kind = "gpio"
    \/ query.kind = "crystal" /\ l = FirmwareLayout(image.firmware)

(* An index that has a connector is below the number of connectors, so     *)
(* that counting up to it finds them all, except where a display path      *)
(* without an encoder comes before (atom_get_connectors_number_v2_1 leaves *)
(* it out, atom_bios_get_connector_id_v2_1 does not).                      *)
EnumerationCoversUnlessGap ==
    Answering("id") /\ ret = "TRUE" =>
        \/ query.index < Number(Version)
        \/ /\ Version = "v2_1"
           /\ \E j \in 1 .. query.index : image.paths[j].encoder = NoObject

RawIds(k) == IF Version = "v1_1" THEN {image.objects[query.id.type][k].raw}
             ELSE {image.paths[k].display, image.paths[k].encoder}

Objects == IF Version = "v1_1" THEN DOMAIN image.objects[query.id.type]
                               ELSE DOMAIN image.paths

(* What is found is what was asked for; and no other object, of another    *)
(* raw id, could have been meant, except by an id of unknown kind: objects *)
(* of kinds that the code does not know share one id.  A query that has    *)
(* found nothing does not say BP_RESULT_OK, except for a revision that it  *)
(* does not know, where it returns false, which is BP_RESULT_OK            *)
(* (aura-gpu-bios.c:1601).                                                 *)
FoundIsAsked == query.kind = "i2c" =>
    /\ object = 0 /\ ret = "OK" => Version = "default"
    /\ object # 0 =>
        \E raw \in RawIds(object) :
            /\ raw.type = query.id.type /\ raw.enum = query.id.enum
            /\ raw.id = query.id.id \/ query.id.id = "UNKNOWN"
            /\ query.id.id # "UNKNOWN" =>
                  \A k \in Objects : \A other \in RawIds(k) :
                     (IsObjectId(other) /\ ObjectIdOf(other) = query.id) => other = raw

(* The records that come before the end of the list.                       *)
Reachable == {k \in DOMAIN Records :
                \A j \in 1 .. k : Records[j].type # "END" /\ Records[j].size # 0}

Usable(r) ==
    /\ r.type = "I2C" /\ r.size > 3
    /\ image.gpio.present /\ image.gpio.rev = 1
    /\ IF Version = "v1_1"
       THEN image.gpio.pins # <<>> /\ r.i2c.line <= Len(image.gpio.pins)
       ELSE \E k \in DOMAIN image.gpio.pins : image.gpio.pins[k] = r.i2c

(* The walk finds the first record that describes an i2c line of the       *)
(* table of pins, past any that do not, and says so exactly if there is    *)
(* one.                                                                    *)
WalkFindsFirst ==
    (Answering("i2c") /\ object # 0) =>
        LET good == {k \in Reachable : Usable(Records[k])}
        IN  /\ ret = "OK" <=> good # {}
            /\ ret = "OK" <=> info.filled
            /\ ret = "OK" => \E k \in good :
                  /\ \A j \in good : k <= j
                  /\ info.i2c = Records[k].i2c /\ info.slave = Records[k].slave
                  /\ Version = "v2_1" => image.gpio.pins[info.pin + 1] = Records[k].i2c

(* Every query returns, whatever records the BIOS has.                     *)
QueryReturns == pc # "idle" ~> pc = "idle"

(* The pin that is used is one of those that table_count counted           *)
(* (aura-gpu-bios.c:1091, 1190, 1707), except that layout v1_1, where the  *)
(* tests of lines 1096 and 1712 let the count itself through, may use the  *)
(* entry after the last.                                                   *)
PinIsCountedUnless == info.filled =>
    \/ info.pin < Len(image.gpio.pins)
    \/ master.layout = "v1_1" /\ info.pin = Len(image.gpio.pins)
=============================================================================
