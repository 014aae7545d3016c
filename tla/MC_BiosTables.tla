-------------------------- MODULE MC_BiosTables --------------------------
(* BIOSes of each revision that the code tells apart: the ones it refuses, *)
(* those that it reads in one layout throughout, 2.1, which init and the   *)
(* queries take for different ones, and 2.3 and 1.5, which only init knows.*)
(* Objects have ids of known and unknown kinds, the same id with another   *)
(* number, and lists of records that end, break off, or hold records that  *)
(* are too short, or whose line is not, or only just not, among the pins.  *)
EXTENDS BiosTables

Raw(type, enum, kind) == [type |-> type, enum |-> enum, id |-> kind]
Pin(line) == [hw |-> TRUE, engine |-> 1, line |-> line]

I2cRecord(line, size) ==
    [type |-> "I2C", size |-> size, i2c |-> Pin(line), slave |-> 80]
Other(size) == [type |-> "HPD", size |-> size]
EndRecord == [type |-> "END", size |-> 0]
EndSized(size) == [type |-> "END", size |-> size]

Object(raw, records) == [raw |-> raw, records |-> records]
Path(encoder, display, records) ==
    [encoder |-> encoder, display |-> display, records |-> records]

HDMI == Raw("CONNECTOR", 1, "HDMI_TYPE_A")
HDMI2 == Raw("CONNECTOR", 2, "HDMI_TYPE_A")
COMPOSITE == Raw("CONNECTOR", 1, "COMPOSITE")
SVIDEO == Raw("CONNECTOR", 1, "SVIDEO")
UNIPHY == Raw("ENCODER", 1, "INTERNAL_UNIPHY")
TRAVIS == Raw("ENCODER", 1, "TRAVIS")
GLSYNC == Raw("GENERIC", 1, "GLSYNC")
ROUTER == Raw("ROUTER", 1, "ROUTER")
UNNUMBERED == Raw("CONNECTOR", 0, "VGA")

MCObjects == [t \in {"ENCODER", "CONNECTOR", "ROUTER", "GENERIC"} |->
    CASE t = "ENCODER" -> << Object(UNIPHY, <<Other(0), I2cRecord(0, 4)>>),
                             Object(TRAVIS, <<Other(4), I2cRecord(0, 2)>>) >>
      [] t = "CONNECTOR" ->
           << Object(HDMI2, <<Other(6), I2cRecord(1, 6), EndSized(2)>>),
              Object(HDMI, <<I2cRecord(3, 4), I2cRecord(0, 2), I2cRecord(0, 4), EndRecord>>),
              Object(UNNUMBERED, <<>>),
              Object(COMPOSITE, <<I2cRecord(2, 4), I2cRecord(0, 4), EndRecord>>),
              Object(SVIDEO, <<I2cRecord(1, 4), EndRecord>>) >>
      [] t = "ROUTER" -> << Object(ROUTER, <<EndSized(2), I2cRecord(0, 4)>>) >>
      [] t = "GENERIC" -> << Object(GLSYNC, <<I2cRecord(0, 4), EndRecord>>) >>]

MCPaths ==
    << Path(UNIPHY, HDMI2, <<Other(6), I2cRecord(1, 6), EndSized(2)>>),
       Path(NoObject, GLSYNC, <<I2cRecord(3, 4), I2cRecord(0, 4)>>),
       Path(TRAVIS, UNNUMBERED, <<EndRecord>>),
       Path(UNIPHY, HDMI, <<I2cRecord(3, 4), I2cRecord(0, 2), EndRecord>>),
       Path(TRAVIS, COMPOSITE, <<Other(0), I2cRecord(0, 4)>>) >>

NoObjects == [MCObjects EXCEPT !["CONNECTOR"] = <<>>]
Gpio == [present |-> TRUE, rev |-> 1, pins |-> <<Pin(0), Pin(1)>>]

Card(rev, obj, firmware) ==
    [defect |-> "none", master |-> rev, firmware |-> firmware, objinfo |-> obj,
     objects |-> MCObjects, paths |-> MCPaths, gpio |-> Gpio]

Polaris == Card(<<1, 1>>, <<1, 3>>, <<2, 2>>)
Navi == Card(<<2, 2>>, <<1, 4>>, <<3, 1>>)

MCImage ==
    { Polaris, Navi,
      Card(<<1, 2>>, <<1, 1>>, <<1, 4>>),
      Card(<<1, 1>>, <<1, 2>>, <<3, 1>>),
      Card(<<1, 3>>, <<1, 4>>, <<2, 1>>),
      Card(<<2, 1>>, <<1, 3>>, <<3, 1>>),
      Card(<<2, 3>>, <<1, 4>>, <<3, 1>>),
      Card(<<1, 5>>, <<1, 3>>, <<2, 2>>),
      Card(<<2, 2>>, <<1, 5>>, <<2, 1>>),
      Card(<<2, 2>>, <<1, 3>>, <<3, 1>>),
      Card(<<1, 1>>, <<1, 0>>, <<2, 2>>),
      Card(<<1, 1>>, <<2, 1>>, <<2, 2>>),
      [Polaris EXCEPT !.defect = "magic"],
      [Polaris EXCEPT !.defect = "size"],
      [Navi EXCEPT !.defect = "tables"],
      [Polaris EXCEPT !.objects = NoObjects, !.firmware = <<4, 1>>],
      [Polaris EXCEPT !.gpio.present = FALSE],
      [Polaris EXCEPT !.gpio.pins = <<>>],
      [Polaris EXCEPT !.gpio.rev = 2],
      [Navi EXCEPT !.gpio.rev = 2] }

MCIndex == {0, 1, 2, 4, 5}

MCAsked == {ObjectIdOf(raw) : raw \in {HDMI, HDMI2, COMPOSITE, UNIPHY, TRAVIS,
                                       GLSYNC, ROUTER, Raw("GPU", 1, "GPU")}}
=============================================================================
