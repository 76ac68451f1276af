----------------------------- MODULE MessagePath -----------------------------
(***************************************************************************)
(* The way of one uplink through both programs: the Producer's callback    *)
(* filters it and publishes the result, the Consumer parses what it finds  *)
(* in the queue (Consumer/src/main.cpp:134-232).  It relates the two       *)
(* message formats, which no code shares.                                  *)
(***************************************************************************)
EXTENDS MessageFilter

CONSTANT IntRange  \* how far the values of an int reach: 2^32

ASSUME IntRangeAssumption == IntRange \in Nat \ {0} /\ IntRange % 2 = 0

VARIABLES
  stage,   \* how far the uplink has come
  uplink,
  body,    \* what the Producer publishes, as a parser reads it
  id,      \* its message_id property
  parsed   \* what the Consumer makes of it

vars == <<stage, uplink, body, id, parsed>>

Zero == 0  \* temperature, humidity, rssi and snr unless they are read

-----------------------------------------------------------------------------
(* The Consumer's parser *)

\* get_double() converts integers.
ReadDouble(v) ==
  IF v.type = "double" THEN v.number
  ELSE IF IsNumber(v) THEN Nearest(v.number, WholeDoubles) ELSE Zero

FitsInt(n) == n \in -(IntRange \div 2)..(IntRange \div 2 - 1)

\* get_int64() takes integers only, and static_cast<int> their low bits.
ReadInt(v) ==
  IF v.type = "int" THEN ((v.number + IntRange \div 2) % IntRange) - IntRange \div 2 ELSE Zero

\* A gateway is named by eui; the filter writes no gateway_id, the other name that the
\* parser accepts.
ReadGateway(g) ==
  [gateway_id |-> g.eui.text, rssi |-> ReadInt(g.rssi), snr |-> ReadDouble(g.snr)]

ReadGateways(list) ==
  [i \in DOMAIN WithEui(list) |-> ReadGateway(WithEui(list)[i])]

NoReading(why) ==
  [kind |-> why, dev_eui |-> Nothing, received_at |-> Nothing,
   temperature |-> Zero, humidity |-> Zero, gateways |-> <<>>]

\* Mutant of ParseBody: a message without a temperature holds no reading.
ParseBodyNeedsTemperature(b) ==
  IF ~b.json THEN NoReading("garbage")
  ELSE IF ~IsString(b.dev_eui) \/ ~IsString(b.received_at) \/ ~IsNumber(b.temperature_c)
       THEN NoReading("no_eui")
  ELSE [kind        |-> "reading",
        dev_eui     |-> b.dev_eui.text,
        received_at |-> b.received_at.text,
        temperature |-> ReadDouble(b.temperature_c),
        humidity    |-> ReadDouble(b.humidity),
        gateways    |-> ReadGateways(b.gateway_ids)]

ParseBody(b) ==
  IF ~b.json THEN NoReading("garbage")
  ELSE IF ~IsString(b.dev_eui) \/ b.dev_eui.text = Nothing THEN NoReading("no_eui")
  ELSE IF ~IsString(b.received_at) THEN NoReading("no_time")
  ELSE [kind        |-> "reading",
        dev_eui     |-> b.dev_eui.text,
        received_at |-> b.received_at.text,
        temperature |-> ReadDouble(b.temperature_c),
        humidity    |-> ReadDouble(b.humidity),
        gateways    |-> ReadGateways(b.gateway_ids)]

-----------------------------------------------------------------------------

Init ==
  /\ stage = "uplink"
  /\ uplink \in Uplinks
  /\ body = Original(uplink) /\ id = <<>> /\ parsed = NoReading("none")

\* The message callback of main().
OnUplink ==
  /\ stage = "uplink"
  /\ body' \in FilterMessageData(uplink)
  /\ id' = MessageId(uplink)
  /\ stage' = "queued"
  /\ UNCHANGED <<uplink, parsed>>

OnMessage ==
  /\ stage = "queued"
  /\ parsed' = ParseBody(body)
  /\ stage' = "parsed"
  /\ UNCHANGED <<uplink, body, id>>

Next == OnUplink \/ OnMessage

Spec == Init /\ [][Next]_vars

-----------------------------------------------------------------------------
(* Properties *)

Plain(v) == v.type = "string"
Exact(v) == v.type \in {"int", "double"} /\ v.number \in Printed(v)

\* What The Things Stack and a payload decoder normally send: among others, numbers
\* with at most six decimals.
WellFormed(u) ==
  /\ u.json
  /\ Plain(u.dev_eui) /\ u.dev_eui.text # Nothing
  /\ Plain(u.received_at)
  /\ Exact(u.decoded_payload.temperature_c)
  /\ Exact(u.decoded_payload.humidity)
  /\ u.decoded_payload.level.type \in {"absent", "int", "double"}
  /\ u.decoded_payload.count.type \in {"absent", "int"}
  /\ u.decoded_payload.last_updated.type \in {"absent", "string"}
  /\ \A i \in DOMAIN u.rx_metadata :
       /\ Plain(u.rx_metadata[i].eui)
       /\ u.rx_metadata[i].rssi.type = "int" /\ FitsInt(u.rx_metadata[i].rssi.number)
       /\ Exact(u.rx_metadata[i].snr)

\* The two programs agree on the format of a message: a well-formed uplink is
\* parsed to exactly the measurements it carries, each gateway, in the order of
\* rx_metadata, with its own signal strength (Producer main.cpp:41-293,
\* Consumer main.cpp:142-232).
ReadingArrivesIntact ==
  stage = "parsed" /\ WellFormed(uplink) =>
    /\ parsed.kind = "reading"
    /\ parsed.dev_eui = uplink.dev_eui.text
    /\ parsed.received_at = uplink.received_at.text
    /\ parsed.temperature = uplink.decoded_payload.temperature_c.number
    /\ parsed.humidity = uplink.decoded_payload.humidity.number
    /\ Len(parsed.gateways) = Len(uplink.rx_metadata)
    /\ \A i \in DOMAIN uplink.rx_metadata :
         parsed.gateways[i] = [gateway_id |-> uplink.rx_metadata[i].eui.text,
                               rssi |-> uplink.rx_metadata[i].rssi.number,
                               snr |-> uplink.rx_metadata[i].snr.number]

\* A number arrives as well as six decimals, or a double, can tell it; what is none is 0.
Arrives(number, v) ==
  IF IsNumber(v) THEN IsNearest(number, v.number, Printed(v)) ELSE number = Zero

\* Unless a string should have been escaped, a reading has each gateway of its uplink
\* that has an EUI, in their order and with its own signal, whatever is odd about the
\* others.  A signal strength that is an int arrives, one that is not an integer is
\* silently 0 (Producer main.cpp:217-273, Consumer main.cpp:168-206).
FilterKeepsGateways ==
  stage = "parsed" /\ parsed.kind = "reading" /\ Escaped(uplink) =>
    LET heard == WithEui(uplink.rx_metadata)
    IN  /\ Len(parsed.gateways) = Len(heard)
        /\ \A i \in DOMAIN heard :
             /\ parsed.gateways[i].gateway_id = heard[i].eui.text
             /\ heard[i].rssi.type = "int" /\ FitsInt(heard[i].rssi.number) =>
                  parsed.gateways[i].rssi = heard[i].rssi.number
             /\ heard[i].rssi.type # "int" => parsed.gateways[i].rssi = Zero
             /\ Arrives(parsed.gateways[i].snr, heard[i].snr)

\* Why a message may hold no reading.  What is missing or odd about a gateway
\* never costs one, nor does a measurement that is missing; one measurement of a
\* type the filter does not expect does, whichever it is (Producer
\* main.cpp:295-297 with Consumer main.cpp:158-163).
LossExplained ==
  stage = "parsed" /\ parsed.kind # "reading" =>
    \/ ~uplink.json
    \/ ~IsString(uplink.dev_eui) \/ uplink.dev_eui.text = Nothing
    \/ ~IsString(uplink.received_at)
    \/ ~Escaped(uplink)
    \/ CastsThrow(uplink.decoded_payload)

\* The parser starts from a temperature and a humidity of 0 (main.cpp:146-147): unless
\* a string should have been escaped, a measurement is stored as 0 only if the uplink
\* lacks it or it is 0 to six decimals, and otherwise as it was measured, whatever
\* else is odd about the uplink (Producer main.cpp:62-83, Consumer main.cpp:210-219).
MeasurementsKept ==
  stage = "parsed" /\ parsed.kind = "reading" /\ Escaped(uplink) =>
    LET Kept(number, v) == (v.type = "absent" \/ IsNumber(v)) /\ Arrives(number, v)
    IN  /\ Kept(parsed.temperature, uplink.decoded_payload.temperature_c)
        /\ Kept(parsed.humidity, uplink.decoded_payload.humidity)

\* The Consumer requeues garbage forever (main.cpp:139), everything else leaves
\* the queue: only what was not JSON, or a string the filter should have escaped,
\* is garbage.  An uplink the filter gives up on is not: it is dropped instead.
GarbageOnlyFromGarbage ==
  stage = "parsed" /\ parsed.kind = "garbage" =>
    \/ ~uplink.json
    \/ /\ ~CastsThrow(uplink.decoded_payload)
       /\ ~Escaped(uplink)

\* The id by which a consumer is to recognise duplicates (Producer main.cpp:396)
\* is shared by two JSON uplinks only when a place the id is looked for holds the
\* same string in both: no pair of uplinks ends up under a common default.
IdsTellUplinksApart ==
  stage = "queued" /\ uplink.json =>
    \A w \in Uplinks :
      w.json /\ w # uplink /\ MessageId(w) = id =>
        \E i, j \in 1..3 :
          /\ IsString(IdPlaces(w)[i]) /\ IsString(IdPlaces(uplink)[j])
          /\ IdPlaces(w)[i].text = IdPlaces(uplink)[j].text

=============================================================================
