---------------------------- MODULE MessageFilter ----------------------------
(***************************************************************************)
(* What the Producer makes of an uplink: filterMessageData and the choice  *)
(* of the message id (Producer/src/main.cpp:27-299 and 396-480).           *)
(*                                                                         *)
(* A JSON value is its type with a text or a number; other contents do not *)
(* matter.  A field that its parent lacks, or whose parent is not an       *)
(* object, is "absent": simdjson returns an error either way.              *)
(*                                                                         *)
(* Numbers count a unit that is as small as needed.  A double stands for   *)
(* its decimal, of up to 15 digits, which both conversions keep.           *)
(***************************************************************************)
EXTENDS Integers, Sequences

CONSTANTS
  Texts,         \* contents of strings
  Decimals,      \* the numbers with at most six decimals
  WholeDoubles,  \* the integers a double holds: all up to 2^53, some of those beyond
  Misreadings,   \* messages that one with an unescaped string may be read as
  Uplinks        \* the uplinks MQTT may deliver

\* "text" is a string that JSON has to escape: it holds a quote, a backslash or a
\* control character.  "int" fits int64_t, "uint" only uint64_t; "other" is null, a
\* boolean, an array or an object.
Types == {"absent", "string", "text", "int", "uint", "double", "other"}
Values == [type : Types, text : Texts, number : Int]

Nothing == ""  \* the empty string, also the text of what is no string
Absent == [type |-> "absent", text |-> Nothing, number |-> 0]

ASSUME TextsAssumption == Nothing \in Texts
ASSUME NumbersAssumption ==
  Decimals \subseteq Int /\ WholeDoubles \subseteq Int /\ 0 \in Decimals \cap WholeDoubles

\* decoded_payload: the fields that the Consumer reads, and one field for each
\* way the filter converts the others: level for those it casts to double
\* (pressure, rainfall, ...), count for those it casts to int64_t (co2, lux, ...).
Payloads == [temperature_c : Values, humidity : Values, level : Values,
             count : Values, last_updated : Values]

\* An entry of rx_metadata.  eui stands for gateway_ids.eui and message_id for
\* packet_broker.message_id.
Receptions == [eui : Values, rssi : Values, snr : Values,
               uplink_token : Values, message_id : Values]

\* dev_eui stands for end_device_ids.dev_eui and correlation_id for the first
\* entry of correlation_ids.  json is FALSE for what does not parse.
Uplink ==
  [json : BOOLEAN, dev_eui : Values, received_at : Values, correlation_id : Values,
   decoded_payload : Payloads, rx_metadata : Seq(Receptions)]

ASSUME UplinksAssumption == Uplinks \subseteq Uplink

\* A message as a parser reads it.
Message ==
  [json : BOOLEAN, dev_eui : Values, received_at : Values, temperature_c : Values,
   humidity : Values, gateway_ids : Seq([eui : Values, rssi : Values, snr : Values])]

ASSUME MisreadingsAssumption == Misreadings \subseteq Message

IsString(v) == v.type \in {"string", "text"}
IsNumber(v) == v.type \in {"int", "uint", "double"}

-----------------------------------------------------------------------------
(* filterMessageData *)

StringOnly(v) == IF IsString(v) THEN v ELSE Absent

Abs(n) == IF n < 0 THEN -n ELSE n

\* The number of S that is nearest to n; a tie may go either way.
IsNearest(m, n, S) == m \in S /\ \A k \in S : Abs(m - n) <= Abs(k - n)
Nearest(n, S) == CHOOSE m \in S : IsNearest(m, n, S)

\* The numbers among which a conversion to double and to text can choose.
Printed(v) == IF v.type = "double" THEN Decimals ELSE WholeDoubles

\* std::to_string(double) writes six decimals.
PrintNumber(v) == [v EXCEPT !.number = IF v.type = "double" THEN Nearest(@, Decimals) ELSE @]

NumberOnly(v) == IF IsNumber(v) THEN PrintNumber(v) ELSE Absent

\* double(v) and int64_t(v) throw on any other type; the field may be missing.
CastsToDouble(v) == v.type = "absent" \/ IsNumber(v)
CastsToInt64(v)  == v.type \in {"absent", "int"}

\* std::to_string(double(v)): an integer first becomes the double next to it.
PrintDouble(v) ==
  IF IsNumber(v) THEN [v EXCEPT !.type = "double", !.number = Nearest(@, Printed(v))] ELSE v

\* Mutant of CastsThrow: a measurement that is no number is left out of the message.
CastsThrowElsewhere(p) == ~CastsToDouble(p.level) \/ ~CastsToInt64(p.count)

CastsThrow(p) ==
  \/ \E v \in {p.temperature_c, p.humidity, p.level} : ~CastsToDouble(v)
  \/ ~CastsToInt64(p.count)

\* A loop over a list of gateways that appends what has an EUI and skips the rest.
Keep(kept, entry) == IF IsString(entry.eui) THEN Append(kept, entry) ELSE kept

WithEui(entries) ==
  LET kept[i \in 0..Len(entries)] == IF i = 0 THEN <<>> ELSE Keep(kept[i - 1], entries[i])
  IN  kept[Len(entries)]

\* Mutant of FilterGateways: every entry takes the signal of the first one.
FilterGatewaysOneSignal(rx) ==
  LET entry(r) == [eui |-> r.eui, rssi |-> NumberOnly(rx[1].rssi), snr |-> NumberOnly(rx[1].snr)]
  IN  [i \in DOMAIN WithEui(rx) |-> entry(WithEui(rx)[i])]

\* Mutant of FilterGateways: it stops where a signal strength is no number.
FilterGatewaysUntilOdd(rx) ==
  LET entry(r) == [eui |-> r.eui, rssi |-> NumberOnly(r.rssi), snr |-> NumberOnly(r.snr)]
      read     == {n \in 0..Len(rx) : \A i \in 1..n : IsNumber(rx[i].rssi)}
      good     == WithEui(SubSeq(rx, 1, CHOOSE n \in read : \A k \in read : k <= n))
  IN  [i \in DOMAIN good |-> entry(good[i])]

FilterGateways(rx) ==
  LET entry(r) == [eui |-> r.eui, rssi |-> NumberOnly(r.rssi), snr |-> NumberOnly(r.snr)]
  IN  [i \in DOMAIN WithEui(rx) |-> entry(WithEui(rx)[i])]

\* Strings are copied between quotes as they are.
CopiedStrings(u) ==
  {v \in {u.dev_eui, u.received_at, u.decoded_payload.last_updated}
         \cup {u.rx_metadata[i].eui : i \in DOMAIN u.rx_metadata} : IsString(v)}

Escaped(u) == \A v \in CopiedStrings(u) : v.type # "text"

Filtered(u) ==
  [json          |-> Escaped(u),
   dev_eui       |-> StringOnly(u.dev_eui),
   received_at   |-> StringOnly(u.received_at),
   temperature_c |-> PrintDouble(u.decoded_payload.temperature_c),
   humidity      |-> PrintDouble(u.decoded_payload.humidity),
   gateway_ids   |-> FilterGateways(u.rx_metadata)]

\* A string that was not escaped may end early, hold an escape sequence or become
\* members of the message.  Only what is written before is safe: simdjson returns the
\* first member of a name, and dev_eui is the first.
Misread(u) ==
  {[m EXCEPT !.json = TRUE, !.dev_eui = IF u.dev_eui.type = "string" THEN u.dev_eui ELSE @] :
     m \in Misreadings}

\* The uplink as it came, read at the root: of the names the Consumer looks up
\* there, The Things Stack's uplink only has received_at.
Original(u) ==
  [json |-> u.json, dev_eui |-> Absent, received_at |-> u.received_at,
   temperature_c |-> Absent, humidity |-> Absent, gateway_ids |-> <<>>]

\* Mutant of FilterMessageData: when a cast throws, what is built so far is returned.
FilterUnfinished(u) ==
  IF ~u.json THEN {Original(u)}
  ELSE IF CastsThrow(u.decoded_payload) THEN {[Filtered(u) EXCEPT !.json = FALSE]}
  ELSE {Filtered(u)} \cup IF Escaped(u) THEN {} ELSE Misread(u)

\* What may be read of the message that is published.
FilterMessageData(u) ==
  IF ~u.json \/ CastsThrow(u.decoded_payload) THEN {Original(u)}
  ELSE {Filtered(u)} \cup IF Escaped(u) THEN {} ELSE Misread(u)

-----------------------------------------------------------------------------
(* The message id.  An id is a tuple: <<the string>>, or a hash, for which the  *)
(* hashed uplink stands: no two payloads are supposed to collide.               *)

FirstReception(u) ==
  IF u.rx_metadata # <<>> THEN u.rx_metadata[1]
  ELSE [eui |-> Absent, rssi |-> Absent, snr |-> Absent,
        uplink_token |-> Absent, message_id |-> Absent]

\* The places the id is looked for, in this order.  A string "unknown" counts as
\* none: the code marks with it that it has found no id yet.
IdPlaces(u) == <<u.correlation_id, FirstReception(u).uplink_token, FirstReception(u).message_id>>

Found(u) == {i \in 1..3 : IsString(IdPlaces(u)[i]) /\ IdPlaces(u)[i].text # "unknown"}
FirstFound(u) == CHOOSE i \in Found(u) : \A j \in Found(u) : i <= j

\* Mutant of MessageId: no hash when no id is found.
MessageIdWithoutHash(u) ==
  IF ~u.json THEN <<"parse_error">>
  ELSE IF Found(u) # {} THEN <<IdPlaces(u)[FirstFound(u)].text>>
  ELSE <<"unknown">>

MessageId(u) ==
  IF ~u.json THEN <<"parse_error">>
  ELSE IF Found(u) # {} THEN <<IdPlaces(u)[FirstFound(u)].text>>
  ELSE <<"hash", u>>

=============================================================================
