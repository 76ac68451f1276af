---------------------------- MODULE MCMessagePath ----------------------------
(* Uplinks for TLC: one part of an uplink varies at a time. *)
EXTENDS MessagePath

MCTexts == {"", "eui", "t0", "t1", "gw1", "gw2", "id1", "id2", "unknown"}

\* One is 6, and a decimal is 3.  A double holds the integers up to 4 and the even ones
\* beyond; an int holds -3..2, and int64_t -8..7.
MCDecimals == {3 * n : n \in -32..32}
MCWholeDoubles == {6 * n : n \in -4..4} \cup {12 * n : n \in -8..8}

S(text) == [type |-> "string", text |-> text, number |-> 0]
T(text) == [type |-> "text", text |-> text, number |-> 0]
N(type, number) == [type |-> type, text |-> Nothing, number |-> number]
Other == N("other", 0)

\* The integers, of which a double does not hold 5 and 9 and an int holds only 2, and
\* fractions that a decimal meets (0, -1 1/2, 2 1/2) or does not (1/6 and 1 1/3).
Two == N("int", 12)
Five == N("int", 30)
Nine == N("uint", 54)
Fraction(n) == N("double", n)

Heard(eui, rssi, snr) ==
  [eui |-> eui, rssi |-> rssi, snr |-> snr, uplink_token |-> Absent, message_id |-> Absent]

Decoded ==
  [temperature_c : {Fraction(n) : n \in {0, 1, 8}} \cup {Two, Five, Nine, Absent, T("t1")},
   humidity : {Five, Fraction(8), Absent, T("t1")},
   level : {Fraction(15), Absent, S("t1")},
   count : {Two, Fraction(15), Nine},
   last_updated : {S("t0"), T("t1"), Absent}]

OneDecoded ==
  [temperature_c |-> Fraction(15), humidity |-> Two, level |-> Absent,
   count |-> Two, last_updated |-> Absent]

Heards ==
  {Heard(S("gw1"), Two, Fraction(-9)),
   Heard(S("gw2"), N("int", -18), Two),
   Heard(S("gw2"), Fraction(-15), Absent),
   Heard(S("gw1"), Five, Fraction(8)),
   Heard(Absent, Two, Fraction(15)),
   Heard(T("gw1"), Other, Nine)}

Arriving(eui, time, corr, decoded, rx, json) ==
  [json |-> json, dev_eui |-> eui, received_at |-> time, correlation_id |-> corr,
   decoded_payload |-> decoded, rx_metadata |-> rx]

Eui == S("eui")
Time == S("t0")
Corr == S("id1")

RxLists == {<<>>} \cup {<<a>> : a \in Heards} \cup {<<a, b>> : a, b \in Heards}

\* Where an id may be found, and what else may stand there.
Ids == {S("id1"), S("id2"), S("unknown"), Other, Absent}

\* A string that ends early may bring members with it, or hide those that follow.
MCMisreadings ==
  {[json |-> TRUE, dev_eui |-> S("gw1"), received_at |-> t, temperature_c |-> n,
    humidity |-> n, gateway_ids |-> g] :
     t \in {Time, S("t1"), Absent}, n \in {Absent, Fraction(-9)},
     g \in {<<>>, <<[eui |-> S("gw1"), rssi |-> Two, snr |-> Absent]>>}}

MCUplinks ==
  {Arriving(Eui, Time, Corr, d, <<>>, TRUE) : d \in Decoded}
  \cup {Arriving(Eui, Time, Corr, OneDecoded, rx, TRUE) : rx \in RxLists}
  \cup {Arriving(e, t, Absent, OneDecoded, <<>>, j) :
          e \in {Eui, S(""), T("t1"), Two, Absent},
          t \in {Time, T("t1"), Two, Absent},
          j \in BOOLEAN}
  \cup {Arriving(Eui, Time, c, OneDecoded,
                 <<[Heard(S("gw1"), Absent, Absent)
                   EXCEPT !.uplink_token = t, !.message_id = m]>>, TRUE) :
          c \in Ids, t \in Ids, m \in Ids}

=============================================================================
